-------------------------- MODULE MediaSurfaceProofs --------------------------
(***************************************************************************)
(* What players and API clients see of the library, for any movies,        *)
(* titles, page sizes, searches and limits and any number of requests.     *)
(***************************************************************************)
EXTENDS MediaSurface, RuleLemmas, SequenceTheorems

-----------------------------------------------------------------------------
(* Listings.                                                               *)

\* A one to one correspondence preserves the number of elements.
LEMMA SameSize ==
  ASSUME NEW S, IsFiniteSet(S), NEW T, NEW f \in [S -> T],
         \A x, y \in S : f[x] = f[y] => x = y,
         \A y \in T : \E x \in S : f[x] = y
  PROVE  IsFiniteSet(T) /\ Cardinality(T) = Cardinality(S)
<1>1. f \in Bijection(S, T)
  BY DEF Bijection, Injection, Surjection, IsInjective
<1>2. ExistsBijection(S, T)
  BY <1>1 DEF ExistsBijection
<1> QED
  BY <1>2, FS_Bijection

\* A one to one map into a finite set.
LEMMA NoLarger ==
  ASSUME NEW S, NEW T, IsFiniteSet(T), NEW f \in [S -> T],
         \A x, y \in S : f[x] = f[y] => x = y
  PROVE  IsFiniteSet(S) /\ Cardinality(S) <= Cardinality(T)
<1>1. f \in Injection(S, T)
  BY DEF Injection, IsInjective
<1> QED
  BY <1>1, FS_Injection

\* Listing lists the positions in their order.
LEMMA ListingLists ==
  ASSUME NEW S, IsFiniteSet(S), NEW R, Orders(R, S)
  PROVE  Cardinality(S) \in Nat /\ Enumerates(Listing(S, R), S, R)
<1> DEFINE n == Cardinality(S)
<1>1. PICK s : Enumerates(s, S, R)
  BY ListExists
<1>2. s \in Orderings(S, R)
  BY <1>1 DEF Enumerates, Orderings
<1>3. Listing(S, R) \in Orderings(S, R)
  BY <1>2 DEF Listing
<1>4. Enumerates(Listing(S, R), S, R)
  BY <1>3 DEF Enumerates, Orderings
<1> QED
  BY <1>4, FS_CardinalityType

\* Positions in a listing are as far apart as the elements.
LEMMA ListedOnce ==
  ASSUME NEW S, IsFiniteSet(S), NEW R, Orders(R, S), NEW l, Enumerates(l, S, R),
         NEW j \in 1..Cardinality(S), NEW k \in 1..Cardinality(S)
  PROVE  /\ l[j] \in S /\ l[k] \in S
         /\ l[j] = l[k] => j = k
         /\ <<l[j], l[k]>> \in R <=> j < k
<1>1. Cardinality(S) \in Nat
  BY FS_CardinalityType
<1>2. l[j] \in S /\ l[k] \in S
  BY DEF Enumerates
<1>3. j < k => <<l[j], l[k]>> \in R
  BY DEF Enumerates
<1>4. k < j => <<l[k], l[j]>> \in R
  BY DEF Enumerates
<1>5. ~(<<l[j], l[k]>> \in R /\ <<l[k], l[j]>> \in R)
  BY <1>2 DEF Orders
<1>6. l[j] = l[k] => <<l[j], l[k]>> \notin R
  BY <1>2 DEF Orders
<1>7. l[j] = l[k] => <<l[k], l[j]>> \notin R
  BY <1>2 DEF Orders
<1>8. j \in Nat /\ k \in Nat
  BY <1>1
<1>9. j < k \/ j = k \/ k < j
  BY <1>8
<1>10. j = k => l[j] = l[k]
  OBVIOUS
<1>11. j < k => ~(k < j) /\ j # k
  BY <1>8
<1> QED
  BY <1>2, <1>3, <1>4, <1>5, <1>6, <1>7, <1>9, <1>10, <1>11

\* Before the k-th element of a listing there are k - 1.
LEMMA RankInListing ==
  ASSUME NEW S, IsFiniteSet(S), NEW R, Orders(R, S), NEW l, Enumerates(l, S, R),
         NEW k \in 1..Cardinality(S)
  PROVE  Cardinality({x \in S : <<x, l[k]>> \in R}) = k - 1
<1> DEFINE n == Cardinality(S)
           A == {x \in S : <<x, l[k]>> \in R}
           f == [j \in 1..(k - 1) |-> l[j]]
<1>0. n \in Nat /\ k \in Int /\ 1 <= k /\ k <= n
  BY FS_CardinalityType
<1>1. \A j \in 1..(k - 1) : j \in 1..n /\ j < k
  BY <1>0
<1>2. \A j \in 1..n : j < k => j \in 1..(k - 1)
  BY <1>0
<1>3. f \in [1..(k - 1) -> A]
  <2>1. ASSUME NEW j \in 1..(k - 1) PROVE l[j] \in A
    <3>1. j \in 1..n /\ j < k
      BY <1>1
    <3>2. l[j] \in S /\ (<<l[j], l[k]>> \in R <=> j < k)
      BY <3>1, ListedOnce
    <3> QED
      BY <3>1, <3>2
  <2> QED
    BY <2>1
<1>4. ASSUME NEW i \in 1..(k - 1), NEW j \in 1..(k - 1), f[i] = f[j] PROVE i = j
  <2>1. i \in 1..n /\ j \in 1..n /\ l[i] = l[j]
    BY <1>1, <1>4
  <2> QED
    BY <2>1, ListedOnce
<1>5. ASSUME NEW x \in A PROVE \E j \in 1..(k - 1) : f[j] = x
  <2>1. PICK j \in 1..n : l[j] = x
    BY DEF Enumerates
  <2>2. j < k
    BY <2>1, ListedOnce
  <2> QED
    BY <2>1, <2>2, <1>2
<1>6. IsFiniteSet(1..(k - 1)) /\ Cardinality(1..(k - 1)) = k - 1
  <2>1. 1 \in Int /\ k - 1 \in Int
    BY <1>0
  <2>2. 1 > k - 1 => k - 1 = 0
    BY <1>0
  <2>3. (k - 1) - 1 + 1 = k - 1
    BY <1>0
  <2> QED
    BY <2>1, <2>2, <2>3, FS_Interval
<1> HIDE DEF A, f
<1>7. Cardinality(A) = Cardinality(1..(k - 1))
  BY <1>3, <1>4, <1>5, <1>6, SameSize
<1> QED
  BY <1>6, <1>7 DEF A

\* Natural numbers are ordered by size.
LEMMA IncreasingOrders ==
  ASSUME NEW S \in SUBSET Nat
  PROVE  Orders(Increasing, S)
<1>1. \A x, y \in S : <<x, y>> \in Increasing <=> x < y
  BY DEF Increasing
<1>2. \A x \in S : ~(x < x)
  OBVIOUS
<1>3. \A x, y, z \in S : x < y /\ y < z => x < z
  OBVIOUS
<1>4. \A x, y \in S : x = y \/ x < y \/ y < x
  OBVIOUS
<1> QED
  BY <1>1, <1>2, <1>3, <1>4 DEF Orders

\* What Arranged gives.
LEMMA ArrangedIs ==
  ASSUME NEW T, NEW s \in Seq(T), NEW S \in SUBSET (DOMAIN s), NEW R, Orders(R, S)
  PROVE  /\ IsFiniteSet(S) /\ Cardinality(S) \in Nat
         /\ Enumerates(Listing(S, R), S, R)
         /\ Arranged(s, S, R) \in Seq(T) /\ Len(Arranged(s, S, R)) = Cardinality(S)
         /\ DOMAIN Arranged(s, S, R) = 1..Cardinality(S)
         /\ \A k \in 1..Cardinality(S) :
               /\ Listing(S, R)[k] \in S
               /\ Arranged(s, S, R)[k] = s[Listing(S, R)[k]]
<1> DEFINE n == Cardinality(S)
           l == Listing(S, R)
           a == Arranged(s, S, R)
<1>1. IsFiniteSet(S)
  <2>1. IsFiniteSet(1..Len(s))
    BY FS_Interval
  <2> QED
    BY <2>1, FS_Subset
<1>2. n \in Nat /\ Enumerates(l, S, R)
  BY <1>1, ListingLists
<1>3. l \in [1..n -> S]
  BY <1>2 DEF Enumerates
<1>4. a = [k \in 1..n |-> s[l[k]]]
  BY DEF Arranged
<1> HIDE DEF n, l, a
<1>5. \A k \in 1..n : s[l[k]] \in T
  BY <1>3
<1>6. a \in Seq(T) /\ Len(a) = n /\ DOMAIN a = 1..n
  BY <1>2, <1>4, <1>5
<1>7. \A k \in 1..n : l[k] \in S /\ a[k] = s[l[k]]
  BY <1>3, <1>4
<1> QED
  BY <1>1, <1>2, <1>6, <1>7 DEF n, l, a

-----------------------------------------------------------------------------
(* The catalog's queries, for any table t.                                 *)

\* A table: no two rows with one info hash, and a row's movie is its hash's.
Table(t) ==
    /\ t \in Seq(Row)
    /\ \A i \in DOMAIN t : t[i].movie = t[i].hash[1]
    /\ \A i, j \in DOMAIN t : t[i].hash = t[j].hash => i = j

EntryType == [id : Movies, file : Hashes, title : Nat]

\* T has a title for each movie with a torrent in t.
Titled(T, t) == \A i \in DOMAIN t : T[t[i].movie] \in Nat
TitleOrder(T, t) ==
    {p \in Nat \X Nat :
        \/ T[t[p[1]].movie] < T[t[p[2]].movie]
        \/ T[t[p[1]].movie] = T[t[p[2]].movie] /\ p[1] < p[2]}
DoneIn(t, ms) == {i \in DOMAIN t : t[i].done /\ t[i].movie \in ms}
EntriesIn(T, t, ms) ==
    LET sorted == Arranged(t, DoneIn(t, ms), TitleOrder(T, t))
    IN  [n \in DOMAIN sorted |-> MediaEntry(T, sorted[n])]

\* The completed torrents a search finds, and those that come before one of them.
FoundSet(T, t, ms, query) == {i \in DoneIn(t, ms) : T[t[i].movie] \in query}
Ahead(T, t, ms, query, i) == {j \in FoundSet(T, t, ms, query) : <<j, i>> \in TitleOrder(T, t)}

\* The fields of a row.
LEMMA RowFields ==
  ASSUME NEW t \in Seq(Row), NEW i \in DOMAIN t
  PROVE  /\ t[i] \in Row /\ i \in Nat /\ i \in 1..Len(t)
         /\ t[i].hash \in Hashes /\ t[i].movie \in Movies /\ t[i].done \in BOOLEAN
         /\ t[i].added_at \in Nat
<1>1. t[i] \in Row /\ i \in Nat /\ i \in 1..Len(t)
  OBVIOUS
<1>2. t[i].hash \in Hashes /\ t[i].movie \in Movies /\ t[i].done \in BOOLEAN
  BY <1>1 DEF Row
<1>3. t[i].added_at \in Times
  BY <1>1 DEF Row
<1> QED
  BY <1>1, <1>2, <1>3, SurfaceAssumption

\* Title and position order any rows.
LEMMA TitleOrders ==
  ASSUME NEW t \in Seq(Row), NEW T, Titled(T, t), NEW S \in SUBSET (DOMAIN t)
  PROVE  Orders(TitleOrder(T, t), S)
<1> DEFINE k == [i \in S |-> T[t[i].movie]]
<1>1. S \subseteq Nat /\ k \in [S -> Nat]
  BY RowFields DEF Titled
<1> DEFINE Less(x, y) == k[x] < k[y] \/ (k[x] = k[y] /\ x < y)
<1>2. \A x, y \in S : <<x, y>> \in TitleOrder(T, t) <=> Less(x, y)
  BY <1>1 DEF TitleOrder
<1> HIDE DEF k
<1>3. \A x \in S : ~Less(x, x)
  BY <1>1
<1>4. \A x, y, z \in S : Less(x, y) /\ Less(y, z) => Less(x, z)
  BY <1>1
<1>5. \A x, y \in S : x = y \/ Less(x, y) \/ Less(y, x)
  BY <1>1
<1> HIDE DEF Less
<1> QED
  BY <1>2, <1>3, <1>4, <1>5 DEF Orders

\* The entries are the completed torrents of the movies, by title.
LEMMA EntriesAre ==
  ASSUME NEW t \in Seq(Row), NEW T, Titled(T, t), NEW ms
  PROVE  LET n == Cardinality(DoneIn(t, ms))
             l == Listing(DoneIn(t, ms), TitleOrder(T, t))
         IN  /\ n \in Nat /\ IsFiniteSet(DoneIn(t, ms))
             /\ Enumerates(l, DoneIn(t, ms), TitleOrder(T, t))
             /\ EntriesIn(T, t, ms) \in Seq(EntryType) /\ Len(EntriesIn(T, t, ms)) = n
             /\ DOMAIN EntriesIn(T, t, ms) = 1..n
             /\ \A k \in 1..n : /\ l[k] \in DoneIn(t, ms)
                                /\ EntriesIn(T, t, ms)[k] = MediaEntry(T, t[l[k]])
<1> DEFINE U == DoneIn(t, ms)
           n == Cardinality(U)
           l == Listing(U, TitleOrder(T, t))
           a == Arranged(t, U, TitleOrder(T, t))
           E == EntriesIn(T, t, ms)
<1>1. U \in SUBSET (DOMAIN t)
  BY DEF DoneIn
<1>2. Orders(TitleOrder(T, t), U)
  BY <1>1, TitleOrders
<1>3. /\ IsFiniteSet(U) /\ n \in Nat /\ Enumerates(l, U, TitleOrder(T, t))
      /\ DOMAIN a = 1..n
      /\ \A k \in 1..n : l[k] \in U /\ a[k] = t[l[k]]
  <2> HIDE DEF U
  <2> QED
    BY <1>1, <1>2, ArrangedIs
<1>4. E = [k \in DOMAIN a |-> MediaEntry(T, a[k])]
  BY DEF EntriesIn
<1> HIDE DEF U, n, l, a, E
<1>5. E = [k \in 1..n |-> MediaEntry(T, t[l[k]])]
  BY <1>3, <1>4
<1>6. ASSUME NEW k \in 1..n PROVE MediaEntry(T, t[l[k]]) \in EntryType
  <2>1. l[k] \in DOMAIN t
    BY <1>1, <1>3
  <2>2. t[l[k]].hash \in Hashes /\ t[l[k]].movie \in Movies /\ T[t[l[k]].movie] \in Nat
    BY <2>1, RowFields DEF Titled
  <2> QED
    BY <2>2 DEF MediaEntry, EntryType
<1>7. E \in Seq(EntryType) /\ Len(E) = n /\ DOMAIN E = 1..n
  <2> HIDE DEF EntryType
  <2> QED
    BY <1>3, <1>5, <1>6
<1>8. \A k \in 1..n : E[k] = MediaEntry(T, t[l[k]])
  BY <1>5
<1> QED
  BY <1>3, <1>7, <1>8 DEF U, n, l, E

\* Only the titles of the movies listed matter.
LEMMA EntriesAgree ==
  ASSUME NEW t \in Seq(Row), NEW T, Titled(T, t), NEW T2, NEW ms,
         \A i \in DoneIn(t, ms) : T[t[i].movie] = T2[t[i].movie]
  PROVE  EntriesIn(T, t, ms) = EntriesIn(T2, t, ms)
<1> DEFINE U == DoneIn(t, ms)
           n == Cardinality(U)
           R == TitleOrder(T, t)
           R2 == TitleOrder(T2, t)
<1>1. U \subseteq Nat /\ U \in SUBSET (DOMAIN t)
  BY DEF DoneIn
<1>2. \A i, j \in U : <<i, j>> \in R <=> <<i, j>> \in R2
  BY <1>1 DEF TitleOrder
<1>3. Orders(R, U)
  <2> HIDE DEF U
  <2> QED
    BY <1>1, TitleOrders
<1> HIDE DEF U, R, R2
<1>4. Orderings(U, R) = Orderings(U, R2)
  BY <1>2 DEF Orderings
<1>5. Listing(U, R) = Listing(U, R2)
  BY <1>4 DEF Listing
<1>6. Arranged(t, U, R) = Arranged(t, U, R2)
  BY <1>5 DEF Arranged
<1> DEFINE a == Arranged(t, U, R)
           l == Listing(U, R)
<1>7. DOMAIN a = 1..n /\ \A k \in 1..n : l[k] \in U /\ a[k] = t[l[k]]
  <2>1. U \in SUBSET (DOMAIN t)
    BY <1>1
  <2> QED
    BY <2>1, <1>3, ArrangedIs
<1> HIDE DEF a, l
<1>8. \A k \in DOMAIN a : MediaEntry(T, a[k]) = MediaEntry(T2, a[k])
  BY <1>7 DEF MediaEntry, U
<1>9. EntriesIn(T, t, ms) = [k \in DOMAIN a |-> MediaEntry(T, a[k])]
  BY DEF EntriesIn, a, U, R
<1>10. EntriesIn(T2, t, ms) = [k \in DOMAIN a |-> MediaEntry(T2, a[k])]
  BY <1>6 DEF EntriesIn, a, U, R2
<1> QED
  BY <1>8, <1>9, <1>10

\* What a search leaves of them: what it finds, in the same order.
LEMMA FoundAre ==
  ASSUME NEW t \in Seq(Row), NEW T, Titled(T, t), NEW ms, NEW query
  PROVE  LET n == Cardinality(FoundSet(T, t, ms, query))
             F == Found(EntriesIn(T, t, ms), query)
         IN  /\ n \in Nat /\ IsFiniteSet(FoundSet(T, t, ms, query))
             /\ F \in Seq(EntryType) /\ Len(F) = n /\ DOMAIN F = 1..n
             /\ \E l : /\ Enumerates(l, FoundSet(T, t, ms, query), TitleOrder(T, t))
                       /\ \A k \in 1..n : F[k] = MediaEntry(T, t[l[k]])
<1> DEFINE U == DoneIn(t, ms)
           R == TitleOrder(T, t)
           E == EntriesIn(T, t, ms)
           l1 == Listing(U, R)
           n1 == Cardinality(U)
           P == {k \in DOMAIN E : E[k].title \in query}
           l2 == Listing(P, Increasing)
           c == Cardinality(P)
           V == FoundSet(T, t, ms, query)
           F == Found(E, query)
           l == [k \in 1..c |-> l1[l2[k]]]
<1>1. /\ n1 \in Nat /\ IsFiniteSet(U) /\ Enumerates(l1, U, R)
      /\ E \in Seq(EntryType) /\ DOMAIN E = 1..n1
      /\ \A k \in 1..n1 : l1[k] \in U /\ E[k] = MediaEntry(T, t[l1[k]])
  BY EntriesAre
<1>2. Orders(R, U)
  <2>1. U \in SUBSET (DOMAIN t)
    BY DEF DoneIn
  <2> HIDE DEF U
  <2> QED
    BY <2>1, TitleOrders
<1>3. P \in SUBSET (DOMAIN E) /\ P \subseteq Nat /\ P \subseteq 1..n1
  BY <1>1
<1>4. Orders(Increasing, P)
  <2> HIDE DEF P
  <2> QED
    BY <1>3, IncreasingOrders
<1>5. F = Arranged(E, P, Increasing)
  BY DEF Found, Only
<1> HIDE DEF U, R, E, l1, n1, P, l2, c, F
<1>6. /\ IsFiniteSet(P) /\ c \in Nat /\ Enumerates(l2, P, Increasing)
      /\ F \in Seq(EntryType) /\ Len(F) = c /\ DOMAIN F = 1..c
      /\ \A k \in 1..c : l2[k] \in P /\ F[k] = E[l2[k]]
  BY <1>1, <1>3, <1>4, <1>5, ArrangedIs DEF l2, c
<1>7. \A k \in 1..n1 : k \in P <=> l1[k] \in V
  BY <1>1 DEF P, V, FoundSet, MediaEntry, U
<1>8. V \subseteq U
  BY DEF V, FoundSet, U
<1> HIDE DEF V
<1>9. IsFiniteSet(V) /\ Cardinality(V) = c
  <2> DEFINE f == [k \in P |-> l1[k]]
  <2>1. f \in [P -> V]
    BY <1>3, <1>7
  <2>2. ASSUME NEW x \in P, NEW y \in P, f[x] = f[y] PROVE x = y
    <3>1. x \in 1..n1 /\ y \in 1..n1 /\ l1[x] = l1[y]
      BY <1>3, <2>2
    <3>2. x \in 1..Cardinality(U) /\ y \in 1..Cardinality(U)
      BY <3>1 DEF n1
    <3>3. IsFiniteSet(U) /\ Orders(R, U) /\ Enumerates(l1, U, R)
      BY <1>1, <1>2
    <3> HIDE DEF f
    <3> QED
      BY <3>1, <3>2, <3>3, ListedOnce
  <2>3. ASSUME NEW y \in V PROVE \E x \in P : f[x] = y
    <3>1. PICK x \in 1..n1 : l1[x] = y
      BY <1>1, <1>8 DEF Enumerates, n1
    <3>2. x \in P
      BY <3>1, <1>7
    <3> QED
      BY <3>1, <3>2
  <2> HIDE DEF f
  <2> QED
    BY <1>6, <2>1, <2>2, <2>3, SameSize DEF c
<1>10. Enumerates(l, V, R)
  <2>1. \A k \in 1..c : l2[k] \in P /\ l2[k] \in 1..n1 /\ l[k] = l1[l2[k]] /\ l[k] \in V
    BY <1>3, <1>6, <1>7
  <2>2. l \in [1..c -> V]
    BY <2>1
  <2>3. ASSUME NEW y \in V PROVE \E k \in 1..c : l[k] = y
    <3>1. PICK x \in 1..n1 : l1[x] = y
      BY <1>1, <1>8 DEF Enumerates, n1
    <3>2. x \in P
      BY <3>1, <1>7
    <3>3. PICK k \in 1..c : l2[k] = x
      BY <3>2, <1>6 DEF Enumerates, c
    <3> QED
      BY <3>1, <3>3, <2>1
  <2>4. ASSUME NEW j \in 1..c, NEW k \in 1..c, j < k PROVE <<l[j], l[k]>> \in R
    <3>1. <<l2[j], l2[k]>> \in Increasing
      BY <2>4, <1>6 DEF Enumerates, c
    <3>2. l2[j] < l2[k]
      BY <3>1 DEF Increasing
    <3>3. <<l1[l2[j]], l1[l2[k]]>> \in R
      BY <1>1, <2>1, <3>2 DEF Enumerates, n1
    <3> QED
      BY <2>1, <3>3
  <2> HIDE DEF l
  <2> QED
    BY <1>9, <2>2, <2>3, <2>4 DEF Enumerates
<1>11. \A k \in 1..c : F[k] = MediaEntry(T, t[l[k]])
  BY <1>1, <1>3, <1>6
<1> HIDE DEF l
<1> QED
  BY <1>6, <1>9, <1>10, <1>11 DEF V, F, R, E

-----------------------------------------------------------------------------
(* How the table changes.                                                  *)

\* What a table lists.
ListedIn(T, t) == {MediaEntry(T, t[i]) : i \in DoneIn(t, Movies)}

\* t2 is what is left of t, in order, and rows that are not complete: row k of t2,
\* for k up to n, was row l[k].
Derives(t2, t, l, n) ==
    /\ n \in Nat /\ n <= Len(t2)
    /\ l \in [1..n -> DOMAIN t]
    /\ \A j, k \in 1..n : j < k => l[j] < l[k]
    /\ \A k \in 1..n : /\ t2[k].hash = t[l[k]].hash /\ t2[k].movie = t[l[k]].movie
                       /\ t2[k].added_at = t[l[k]].added_at
    /\ \A k \in DOMAIN t2 : t2[k].done => k <= n

\* entries lists the completed torrents.
LEMMA ListedAre ==
  ASSUME NEW t \in Seq(Row), NEW T, Titled(T, t)
  PROVE  ToSet(EntriesIn(T, t, Movies)) = ListedIn(T, t)
<1> DEFINE U == DoneIn(t, Movies)
           n == Cardinality(U)
           l == Listing(U, TitleOrder(T, t))
           E == EntriesIn(T, t, Movies)
<1>1. /\ Enumerates(l, U, TitleOrder(T, t))
      /\ DOMAIN E = 1..n
      /\ \A k \in 1..n : l[k] \in U /\ E[k] = MediaEntry(T, t[l[k]])
  BY EntriesAre
<1>2. \A i \in U : \E k \in 1..n : l[k] = i
  BY <1>1 DEF Enumerates
<1>3. ToSet(E) = {E[k] : k \in DOMAIN E}
  BY DEF ToSet
<1>4. ListedIn(T, t) = {MediaEntry(T, t[i]) : i \in U}
  BY DEF ListedIn
<1> HIDE DEF U, n, l, E
<1>5. ASSUME NEW e \in ToSet(E) PROVE e \in ListedIn(T, t)
  <2>1. PICK k \in 1..n : e = E[k]
    BY <1>1, <1>3
  <2> QED
    BY <2>1, <1>1, <1>4
<1>6. ASSUME NEW e \in ListedIn(T, t) PROVE e \in ToSet(E)
  <2>1. PICK i \in U : e = MediaEntry(T, t[i])
    BY <1>4
  <2>2. PICK k \in 1..n : l[k] = i
    BY <1>2
  <2>3. E[k] = e /\ k \in DOMAIN E
    BY <1>1, <2>1, <2>2
  <2> QED
    BY <1>3, <2>3
<1> QED
  BY <1>5, <1>6 DEF E

\* If all that was listed still is, then what was ahead of a torrent still is.
LEMMA Grows ==
  ASSUME NEW t, Table(t), NEW T, NEW t2, Table(t2), NEW T2, NEW l, NEW n, Derives(t2, t, l, n),
         ListedIn(T, t) \subseteq ListedIn(T2, t2),
         NEW ms \in SUBSET Movies, NEW ms2, ms \subseteq ms2, NEW query,
         NEW i \in FoundSet(T, t, ms, query)
  PROVE  \E i2 \in FoundSet(T2, t2, ms2, query) :
            /\ t2[i2].movie = t[i].movie
            /\ Cardinality(Ahead(T, t, ms, query, i)) <= Cardinality(Ahead(T2, t2, ms2, query, i2))
<1> DEFINE D == DoneIn(t, Movies)
           Came(x, k) == l[k] = x /\ t2[k].done /\ T2[t2[k].movie] = T[t[x].movie]
           f == [x \in D |-> CHOOSE k \in 1..n : Came(x, k)]
<1>0. /\ t \in Seq(Row) /\ t2 \in Seq(Row)
      /\ n \in Nat /\ n <= Len(t2) /\ l \in [1..n -> DOMAIN t]
      /\ \A x, y \in DOMAIN t : t[x].hash = t[y].hash => x = y
      /\ \A k \in 1..n : t2[k].hash = t[l[k]].hash /\ t2[k].movie = t[l[k]].movie
      /\ \A k \in DOMAIN t2 : t2[k].done => k <= n
  BY DEF Table, Derives
<1>1. D \subseteq DOMAIN t /\ DOMAIN t \subseteq Nat /\ DOMAIN t2 = 1..Len(t2) /\ Len(t2) \in Nat
  BY <1>0 DEF DoneIn
<1>2. ASSUME NEW x \in D PROVE \E k \in 1..n : Came(x, k)
  <2>1. MediaEntry(T, t[x]) \in ListedIn(T2, t2)
    BY DEF ListedIn
  <2>2. PICK y \in DoneIn(t2, Movies) : MediaEntry(T, t[x]) = MediaEntry(T2, t2[y])
    BY <2>1 DEF ListedIn
  <2>3. /\ t2[y].hash = t[x].hash /\ y \in DOMAIN t2 /\ t2[y].done
        /\ T2[t2[y].movie] = T[t[x].movie]
    BY <2>2 DEF MediaEntry, DoneIn
  <2>4. y \in 1..n
    BY <2>3, <1>0, <1>1
  <2>5. l[y] \in DOMAIN t /\ t[l[y]].hash = t[x].hash /\ x \in DOMAIN t
    BY <1>0, <1>1, <2>3, <2>4
  <2>6. l[y] = x
    BY <1>0, <2>5
  <2> QED
    BY <2>3, <2>4, <2>6
<1> HIDE DEF D, Came
<1>3. \A x \in D : f[x] \in 1..n /\ Came(x, f[x])
  BY <1>2
<1> HIDE DEF f
<1>4. \A x \in D : /\ f[x] \in 1..n /\ f[x] \in DOMAIN t2 /\ l[f[x]] = x
                   /\ t2[f[x]].done /\ t2[f[x]].movie = t[x].movie
                   /\ T2[t2[f[x]].movie] = T[t[x].movie]
  BY <1>0, <1>1, <1>3 DEF Came
<1>5. ASSUME NEW x \in D, NEW y \in D, x < y PROVE f[x] < f[y]
  <2>1. f[x] \in 1..n /\ f[y] \in 1..n /\ l[f[x]] = x /\ l[f[y]] = y
    BY <1>4
  <2>2. f[y] < f[x] => y < x
    BY <2>1 DEF Derives
  <2>3. f[x] = f[y] => x = y
    BY <2>1
  <2>4. x \in Nat /\ y \in Nat /\ f[x] \in Int /\ f[y] \in Int
    BY <1>0, <1>1, <2>1
  <2> QED
    BY <1>5, <2>2, <2>3, <2>4
<1>6. \A x \in D : x \in FoundSet(T, t, ms, query) => f[x] \in FoundSet(T2, t2, ms2, query)
  BY <1>4 DEF FoundSet, DoneIn
<1>7. FoundSet(T, t, ms, query) \subseteq D
  BY DEF FoundSet, DoneIn, D
<1>8. ASSUME NEW x \in D, NEW y \in D, <<x, y>> \in TitleOrder(T, t)
      PROVE  <<f[x], f[y]>> \in TitleOrder(T2, t2)
  <2>1. /\ T2[t2[f[x]].movie] = T[t[x].movie] /\ T2[t2[f[y]].movie] = T[t[y].movie]
        /\ f[x] \in Nat /\ f[y] \in Nat
    BY <1>0, <1>4
  <2> QED
    BY <2>1, <1>5, <1>8 DEF TitleOrder
<1> DEFINE A == Ahead(T, t, ms, query, i)
           B == Ahead(T2, t2, ms2, query, f[i])
           g == [x \in A |-> f[x]]
<1>9. A \subseteq D /\ i \in D
  BY <1>7 DEF Ahead
<1>10. IsFiniteSet(B)
  <2>1. IsFiniteSet(1..Len(t2))
    BY <1>1, FS_Interval
  <2>2. B \in SUBSET (1..Len(t2))
    BY <1>1 DEF Ahead, FoundSet, DoneIn
  <2> HIDE DEF B
  <2> QED
    BY <2>1, <2>2, FS_Subset
<1>11. \A x \in A : f[x] \in B
  BY <1>6, <1>8, <1>9 DEF Ahead
<1> HIDE DEF A, B
<1>12. g \in [A -> B]
  BY <1>11
<1>13. \A x, y \in A : g[x] = g[y] => x = y
  BY <1>4, <1>9
<1> HIDE DEF g
<1>14. Cardinality(A) <= Cardinality(B)
  BY <1>10, <1>12, <1>13, NoLarger
<1>15. f[i] \in FoundSet(T2, t2, ms2, query) /\ t2[f[i]].movie = t[i].movie
  BY <1>4, <1>6, <1>9
<1> QED
  BY <1>14, <1>15 DEF A, B

\* Taking rows away: the others keep their order.
LEMMA Removes ==
  ASSUME NEW t, Table(t), NEW S \in SUBSET (DOMAIN t)
  PROVE  LET l == Listing(S, Increasing)
             n == Cardinality(S)
         IN  /\ Table(Only(t, S)) /\ Len(Only(t, S)) = n
             /\ Derives(Only(t, S), t, l, n)
             /\ \A k \in 1..n : l[k] \in S /\ Only(t, S)[k] = t[l[k]]
             /\ \A i \in S : \E k \in 1..n : l[k] = i
<1> DEFINE l == Listing(S, Increasing)
           n == Cardinality(S)
           a == Only(t, S)
<1>0. t \in Seq(Row) /\ DOMAIN t \subseteq Nat
  BY DEF Table
<1>1. Orders(Increasing, S)
  BY <1>0, IncreasingOrders
<1>2. a = Arranged(t, S, Increasing)
  BY DEF Only
<1>3. /\ IsFiniteSet(S) /\ n \in Nat /\ Enumerates(l, S, Increasing)
      /\ a \in Seq(Row) /\ Len(a) = n /\ DOMAIN a = 1..n
      /\ \A k \in 1..n : l[k] \in S /\ a[k] = t[l[k]]
  BY <1>0, <1>1, <1>2, ArrangedIs
<1> HIDE DEF l, n, a
<1>4. /\ l \in [1..n -> S]
      /\ \A i \in S : \E k \in 1..n : l[k] = i
      /\ \A j, k \in 1..n : j < k => <<l[j], l[k]>> \in Increasing
  BY <1>3 DEF Enumerates, n
<1>5. \A j, k \in 1..n : j < k => l[j] < l[k]
  BY <1>4 DEF Increasing
<1>6. ASSUME NEW j \in 1..n, NEW k \in 1..n, l[j] = l[k] PROVE j = k
  <2>1. j \in Int /\ k \in Int /\ l[j] \in Nat /\ l[k] \in Nat
    BY <1>0, <1>3
  <2> QED
    BY <1>5, <1>6, <2>1
<1>7. Table(a)
  <2>1. \A k \in 1..n : l[k] \in DOMAIN t /\ a[k] = t[l[k]]
    BY <1>3
  <2>2. ASSUME NEW j \in 1..n, NEW k \in 1..n, a[j].hash = a[k].hash PROVE j = k
    <3>1. l[j] = l[k]
      BY <2>1, <2>2 DEF Table
    <3> QED
      BY <1>6, <3>1
  <2>3. \A k \in 1..n : a[k].movie = a[k].hash[1]
    BY <2>1 DEF Table
  <2> QED
    BY <1>3, <2>2, <2>3 DEF Table
<1>8. Derives(a, t, l, n)
  <2>1. l \in [1..n -> DOMAIN t]
    BY <1>4
  <2>2. \A k \in DOMAIN a : a[k].done => k <= n
    BY <1>3
  <2> QED
    BY <1>3, <1>5, <2>1, <2>2 DEF Derives
<1> QED
  BY <1>3, <1>4, <1>7, <1>8 DEF l, n, a

\* Adding a row that is not complete.
LEMMA Appends ==
  ASSUME NEW t, NEW a, Table(a), NEW l, NEW n, Derives(a, t, l, n), n = Len(a),
         NEW h \in Hashes, NEW now \in Times, \A k \in DOMAIN a : a[k].hash # h
  PROVE  /\ Table(Append(a, NewRow(h, now)))
         /\ Derives(Append(a, NewRow(h, now)), t, l, n)
         /\ Len(Append(a, NewRow(h, now))) = n + 1
         /\ \A k \in 1..n : Append(a, NewRow(h, now))[k] = a[k]
         /\ Append(a, NewRow(h, now))[n + 1] = NewRow(h, now)
<1> DEFINE r == NewRow(h, now)
           b == Append(a, r)
<1>0. a \in Seq(Row) /\ n \in Nat /\ DOMAIN a = 1..n
  BY DEF Table
<1>1. r \in Row /\ r.hash = h /\ r.movie = h[1] /\ r.done = FALSE
  BY SurfaceAssumption DEF NewRow, Row, Movies
<1> HIDE DEF r
<1>2. b \in Seq(Row) /\ Len(b) = n + 1 /\ DOMAIN b = 1..(n + 1)
  BY <1>0, <1>1
<1>3. (\A k \in 1..n : b[k] = a[k]) /\ b[n + 1] = r
  BY <1>0, <1>1
<1>4. \A k \in 1..(n + 1) : k \in 1..n \/ k = n + 1
  BY <1>0
<1> HIDE DEF b
<1>5. Table(b)
  <2>1. \A i \in DOMAIN b : b[i].movie = b[i].hash[1]
    BY <1>0, <1>1, <1>2, <1>3, <1>4 DEF Table
  <2>2. ASSUME NEW i \in DOMAIN b, NEW j \in DOMAIN b, b[i].hash = b[j].hash PROVE i = j
    BY <1>0, <1>1, <1>2, <1>3, <1>4, <2>2 DEF Table
  <2> QED
    BY <1>2, <2>1, <2>2 DEF Table
<1>6. Derives(b, t, l, n)
  <2>1. \A k \in DOMAIN b : b[k].done => k <= n
    BY <1>0, <1>1, <1>2, <1>3, <1>4
  <2>2. n <= Len(b)
    BY <1>0, <1>2
  <2> QED
    BY <1>3, <2>1, <2>2 DEF Derives
<1> QED
  BY <1>2, <1>3, <1>5, <1>6 DEF b, r

\* Changing rows where they stand.
LEMMA Rewrites ==
  ASSUME NEW t, Table(t), NEW b, b \in Seq(Row), Len(b) = Len(t),
         \A k \in DOMAIN t : /\ b[k].hash = t[k].hash /\ b[k].movie = t[k].movie
                             /\ b[k].added_at = t[k].added_at
  PROVE  Table(b) /\ DOMAIN b = DOMAIN t /\ Derives(b, t, [k \in 1..Len(t) |-> k], Len(t))
<1>0. t \in Seq(Row) /\ Len(t) \in Nat /\ DOMAIN t = 1..Len(t) /\ DOMAIN b = 1..Len(t)
  BY DEF Table
<1>1. Table(b)
  BY <1>0 DEF Table
<1> DEFINE l == [k \in 1..Len(t) |-> k]
<1>2. l \in [1..Len(t) -> DOMAIN t] /\ \A k \in 1..Len(t) : l[k] = k
  BY <1>0
<1> HIDE DEF l
<1>3. \A k \in DOMAIN b : k <= Len(t)
  BY <1>0
<1>4. Derives(b, t, l, Len(t))
  BY <1>0, <1>2, <1>3 DEF Derives
<1> QED
  BY <1>0, <1>1, <1>4 DEF l

-----------------------------------------------------------------------------
(* The newest torrent of a movie.                                          *)

RowsIn(t, m) == {i \in DOMAIN t : t[i].movie = m}
NewerIn(t, i, j) ==
    \/ t[j].added_at < t[i].added_at
    \/ t[j].added_at = t[i].added_at /\ i <= j
NewestAt(t, m) == CHOOSE i \in RowsIn(t, m) : \A j \in RowsIn(t, m) : NewerIn(t, i, j)

\* A movie with rows has a newest one.
LEMMA NewestIs ==
  ASSUME NEW t \in Seq(Row), NEW m, RowsIn(t, m) # {}
  PROVE  /\ NewestAt(t, m) \in RowsIn(t, m) /\ NewestAt(t, m) \in DOMAIN t
         /\ \A j \in RowsIn(t, m) : NewerIn(t, NewestAt(t, m), j)
<1> DEFINE S == RowsIn(t, m)
           k == [i \in S |-> t[i].added_at]
           Less(x, y) == k[x] < k[y] \/ (k[x] = k[y] /\ y < x)
           R == {p \in Nat \X Nat : Less(p[1], p[2])}
<1>1. S \in SUBSET Nat /\ S \in SUBSET (1..Len(t)) /\ S \subseteq DOMAIN t
  BY DEF RowsIn
<1>2. IsFiniteSet(S)
  <2>1. IsFiniteSet(1..Len(t))
    BY FS_Interval
  <2> HIDE DEF S
  <2> QED
    BY <1>1, <2>1, FS_Subset
<1>3. k \in [S -> Nat] /\ \A i \in S : k[i] = t[i].added_at
  BY <1>1, RowFields
<1> HIDE DEF S, k
<1>4. \A x, y \in S : <<x, y>> \in R <=> Less(x, y)
  BY <1>1
<1> HIDE DEF R
<1>13. \A x \in S : x \in Nat /\ k[x] \in Nat
  BY <1>1, <1>3
<1>5. \A x \in S : ~Less(x, x)
  BY <1>13
<1>6. ASSUME NEW x \in S, NEW y \in S, NEW z \in S, Less(x, y), Less(y, z) PROVE Less(x, z)
  BY <1>13, <1>6
<1>7. \A x, y \in S : x = y \/ Less(x, y) \/ Less(y, x)
  BY <1>13
<1>8. Orders(R, S)
  <2> HIDE DEF Less
  <2> QED
    BY <1>4, <1>5, <1>6, <1>7 DEF Orders
<1>9. PICK i \in S : \A j \in S \ {i} : <<j, i>> \in R
  BY <1>2, <1>8, LastOf DEF S
<1>10. \A j \in S : NewerIn(t, i, j)
  <2>1. ASSUME NEW j \in S, j # i PROVE NewerIn(t, i, j)
    <3>1. Less(j, i)
      BY <1>4, <1>9, <2>1
    <3> QED
      BY <1>1, <1>3, <3>1 DEF NewerIn
  <2>2. NewerIn(t, i, i)
    BY <1>1, <1>3 DEF NewerIn
  <2> QED
    BY <2>1, <2>2
<1>11. NewestAt(t, m) = CHOOSE x \in S : \A j \in S : NewerIn(t, x, j)
  BY DEF NewestAt, S
<1>12. NewestAt(t, m) \in S /\ \A j \in S : NewerIn(t, NewestAt(t, m), j)
  BY <1>10, <1>11
<1> QED
  BY <1>1, <1>12 DEF S

\* A movie whose rows are all left keeps its newest.
LEMMA NewestStays ==
  ASSUME NEW t, Table(t), NEW t2, Table(t2), NEW l, NEW n, Derives(t2, t, l, n),
         NEW m, \A i \in RowsIn(t, m) : \E k \in 1..n : l[k] = i,
         \A k \in RowsIn(t2, m) : k <= n,
         RowsIn(t2, m) # {}
  PROVE  /\ RowsIn(t, m) # {}
         /\ NewestAt(t2, m) \in 1..n /\ l[NewestAt(t2, m)] = NewestAt(t, m)
<1> DEFINE k == NewestAt(t2, m)
           i == NewestAt(t, m)
<1>0. /\ t \in Seq(Row) /\ t2 \in Seq(Row) /\ n \in Nat /\ n <= Len(t2)
      /\ l \in [1..n -> DOMAIN t]
      /\ \A x, y \in 1..n : x < y => l[x] < l[y]
      /\ \A x \in 1..n : t2[x].movie = t[l[x]].movie
      /\ \A x \in 1..n : t2[x].added_at = t[l[x]].added_at
      /\ DOMAIN t2 = 1..Len(t2) /\ Len(t2) \in Nat /\ DOMAIN t \subseteq Nat
  BY DEF Table, Derives
<1>1. k \in RowsIn(t2, m) /\ \A x \in RowsIn(t2, m) : NewerIn(t2, k, x)
  BY <1>0, NewestIs
<1>2. k \in 1..n /\ t2[k].movie = m
  BY <1>0, <1>1 DEF RowsIn
<1>3. l[k] \in RowsIn(t, m)
  BY <1>0, <1>2 DEF RowsIn
<1>4. i \in RowsIn(t, m) /\ \A x \in RowsIn(t, m) : NewerIn(t, i, x)
  BY <1>0, <1>3, NewestIs
<1>5. PICK x \in 1..n : l[x] = i
  BY <1>4
<1>6. x \in RowsIn(t2, m)
  BY <1>0, <1>4, <1>5 DEF RowsIn
<1> HIDE DEF k, i
<1>7. NewerIn(t2, k, x) /\ NewerIn(t, l[x], l[k])
  BY <1>1, <1>3, <1>4, <1>5, <1>6
<1>8. t2[k].added_at = t[l[k]].added_at /\ t2[x].added_at = t[l[x]].added_at
  BY <1>0, <1>2
<1>9. t[l[k]].added_at \in Nat /\ t[l[x]].added_at \in Nat
  BY <1>0, <1>2, RowFields
<1>10. k <= x /\ l[x] <= l[k]
  BY <1>7, <1>8, <1>9 DEF NewerIn
<1>11. k < x => l[k] < l[x]
  BY <1>0, <1>2
<1>12. x \in Int /\ k \in Int /\ l[k] \in Nat /\ l[x] \in Nat
  BY <1>0, <1>2
<1>13. x = k
  BY <1>10, <1>11, <1>12
<1> QED
  BY <1>2, <1>3, <1>5, <1>13 DEF k, i

-----------------------------------------------------------------------------
(* Pages.                                                                  *)

\* A page is full, or it is the last.
LEMMA PageIs ==
  ASSUME NEW T, NEW F \in Seq(T), NEW skip \in Nat
  PROVE  LET p == PageOf(F, skip)
         IN  /\ p \in Seq(T) /\ Len(p) \in Nat /\ Len(p) <= Page
             /\ \A k \in 1..Len(F) : skip < k /\ k <= skip + Page =>
                   k - skip \in 1..Len(p) /\ p[k - skip] = F[k]
             /\ Len(p) >= Page => skip + Page <= Len(F)
             /\ p = SubSeq(F, skip + 1, IF skip + Page < Len(F) THEN skip + Page ELSE Len(F))
<1> DEFINE n == Len(F)
           e == IF skip + Page < n THEN skip + Page ELSE n
           p == SubSeq(F, skip + 1, e)
<1>0. n \in Nat /\ Page \in Nat /\ Page # 0 /\ \A i \in 1..n : F[i] \in T
  BY SurfaceAssumption
<1>1. PageOf(F, skip) = p
  BY DEF PageOf, Min2
<1> HIDE DEF n
<1>2. e \in Nat /\ e <= n /\ e <= skip + Page /\ (e < n => e = skip + Page) /\ skip + 1 \in Int
  BY <1>0
<1> HIDE DEF e
<1>3. \A i \in (skip + 1)..e : F[i] \in T
  BY <1>0, <1>2
<1>4. /\ p \in Seq(T)
      /\ Len(p) = IF skip + 1 <= e THEN e - (skip + 1) + 1 ELSE 0
      /\ \A i \in 1..(e - (skip + 1) + 1) : p[i] = F[(skip + 1) + i - 1]
  BY <1>2, <1>3, SubSeqProperties
<1> HIDE DEF p
<1>5. Len(p) \in Nat /\ Len(p) <= Page /\ (Len(p) >= Page => skip + Page <= n)
  BY <1>0, <1>2, <1>4
<1>6. ASSUME NEW k \in 1..n, skip < k, k <= skip + Page
      PROVE  k - skip \in 1..Len(p) /\ p[k - skip] = F[k]
  <2>1. k <= e /\ k - skip \in 1..(e - (skip + 1) + 1) /\ (skip + 1) + (k - skip) - 1 = k
    BY <1>0, <1>2, <1>6
  <2>2. Len(p) = e - (skip + 1) + 1
    BY <1>0, <1>2, <1>4, <1>6, <2>1
  <2>3. p[k - skip] = F[(skip + 1) + (k - skip) - 1]
    BY <1>4, <2>1
  <2> QED
    BY <2>1, <2>2, <2>3
<1> QED
  BY <1>1, <1>4, <1>5, <1>6 DEF p, e, n

-----------------------------------------------------------------------------
(* The invariant.                                                          *)

\* Movies with their titles, and a table whose movies are among them.
MovieLists == UNION {[S -> Nat] : S \in SUBSET Movies}
NamedIn(T, t) == \A i \in DOMAIN t : t[i].movie \in DOMAIN T

PlayerType ==
    [at : {"idle", "movies", "torrents", "told"}, protocol : {"none", "stremio", "dlna"},
     query : SUBSET Nat, movies : MovieLists, skip : Nat, got : Seq(EntryType),
     want : SUBSET Movies, same : BOOLEAN, shrunk : BOOLEAN]
PatchType ==
    [at : {"idle", "lock"}, movie : Patched \cup {0}, field : Fields \cup {"none"},
     value : Limits, limits : [Fields -> Limits], alone : BOOLEAN]
Locked(p) == p.at = "lock" => p.movie \in Patched /\ p.field \in Fields

Kinds ==
    /\ movies \in MovieLists /\ NamedIn(movies, rows)
    /\ Table(rows) /\ loaded \subseteq Hashes /\ adding \subseteq Hashes
    /\ player \in PlayerType
    /\ patch \in [Clients -> PatchType]
    /\ \A c \in Clients : Locked(patch[c])
    /\ asked \in [Hashes -> [Fields -> Limits]]
    /\ clean \in [Hashes -> BOOLEAN]

\* While a player is connected nobody patches.
Apart ==
    /\ who = "player" => \A c \in Clients : patch[c].at = "idle"
    /\ who # "player" => player.at = "idle"

\* What a player asked for, as the tables T and t have it.
View(p, T, t) ==
    IF p.protocol = "stremio" THEN Found(EntriesIn(T, t, Movies), p.query)
    ELSE EntriesIn(T, t, Movies)

\* If nothing changed, a player has the first entries of that.
SameView(p, T, t) ==
    p.at # "idle" =>
        /\ p.protocol # "stremio" => p.skip = 0
        /\ p.same /\ p.at = "torrents" => p.movies = T
        /\ p.same /\ p.at = "told" => p.got = View(p, T, t)
        /\ p.same /\ p.at # "told" =>
              p.skip <= Len(View(p, T, t)) /\ p.got = SubSeq(View(p, T, t), 1, p.skip)

\* If nothing went or moved, the titles the player has read are those of the table.
Fresh(p, T) ==
    p.at # "idle" /\ ~p.shrunk =>
        \A m \in DOMAIN p.movies \cap DOMAIN T : p.movies[m] = T[m]

\* And then a movie it is to see is one it has seen, or has a torrent before which there
\* are at least as many others as the player has skipped.
Scope(p) == IF p.at = "torrents" THEN DOMAIN p.movies ELSE Movies
ToCome(p, T, t, m) ==
    \E i \in FoundSet(T, t, Scope(p), p.query) :
        t[i].movie = m /\ p.skip <= Cardinality(Ahead(T, t, Scope(p), p.query, i))
Seen(p) == {e.id : e \in ToSet(p.got)}
Reaches(p, T, t) ==
    p.protocol = "stremio" /\ p.at # "idle" /\ ~p.shrunk =>
        \A m \in p.want : m \in Seen(p) \/ (p.at # "told" /\ ToCome(p, T, t, m))

WalksIn(p, T, t) == SameView(p, T, t) /\ Fresh(p, T) /\ Reaches(p, T, t)
Walks == WalksIn(player, movies, rows)

\* A PATCH that nothing came in between of holds what the newest row has, and its own
\* field.
Agrees(p, t, a, cl) ==
    p.at = "lock" /\ p.alone /\ RowsIn(t, p.movie) # {} =>
        LET h == t[NewestAt(t, p.movie)].hash
        IN  cl[h] => \A f \in Fields : p.limits[f] = IF f = p.field THEN p.value ELSE a[h][f]
Unraced == \A c \in Clients : Agrees(patch[c], rows, asked, clean)

\* What a list of movies is.
LEMMA MovieListIs ==
  ASSUME NEW T \in MovieLists
  PROVE  /\ DOMAIN T \in SUBSET Movies /\ T \in [DOMAIN T -> Nat]
         /\ \A t : NamedIn(T, t) => Titled(T, t)
<1>1. PICK S \in SUBSET Movies : T \in [S -> Nat]
  BY DEF MovieLists
<1>2. DOMAIN T = S
  BY <1>1
<1> QED
  BY <1>1, <1>2 DEF NamedIn, Titled

\* No movies, one more and one fewer.
LEMMA MovieListsAre ==
  /\ NoMovies \in MovieLists /\ DOMAIN NoMovies = {}
  /\ \A S \in SUBSET Movies : \A T \in [S -> Nat] : T \in MovieLists
<1>1. \A S \in SUBSET Movies : \A T \in [S -> Nat] : T \in MovieLists
  BY DEF MovieLists
<1>2. NoMovies \in [{} -> Nat] /\ {} \in SUBSET Movies
  BY DEF NoMovies
<1>3. DOMAIN NoMovies = {}
  BY DEF NoMovies
<1> QED
  BY <1>1, <1>2, <1>3

-----------------------------------------------------------------------------
(* What the actions do to the table.                                       *)

\* The newest row of a movie is the one it was; a row has the limits it had.
KeepsNewest(t2, t, m) ==
    RowsIn(t2, m) # {} =>
        /\ RowsIn(t, m) # {}
        /\ t2[NewestAt(t2, m)].hash = t[NewestAt(t, m)].hash
KeepsLimits(t2, t, k) ==
    \E i \in DOMAIN t : t[i].hash = t2[k].hash /\ \A f \in Fields : t2[k][f] = t[i][f]
TableGrows == \E l, n : Derives(rows', rows, l, n)

\* Rows changed where they stand.
LEMMA NewestInPlace ==
  ASSUME NEW t \in Seq(Row), NEW b, DOMAIN b = DOMAIN t,
         \A i \in DOMAIN t : /\ b[i].hash = t[i].hash /\ b[i].movie = t[i].movie
                             /\ b[i].added_at = t[i].added_at,
         NEW m
  PROVE  KeepsNewest(b, t, m) /\ RowsIn(b, m) = RowsIn(t, m) /\ NewestAt(b, m) = NewestAt(t, m)
<1> DEFINE S == RowsIn(t, m)
           N(i) == \A j \in S : NewerIn(t, i, j)
           N2(i) == \A j \in S : NewerIn(b, i, j)
<1>1. RowsIn(b, m) = S
  BY DEF RowsIn
<1>2. S \subseteq DOMAIN t
  BY DEF RowsIn
<1>3. {i \in S : N2(i)} = {i \in S : N(i)}
  BY <1>2 DEF NewerIn
<1>4. NewestAt(b, m) = NewestAt(t, m)
  BY <1>1, <1>3 DEF NewestAt
<1>5. S # {} => NewestAt(t, m) \in DOMAIN t
  BY NewestIs
<1> QED
  BY <1>1, <1>4, <1>5 DEF KeepsNewest

\* add_movie: the other movies keep their newest rows, and the new row has no limits.
LEMMA AddTable ==
  ASSUME Kinds, NEW h \in Hashes, NEW now \in Times, Add(h, now)
  PROVE  /\ Table(rows') /\ TableGrows /\ NamedIn(movies', rows')
         /\ \A m : m # h[1] => KeepsNewest(rows', rows, m)
         /\ \A k \in DOMAIN rows' :
               \/ rows'[k].hash = h /\ \A f \in Fields : rows'[k][f] = NoLimit
               \/ rows'[k].hash # h /\ KeepsLimits(rows', rows, k)
<1> DEFINE S == {i \in DOMAIN rows : rows[i].hash # h}
           l == Listing(S, Increasing)
           n == Cardinality(S)
           a == Only(rows, S)
           b == Append(a, NewRow(h, now))
<1>0. /\ Table(rows) /\ rows' = b /\ movies' = movies /\ h[1] \in DOMAIN movies
      /\ NamedIn(movies, rows)
  BY DEF Kinds, Add
<1>1. S \in SUBSET (DOMAIN rows)
  OBVIOUS
<1>2. \A i \in S : i \in DOMAIN rows /\ rows[i].hash # h
  OBVIOUS
<1>3. \A i \in DOMAIN rows : rows[i].hash # h => i \in S
  OBVIOUS
<1> HIDE DEF S
<1>4. /\ Table(a) /\ Len(a) = n /\ Derives(a, rows, l, n)
      /\ \A k \in 1..n : l[k] \in S /\ a[k] = rows[l[k]]
      /\ \A i \in S : \E k \in 1..n : l[k] = i
  BY <1>0, <1>1, Removes
<1> HIDE DEF l, n, a
<1>5. n \in Nat /\ DOMAIN a = 1..n
  BY <1>4 DEF Derives, Table
<1>6. \A k \in DOMAIN a : a[k].hash # h
  BY <1>2, <1>4, <1>5
<1>7. /\ Table(b) /\ Derives(b, rows, l, n) /\ Len(b) = n + 1
      /\ \A k \in 1..n : b[k] = a[k]
      /\ b[n + 1] = NewRow(h, now)
  <2>1. Table(a) /\ Derives(a, rows, l, n) /\ n = Len(a)
    BY <1>4
  <2> QED
    BY <1>6, <2>1, Appends
<1> HIDE DEF b
<1>8. b \in Seq(Row) /\ DOMAIN b = 1..(n + 1)
  BY <1>7 DEF Table
<1>9. /\ b[n + 1].movie = h[1] /\ b[n + 1].hash = h
      /\ \A f \in Fields : b[n + 1][f] = NoLimit
  BY <1>7 DEF NewRow, Fields
<1>10. \A k \in DOMAIN b : k = n + 1 \/ (k \in 1..n /\ l[k] \in DOMAIN rows /\ b[k] = rows[l[k]]
                                          /\ b[k].hash # h)
  BY <1>2, <1>4, <1>5, <1>7, <1>8
<1>11. ASSUME NEW m, m # h[1] PROVE KeepsNewest(b, rows, m)
  <2>1. ASSUME NEW i \in RowsIn(rows, m) PROVE \E k \in 1..n : l[k] = i
    <3>1. i \in DOMAIN rows /\ rows[i].hash # h
      BY <1>0, <1>11 DEF RowsIn, Table
    <3> QED
      BY <1>3, <1>4, <3>1
  <2>2. \A k \in RowsIn(b, m) : k <= n
    BY <1>5, <1>8, <1>9, <1>11 DEF RowsIn
  <2>3. SUFFICES ASSUME RowsIn(b, m) # {}
                 PROVE  /\ RowsIn(rows, m) # {}
                        /\ b[NewestAt(b, m)].hash = rows[NewestAt(rows, m)].hash
    BY DEF KeepsNewest
  <2>4. RowsIn(rows, m) # {} /\ NewestAt(b, m) \in 1..n /\ l[NewestAt(b, m)] = NewestAt(rows, m)
    BY <1>0, <1>7, <2>1, <2>2, <2>3, NewestStays
  <2>5. b[NewestAt(b, m)] = rows[NewestAt(rows, m)]
    BY <1>4, <1>7, <2>4
  <2> QED
    BY <2>4, <2>5
<1>12. NamedIn(movies, b)
  BY <1>0, <1>9, <1>10 DEF NamedIn
<1>13. \A k \in DOMAIN b : \/ b[k].hash = h /\ \A f \in Fields : b[k][f] = NoLimit
                           \/ b[k].hash # h /\ KeepsLimits(b, rows, k)
  <2> TAKE k \in DOMAIN b
  <2>1. CASE k = n + 1
    <3>1. b[k].hash = h /\ \A f \in Fields : b[k][f] = NoLimit
      BY <1>9, <2>1
    <3> QED
      BY <3>1
  <2>2. CASE k # n + 1
    <3>1. l[k] \in DOMAIN rows /\ b[k] = rows[l[k]] /\ b[k].hash # h
      BY <1>10, <2>2
    <3>2. KeepsLimits(b, rows, k)
      BY <3>1 DEF KeepsLimits
    <3> QED
      BY <3>1, <3>2
  <2> QED
    BY <2>1, <2>2
<1> QED
  BY <1>0, <1>7, <1>11, <1>12, <1>13 DEF TableGrows

\* watch_completion: the rows stay where they are.
LEMMA CompleteTable ==
  ASSUME Kinds, NEW h \in Hashes, Complete(h)
  PROVE  /\ Table(rows') /\ TableGrows /\ NamedIn(movies', rows')
         /\ \A m : KeepsNewest(rows', rows, m)
         /\ \A k \in DOMAIN rows' : KeepsLimits(rows', rows, k)
<1> DEFINE b == rows'
<1>0. /\ Table(rows) /\ rows \in Seq(Row) /\ movies' = movies /\ NamedIn(movies, rows)
      /\ b = [i \in DOMAIN rows |-> IF rows[i].hash = h THEN [rows[i] EXCEPT !.done = TRUE]
                                     ELSE rows[i]]
  BY DEF Kinds, Table, Complete
<1>1. ASSUME NEW i \in DOMAIN rows
      PROVE  /\ b[i] \in Row /\ b[i].hash = rows[i].hash /\ b[i].movie = rows[i].movie
             /\ b[i].added_at = rows[i].added_at
             /\ b[i].download_limit = rows[i].download_limit
             /\ b[i].upload_limit = rows[i].upload_limit
  <2>1. rows[i] \in Row
    BY <1>0
  <2> QED
    BY <1>0, <2>1 DEF Row
<1>2. b \in Seq(Row) /\ Len(b) = Len(rows) /\ DOMAIN b = DOMAIN rows
  <2>1. Len(rows) \in Nat /\ DOMAIN rows = 1..Len(rows)
    BY <1>0
  <2>2. DOMAIN b = 1..Len(rows)
    BY <1>0, <2>1
  <2>3. b = [i \in 1..Len(rows) |-> b[i]]
    BY <1>0, <2>1
  <2> HIDE DEF b
  <2>4. b \in Seq(Row)
    BY <1>1, <2>1, <2>2, <2>3
  <2> QED
    BY <2>1, <2>2, <2>4
<1> HIDE DEF b
<1>3. Table(b) /\ Derives(b, rows, [k \in 1..Len(rows) |-> k], Len(rows))
  BY <1>0, <1>1, <1>2, Rewrites
<1>4. ASSUME NEW m PROVE KeepsNewest(b, rows, m)
  BY <1>0, <1>1, <1>2, NewestInPlace
<1>5. \A k \in DOMAIN b : KeepsLimits(b, rows, k)
  BY <1>1, <1>2 DEF KeepsLimits, Fields
<1>6. NamedIn(movies, b)
  BY <1>0, <1>1, <1>2 DEF NamedIn
<1> QED
  BY <1>0, <1>3, <1>4, <1>5, <1>6 DEF TableGrows, b

\* forget: a movie goes with all its rows, the others stay.
LEMMA ForgetTable ==
  ASSUME Kinds, NEW m0, NEW hs, Forget(m0, hs)
  PROVE  /\ Table(rows') /\ TableGrows /\ movies' \in MovieLists /\ NamedIn(movies', rows')
         /\ \A m : KeepsNewest(rows', rows, m)
         /\ \A k \in DOMAIN rows' : KeepsLimits(rows', rows, k)
<1> DEFINE S == {i \in DOMAIN rows : rows[i].movie # m0}
           l == Listing(S, Increasing)
           n == Cardinality(S)
           a == Only(rows, S)
<1>0. /\ Table(rows) /\ rows' = a /\ movies \in MovieLists /\ NamedIn(movies, rows)
      /\ movies' = [x \in DOMAIN movies \ {m0} |-> movies[x]]
  BY DEF Kinds, Forget
<1>1. S \in SUBSET (DOMAIN rows)
  OBVIOUS
<1>2. \A i \in S : i \in DOMAIN rows /\ rows[i].movie # m0
  OBVIOUS
<1>3. \A i \in DOMAIN rows : rows[i].movie # m0 => i \in S
  OBVIOUS
<1> HIDE DEF S
<1>4. /\ Table(a) /\ Len(a) = n /\ Derives(a, rows, l, n)
      /\ \A k \in 1..n : l[k] \in S /\ a[k] = rows[l[k]]
      /\ \A i \in S : \E k \in 1..n : l[k] = i
  BY <1>0, <1>1, Removes
<1> HIDE DEF l, n, a
<1>5. n \in Nat /\ DOMAIN a = 1..n
  BY <1>4 DEF Derives, Table
<1>6. ASSUME NEW m PROVE KeepsNewest(a, rows, m)
  <2>1. SUFFICES ASSUME RowsIn(a, m) # {}
                 PROVE  /\ RowsIn(rows, m) # {}
                        /\ a[NewestAt(a, m)].hash = rows[NewestAt(rows, m)].hash
    BY DEF KeepsNewest
  <2>2. m # m0
    BY <1>2, <1>4, <1>5, <2>1 DEF RowsIn
  <2>3. ASSUME NEW i \in RowsIn(rows, m) PROVE \E k \in 1..n : l[k] = i
    BY <1>3, <1>4, <2>2 DEF RowsIn
  <2>4. \A k \in RowsIn(a, m) : k <= n
    BY <1>5 DEF RowsIn
  <2>5. RowsIn(rows, m) # {} /\ NewestAt(a, m) \in 1..n /\ l[NewestAt(a, m)] = NewestAt(rows, m)
    BY <1>0, <1>4, <2>1, <2>3, <2>4, NewestStays
  <2>6. a[NewestAt(a, m)] = rows[NewestAt(rows, m)]
    BY <1>4, <2>5
  <2> QED
    BY <2>5, <2>6
<1>7. \A k \in 1..n : l[k] \in DOMAIN rows /\ a[k] = rows[l[k]] /\ a[k].movie # m0
  BY <1>2, <1>4
<1>8. \A k \in DOMAIN a : KeepsLimits(a, rows, k)
  BY <1>5, <1>7 DEF KeepsLimits
<1>9. NamedIn(movies', a)
  BY <1>0, <1>5, <1>7 DEF NamedIn
<1>10. movies' \in MovieLists
  <2>1. DOMAIN movies \in SUBSET Movies /\ movies \in [DOMAIN movies -> Nat]
    BY <1>0, MovieListIs
  <2>2. DOMAIN movies \ {m0} \in SUBSET Movies /\ movies' \in [DOMAIN movies \ {m0} -> Nat]
    BY <1>0, <2>1
  <2> QED
    BY <2>2, MovieListsAre
<1> QED
  BY <1>0, <1>4, <1>6, <1>8, <1>9, <1>10 DEF TableGrows

\* The newest row is what torrent_for_movie finds.
LEMMA NewestBridge ==
  \A m : RowsOf(m) = RowsIn(rows, m) /\ torrent_for_movie(m) = rows[NewestAt(rows, m)]
<1> TAKE m
<1>1. RowsOf(m) = RowsIn(rows, m)
  BY DEF RowsOf, RowsIn
<1> QED
  BY <1>1 DEF torrent_for_movie, NewestAt, Newer, NewerIn

\* set_movie_limits: the newest row of the movie takes the limits, the others stay.
LEMMA LimitsTable ==
  ASSUME Kinds, NEW c \in Clients, set_movie_limits(c)
  PROVE  LET m == patch[c].movie
             h == rows[NewestAt(rows, m)].hash
         IN  /\ Table(rows') /\ NamedIn(movies', rows')
             /\ RowsIn(rows, m) # {} /\ torrent_for_movie(m).hash = h
             /\ h \in Hashes /\ h[1] = m
             /\ \A x : KeepsNewest(rows', rows, x)
             /\ \A k \in DOMAIN rows' :
                   \/ rows'[k].hash = h /\ \A f \in Fields : rows'[k][f] = patch[c].limits[f]
                   \/ rows'[k].hash # h /\ KeepsLimits(rows', rows, k)
<1> DEFINE b == rows'
           p == patch[c]
           m0 == p.movie
           h == torrent_for_movie(m0).hash
           i0 == NewestAt(rows, m0)
<1>0. /\ Table(rows) /\ rows \in Seq(Row) /\ p \in PatchType /\ RowsIn(rows, m0) # {}
      /\ movies' = movies /\ NamedIn(movies, rows)
      /\ b = [i \in DOMAIN rows |->
                IF rows[i].hash = h
                THEN [rows[i] EXCEPT !.download_limit = p.limits["download_limit"],
                                     !.upload_limit = p.limits["upload_limit"]]
                ELSE rows[i]]
  BY DEF Kinds, Table, set_movie_limits, RowsOf, RowsIn
<1>1. rows \in Seq(Row)
  BY DEF Kinds, Table
<1>2. p.limits["download_limit"] \in Limits /\ p.limits["upload_limit"] \in Limits
  BY <1>0 DEF PatchType, Fields
<1>3. torrent_for_movie(m0) = rows[i0]
  BY NewestBridge
<1>4. i0 \in RowsIn(rows, m0) /\ i0 \in DOMAIN rows
  BY <1>0, NewestIs
<1>5. h = rows[i0].hash /\ h \in Hashes /\ h[1] = m0
  <2>1. h = rows[i0].hash
    BY <1>3
  <2>2. rows[i0].hash \in Hashes
    BY <1>0, <1>4, RowFields
  <2>3. rows[i0].movie = m0 /\ rows[i0].movie = rows[i0].hash[1]
    BY <1>0, <1>4 DEF RowsIn, Table
  <2> QED
    BY <2>1, <2>2, <2>3
<1> HIDE DEF p, i0, h
<1>6. ASSUME NEW i \in DOMAIN rows
      PROVE  /\ b[i] \in Row /\ b[i].hash = rows[i].hash /\ b[i].movie = rows[i].movie
             /\ b[i].added_at = rows[i].added_at
             /\ rows[i].hash # h => b[i] = rows[i]
             /\ rows[i].hash = h => /\ b[i].download_limit = p.limits["download_limit"]
                                    /\ b[i].upload_limit = p.limits["upload_limit"]
  <2>1. rows[i] \in Row
    BY <1>1, RowFields
  <2>2. CASE rows[i].hash # h
    BY <1>0, <2>1, <2>2
  <2>3. CASE rows[i].hash = h
    <3>1. b[i] = [rows[i] EXCEPT !.download_limit = p.limits["download_limit"],
                                 !.upload_limit = p.limits["upload_limit"]]
      BY <1>0, <2>3
    <3> QED
      BY <1>2, <2>1, <2>3, <3>1 DEF Row
  <2> QED
    BY <2>2, <2>3
<1>7. b \in Seq(Row) /\ Len(b) = Len(rows) /\ DOMAIN b = DOMAIN rows
  <2>1. Len(rows) \in Nat /\ DOMAIN rows = 1..Len(rows)
    BY <1>1
  <2>2. DOMAIN b = 1..Len(rows)
    BY <1>0, <2>1
  <2>3. b = [i \in 1..Len(rows) |-> b[i]]
    BY <1>0, <2>1
  <2> HIDE DEF b
  <2>4. b \in Seq(Row)
    BY <1>6, <2>1, <2>2, <2>3
  <2> QED
    BY <2>1, <2>2, <2>4
<1> HIDE DEF b
<1>8. Table(b)
  BY <1>0, <1>6, <1>7, Rewrites
<1>9. ASSUME NEW x PROVE KeepsNewest(b, rows, x)
  BY <1>1, <1>6, <1>7, NewestInPlace
<1>10. \A k \in DOMAIN b : \/ b[k].hash = h /\ \A f \in Fields : b[k][f] = p.limits[f]
                           \/ b[k].hash # h /\ KeepsLimits(b, rows, k)
  <2> TAKE k \in DOMAIN b
  <2>1. k \in DOMAIN rows /\ b[k].hash = rows[k].hash
    BY <1>6, <1>7
  <2>2. CASE rows[k].hash = h
    <3>1. /\ b[k].download_limit = p.limits["download_limit"]
          /\ b[k].upload_limit = p.limits["upload_limit"]
      BY <1>6, <2>1, <2>2
    <3>2. b[k].hash = h /\ \A f \in Fields : b[k][f] = p.limits[f]
      BY <2>1, <2>2, <3>1 DEF Fields
    <3> QED
      BY <3>2
  <2>3. CASE rows[k].hash # h
    <3>1. b[k] = rows[k]
      BY <1>6, <2>1, <2>3
    <3>2. b[k].hash # h /\ KeepsLimits(b, rows, k)
      BY <2>1, <2>3, <3>1 DEF KeepsLimits
    <3> QED
      BY <3>2
  <2> QED
    BY <2>2, <2>3
<1>11. NamedIn(movies, b)
  BY <1>0, <1>6, <1>7 DEF NamedIn
<1>12. h = rows[NewestAt(rows, patch[c].movie)].hash /\ h = torrent_for_movie(patch[c].movie).hash
  BY <1>5 DEF i0, p, h
<1> HIDE DEF m0
<1>13. RowsIn(rows, patch[c].movie) # {} /\ h[1] = patch[c].movie
  BY <1>0, <1>5 DEF m0, p
<1>14. \A k \in DOMAIN rows' :
          \/ rows'[k].hash = h /\ \A f \in Fields : rows'[k][f] = patch[c].limits[f]
          \/ rows'[k].hash # h /\ KeepsLimits(rows', rows, k)
  BY <1>10 DEF b, p
<1>15. Table(rows') /\ NamedIn(movies', rows') /\ \A x : KeepsNewest(rows', rows, x)
  BY <1>0, <1>8, <1>9, <1>11 DEF b
<1> QED
  BY <1>5, <1>12, <1>13, <1>14, <1>15

-----------------------------------------------------------------------------
(* What a player has been told.                                            *)

\* The queries of the model are those of the tables.
LEMMA EntriesBridge == \A ms : entries(ms) = EntriesIn(ms, rows, DOMAIN ms)
<1> TAKE ms
<1>1. {p \in Nat \X Nat : ByTitle(ms, p[1], p[2])} = TitleOrder(ms, rows)
  BY DEF ByTitle, TitleOrder
<1>2. Unsorted(ms) = DoneIn(rows, DOMAIN ms)
  BY DEF Unsorted, DoneIn
<1> QED
  BY <1>1, <1>2 DEF entries, EntriesIn

\* Every movie with a torrent is in the list of movies.
LEMMA AllMovies ==
  ASSUME NEW t \in Seq(Row), NEW T, NamedIn(T, t)
  PROVE  /\ DoneIn(t, DOMAIN T) = DoneIn(t, Movies)
         /\ EntriesIn(T, t, DOMAIN T) = EntriesIn(T, t, Movies)
         /\ \A query : FoundSet(T, t, DOMAIN T, query) = FoundSet(T, t, Movies, query)
         /\ \A query, i : Ahead(T, t, DOMAIN T, query, i) = Ahead(T, t, Movies, query, i)
<1>1. \A i \in DOMAIN t : t[i].movie \in Movies /\ t[i].movie \in DOMAIN T
  BY RowFields DEF NamedIn
<1>2. DoneIn(t, DOMAIN T) = DoneIn(t, Movies)
  BY <1>1 DEF DoneIn
<1>3. EntriesIn(T, t, DOMAIN T) = EntriesIn(T, t, Movies)
  BY <1>2 DEF EntriesIn
<1>4. \A query : FoundSet(T, t, DOMAIN T, query) = FoundSet(T, t, Movies, query)
  BY <1>2 DEF FoundSet
<1> QED
  BY <1>2, <1>3, <1>4 DEF Ahead

\* A list of movies, which may be out of date, gives entries, and so does a search.
LEMMA EntriesTyped ==
  ASSUME NEW t \in Seq(Row), NEW ms \in MovieLists, NEW query
  PROVE  /\ EntriesIn(ms, t, DOMAIN ms) \in Seq(EntryType)
         /\ Found(EntriesIn(ms, t, DOMAIN ms), query) \in Seq(EntryType)
<1> DEFINE T == [m \in Movies |-> IF m \in DOMAIN ms THEN ms[m] ELSE 0]
<1>1. DOMAIN ms \in SUBSET Movies /\ \A m \in DOMAIN ms : ms[m] \in Nat
  BY MovieListIs
<1>2. \A m \in Movies : T[m] \in Nat /\ (m \in DOMAIN ms => T[m] = ms[m])
  BY <1>1
<1> HIDE DEF T
<1>3. Titled(T, t)
  BY <1>2, RowFields DEF Titled
<1>4. \A i \in DoneIn(t, DOMAIN ms) : T[t[i].movie] = ms[t[i].movie]
  BY <1>1, <1>2 DEF DoneIn
<1>5. EntriesIn(T, t, DOMAIN ms) = EntriesIn(ms, t, DOMAIN ms)
  BY <1>3, <1>4, EntriesAgree
<1>6. EntriesIn(T, t, DOMAIN ms) \in Seq(EntryType)
  BY <1>3, EntriesAre
<1>7. Found(EntriesIn(T, t, DOMAIN ms), query) \in Seq(EntryType)
  BY <1>3, FoundAre
<1> QED
  BY <1>5, <1>6, <1>7

\* Listed is what the tables list.
LEMMA ListedBridge ==
  ASSUME rows \in Seq(Row), NamedIn(movies, rows)
  PROVE  /\ entries(list_movies) = EntriesIn(movies, rows, Movies)
         /\ Listed = ListedIn(movies, rows)
<1>1. entries(list_movies) = EntriesIn(movies, rows, Movies)
  BY EntriesBridge, AllMovies DEF list_movies
<1>2. Unsorted(list_movies) = DoneIn(rows, DOMAIN movies)
  BY DEF Unsorted, DoneIn, list_movies
<1>3. Unsorted(list_movies) = DoneIn(rows, Movies)
  BY <1>2, AllMovies
<1> QED
  BY <1>1, <1>3 DEF Listed, ListedIn, list_movies

\* The same after a step.
LEMMA ListedBridgePrimed ==
  ASSUME rows' \in Seq(Row), NamedIn(movies', rows')
  PROVE  Listed' = ListedIn(movies', rows')
<1>1. Unsorted(list_movies)' = DoneIn(rows', DOMAIN movies')
  BY DEF Unsorted, DoneIn, list_movies
<1>2. Unsorted(list_movies)' = DoneIn(rows', Movies)
  BY <1>1, AllMovies
<1>3. Listed' = {MediaEntry(movies', rows'[i]) : i \in Unsorted(list_movies)'}
  BY DEF Listed, list_movies, MediaEntry
<1> QED
  BY <1>2, <1>3 DEF ListedIn

\* Finitely many torrents are ahead of one.
LEMMA AheadFinite ==
  ASSUME NEW t \in Seq(Row), NEW T, NEW ms, NEW query, NEW i
  PROVE  /\ IsFiniteSet(Ahead(T, t, ms, query, i))
         /\ Cardinality(Ahead(T, t, ms, query, i)) \in Nat
<1> DEFINE A == Ahead(T, t, ms, query, i)
<1>1. IsFiniteSet(1..Len(t))
  BY FS_Interval
<1>2. A \in SUBSET (1..Len(t))
  BY DEF Ahead, FoundSet, DoneIn
<1> HIDE DEF A
<1>3. IsFiniteSet(A) /\ Cardinality(A) \in Nat
  BY <1>1, <1>2, FS_Subset, FS_CardinalityType
<1> QED
  BY <1>3 DEF A

\* The library changes: what a player was to see still comes, unless a listed entry
\* went or moved.
LEMMA LibraryWalk ==
  ASSUME Kinds, Walks, Table(rows'), movies' \in MovieLists, NamedIn(movies', rows'),
         TableGrows, LibraryChanges
  PROVE  player' \in PlayerType /\ player'.at = player.at /\ Walks'
<1>0. /\ player \in PlayerType /\ Table(rows) /\ rows \in Seq(Row) /\ rows' \in Seq(Row)
      /\ NamedIn(movies, rows)
  BY DEF Kinds, Table
<1>1. CASE player.at = "idle"
  <2>1. player' = player
    BY <1>1 DEF LibraryChanges
  <2> QED
    BY <1>0, <1>1, <2>1 DEF Walks, WalksIn, SameView, Fresh, Reaches
<1>2. CASE player.at # "idle"
  <2> DEFINE kept == Listed \subseteq Listed'
             b == player.shrunk \/ ~kept \/ Retitled
  <2>1. kept <=> ListedIn(movies, rows) \subseteq ListedIn(movies', rows')
    BY <1>0, ListedBridge, ListedBridgePrimed
  <2>2. player' = [player EXCEPT !.same = FALSE, !.shrunk = b]
    BY <1>2 DEF LibraryChanges
  <2>3. b \in BOOLEAN
    OBVIOUS
  <2>4. ~b => kept /\ ~Retitled /\ ~player.shrunk
    OBVIOUS
  <2> HIDE DEF kept, b
  <2>5. /\ player' \in PlayerType /\ player'.at = player.at
        /\ player'.protocol = player.protocol /\ player'.query = player.query
        /\ player'.movies = player.movies /\ player'.skip = player.skip
        /\ player'.got = player.got /\ player'.want = player.want
        /\ player'.same = FALSE /\ player'.shrunk = b
    BY <1>0, <2>2, <2>3 DEF PlayerType
  <2>6. SameView(player', movies', rows')
    BY <2>5, <1>2 DEF SameView, Walks, WalksIn
  <2>7. Fresh(player', movies')
    BY <2>4, <2>5 DEF Fresh, Retitled
  <2>8. Seen(player') = Seen(player) /\ Scope(player') = Scope(player)
    BY <2>5 DEF Seen, Scope
  <2>9. ASSUME player'.protocol = "stremio", ~player'.shrunk, NEW m \in player'.want
        PROVE  m \in Seen(player') \/ (player'.at # "told" /\ ToCome(player', movies', rows', m))
    <3>1. m \in Seen(player) \/ (player.at # "told" /\ ToCome(player, movies, rows, m))
      BY <1>2, <2>4, <2>5, <2>9 DEF Walks, WalksIn, Reaches
    <3>2. SUFFICES ASSUME player.at # "told", ToCome(player, movies, rows, m)
                   PROVE  ToCome(player', movies', rows', m)
      BY <2>5, <2>8, <3>1
    <3> DEFINE ms == Scope(player)
               q == player.query
    <3>3. PICK i \in FoundSet(movies, rows, ms, q) :
             /\ rows[i].movie = m
             /\ player.skip <= Cardinality(Ahead(movies, rows, ms, q, i))
      BY <3>2 DEF ToCome
    <3>4. ms \in SUBSET Movies
      <4>1. player.movies \in MovieLists
        BY <1>0 DEF PlayerType
      <4>2. DOMAIN player.movies \in SUBSET Movies
        BY <4>1, MovieListIs
      <4> QED
        BY <4>2 DEF Scope
    <3>5. ListedIn(movies, rows) \subseteq ListedIn(movies', rows')
      BY <2>1, <2>4, <2>5, <2>9
    <3>6. PICK l, n : Derives(rows', rows, l, n)
      BY DEF TableGrows
    <3> HIDE DEF ms, q
    <3>7. PICK j \in FoundSet(movies', rows', ms, q) :
             /\ rows'[j].movie = rows[i].movie
             /\ Cardinality(Ahead(movies, rows, ms, q, i))
                   <= Cardinality(Ahead(movies', rows', ms, q, j))
      BY <1>0, <3>4, <3>5, <3>6, Grows
    <3>8. /\ Cardinality(Ahead(movies, rows, ms, q, i)) \in Nat
          /\ Cardinality(Ahead(movies', rows', ms, q, j)) \in Nat
          /\ player.skip \in Nat
      BY <1>0, AheadFinite DEF PlayerType
    <3>9. player.skip <= Cardinality(Ahead(movies', rows', ms, q, j))
      BY <3>3, <3>7, <3>8
    <3> QED
      BY <2>5, <2>8, <3>3, <3>7, <3>9 DEF ToCome, ms, q
  <2>10. Reaches(player', movies', rows')
    BY <2>9 DEF Reaches
  <2> QED
    BY <2>5, <2>6, <2>7, <2>10 DEF Walks, WalksIn
<1> QED
  BY <1>1, <1>2

\* A player begins: everything is to come.
LEMMA BrowseWalk ==
  ASSUME Kinds, NEW protocol \in {"stremio", "dlna"}, NEW query \in SUBSET Nat,
         Browse(protocol, query)
  PROVE  player' \in PlayerType /\ Walks'
<1> DEFINE want == {e.id : e \in {f \in Listed : f.title \in query}}
<1>0. /\ rows \in Seq(Row) /\ rows' = rows /\ movies' = movies
      /\ movies \in MovieLists /\ NamedIn(movies, rows)
  BY DEF Kinds, Table, Browse, table
<1>1. Listed = ListedIn(movies, rows) /\ Titled(movies, rows)
  BY <1>0, ListedBridge, MovieListIs
<1>2. ASSUME NEW m \in want
      PROVE  m \in Movies /\ \E i \in FoundSet(movies, rows, Movies, query) : rows[i].movie = m
  <2>1. PICK e \in ListedIn(movies, rows) : e.id = m /\ e.title \in query
    BY <1>1
  <2>2. PICK i \in DoneIn(rows, Movies) : e = MediaEntry(movies, rows[i])
    BY DEF ListedIn
  <2>3. rows[i].movie = m /\ movies[m] \in query
    BY <2>1, <2>2 DEF MediaEntry
  <2>4. i \in FoundSet(movies, rows, Movies, query)
    BY <2>3 DEF FoundSet
  <2> QED
    BY <2>3, <2>4 DEF FoundSet, DoneIn
<1>3. want \in SUBSET Movies
  BY <1>2
<1>4. player' = [NoPlayer EXCEPT !.at = "movies", !.protocol = protocol, !.query = query,
                                 !.want = want]
  BY DEF Browse
<1> HIDE DEF want
<1>5. /\ player'.at = "movies" /\ player'.protocol = protocol /\ player'.query = query
      /\ player'.movies = NoMovies /\ player'.skip = 0 /\ player'.got = <<>>
      /\ player'.want = want /\ player'.same = TRUE /\ player'.shrunk = FALSE
  BY <1>4 DEF NoPlayer
<1>6. player' \in PlayerType
  <2> DEFINE e == <<>>
  <2>1. e \in Seq(EntryType)
    <3> HIDE DEF EntryType
    <3> QED
      OBVIOUS
  <2> HIDE DEF e
  <2>2. player' = [at |-> "movies", protocol |-> protocol, query |-> query,
                   movies |-> NoMovies, skip |-> 0, got |-> e, want |-> want,
                   same |-> TRUE, shrunk |-> FALSE]
    BY <1>4 DEF NoPlayer, e
  <2>3. NoMovies \in MovieLists
    BY MovieListsAre
  <2> QED
    BY <1>3, <2>1, <2>2, <2>3 DEF PlayerType
<1>7. View(player', movies', rows') \in Seq(EntryType)
  <2>1. EntriesIn(movies, rows, Movies) \in Seq(EntryType)
    BY <1>0, <1>1, EntriesAre
  <2>2. Found(EntriesIn(movies, rows, Movies), query) \in Seq(EntryType)
    BY <1>0, <1>1, FoundAre
  <2> QED
    BY <1>0, <1>5, <2>1, <2>2 DEF View
<1>8. SameView(player', movies', rows')
  <2>1. SubSeq(View(player', movies', rows'), 1, 0) = <<>>
    BY SubSeqEmpty
  <2>2. 0 <= Len(View(player', movies', rows'))
    BY <1>7
  <2> QED
    BY <1>5, <2>1, <2>2 DEF SameView
<1>9. Fresh(player', movies')
  BY <1>5, MovieListsAre DEF Fresh
<1>10. Reaches(player', movies', rows')
  <2>1. Scope(player') = Movies
    BY <1>5 DEF Scope
  <2>2. ASSUME NEW m \in want PROVE ToCome(player', movies', rows', m)
    <3>1. PICK i \in FoundSet(movies, rows, Movies, query) : rows[i].movie = m
      BY <1>2
    <3>2. 0 <= Cardinality(Ahead(movies, rows, Movies, query, i))
      BY <1>0, AheadFinite
    <3> QED
      BY <1>0, <1>5, <2>1, <3>1, <3>2 DEF ToCome
  <2> QED
    BY <1>5, <2>2 DEF Reaches
<1> QED
  BY <1>6, <1>8, <1>9, <1>10 DEF Walks, WalksIn

\* The movies are read.
LEMMA MoviesWalk ==
  ASSUME Kinds, Walks, ReadMovies
  PROVE  player' \in PlayerType /\ Walks'
<1>0. /\ player \in PlayerType /\ rows \in Seq(Row) /\ rows' = rows /\ movies' = movies
      /\ movies \in MovieLists /\ NamedIn(movies, rows) /\ player.at = "movies"
  BY DEF Kinds, Table, ReadMovies, table
<1>1. player' = [player EXCEPT !.at = "torrents", !.movies = movies]
  BY DEF ReadMovies, list_movies
<1>2. /\ player' \in PlayerType /\ player'.at = "torrents" /\ player'.movies = movies
      /\ player'.protocol = player.protocol /\ player'.query = player.query
      /\ player'.skip = player.skip /\ player'.got = player.got /\ player'.want = player.want
      /\ player'.same = player.same /\ player'.shrunk = player.shrunk
  BY <1>0, <1>1 DEF PlayerType
<1>3. View(player', movies', rows') = View(player, movies, rows)
  BY <1>0, <1>2 DEF View
<1>4. SameView(player', movies', rows') /\ Fresh(player', movies')
  BY <1>0, <1>2, <1>3 DEF Walks, WalksIn, SameView, Fresh
<1>5. Scope(player') = DOMAIN movies /\ Scope(player) = Movies /\ Seen(player') = Seen(player)
  BY <1>0, <1>2 DEF Scope, Seen
<1>6. ASSUME NEW m, ToCome(player, movies, rows, m) PROVE ToCome(player', movies', rows', m)
  <2>1. PICK i \in FoundSet(movies, rows, Movies, player.query) :
           /\ rows[i].movie = m
           /\ player.skip <= Cardinality(Ahead(movies, rows, Movies, player.query, i))
    BY <1>5, <1>6 DEF ToCome
  <2>2. /\ FoundSet(movies, rows, DOMAIN movies, player.query)
              = FoundSet(movies, rows, Movies, player.query)
        /\ Ahead(movies, rows, DOMAIN movies, player.query, i)
              = Ahead(movies, rows, Movies, player.query, i)
    BY <1>0, AllMovies
  <2> QED
    BY <1>0, <1>2, <1>5, <2>1, <2>2 DEF ToCome
<1>7. Reaches(player', movies', rows')
  BY <1>0, <1>2, <1>5, <1>6 DEF Walks, WalksIn, Reaches
<1> QED
  BY <1>2, <1>4, <1>7 DEF Walks, WalksIn

\* The store fails under a read: nothing is said of what the player was to see.
LEMMA FailedWalk ==
  ASSUME Kinds, Walks, StoreFails
  PROVE  player' \in PlayerType /\ Walks'
<1> DEFINE at == IF player.at = "movies" THEN "torrents" ELSE "told"
<1>0. player \in PlayerType /\ player.at # "idle"
  BY DEF Kinds, StoreFails
<1>1. player' = [player EXCEPT !.at = at, !.movies = NoMovies, !.same = FALSE, !.shrunk = TRUE]
  BY DEF StoreFails
<1>2. at \in {"torrents", "told"} /\ NoMovies \in MovieLists
  BY MovieListsAre
<1> HIDE DEF at
<1>3. /\ player' \in PlayerType /\ player'.at = at /\ player'.protocol = player.protocol
      /\ player'.skip = player.skip /\ player'.same = FALSE /\ player'.shrunk = TRUE
  BY <1>0, <1>1, <1>2 DEF PlayerType
<1>4. SameView(player', movies', rows')
  BY <1>0, <1>3 DEF Walks, WalksIn, SameView
<1>5. Fresh(player', movies') /\ Reaches(player', movies', rows')
  BY <1>3 DEF Fresh, Reaches
<1> QED
  BY <1>3, <1>4, <1>5 DEF Walks, WalksIn

\* What two sequences in a row hold.
LEMMA Joined ==
  ASSUME NEW T, NEW a \in Seq(T), NEW b \in Seq(T)
  PROVE  /\ a \o b \in Seq(T)
         /\ ToSet(a) \subseteq ToSet(a \o b) /\ ToSet(b) \subseteq ToSet(a \o b)
<1> DEFINE s == a \o b
<1>1. s \in Seq(T) /\ Len(s) = Len(a) + Len(b) /\ Len(a) \in Nat /\ Len(b) \in Nat
  OBVIOUS
<1>2. DOMAIN s = 1..Len(s) /\ DOMAIN a = 1..Len(a) /\ DOMAIN b = 1..Len(b)
  OBVIOUS
<1>3. \A i \in 1..Len(a) : i \in 1..Len(s) /\ s[i] = a[i]
  OBVIOUS
<1>4. \A i \in 1..Len(b) : Len(a) + i \in 1..Len(s) /\ s[Len(a) + i] = b[i]
  OBVIOUS
<1> HIDE DEF s
<1> QED
  BY <1>1, <1>2, <1>3, <1>4 DEF ToSet, s

\* The torrents are read: the page adds to what the player has seen the next movies,
\* and what is still to come is behind it.
LEMMA PageWalk ==
  ASSUME Kinds, Walks, ReadTorrents, player.protocol = "stremio"
  PROVE  player' \in PlayerType /\ Walks'
<1> DEFINE ms == player.movies
           q == player.query
           skip == player.skip
           F == Found(EntriesIn(ms, rows, DOMAIN ms), q)
           piece == PageOf(F, skip)
           more == Len(piece) >= Page
           next == IF more THEN skip + Page ELSE skip
           told == IF more THEN "movies" ELSE "told"
<1>0. /\ player \in PlayerType /\ rows \in Seq(Row) /\ rows' = rows /\ movies' = movies
      /\ movies \in MovieLists /\ NamedIn(movies, rows) /\ player.at = "torrents"
  BY DEF Kinds, Table, ReadTorrents, table
<1>1. /\ skip \in Nat /\ player.got \in Seq(EntryType) /\ Page \in Nat /\ Page # 0
      /\ ms \in MovieLists /\ Titled(movies, rows)
  BY <1>0, SurfaceAssumption, MovieListIs DEF PlayerType
<1>2. player' = [player EXCEPT !.at = told, !.movies = NoMovies, !.skip = next,
                               !.got = player.got \o piece]
  BY EntriesBridge DEF ReadTorrents, catalog
<1>3. F \in Seq(EntryType) /\ Len(F) \in Nat
  <2>1. F \in Seq(EntryType)
    BY <1>0, <1>1, EntriesTyped
  <2> HIDE DEF F, EntryType
  <2> QED
    BY <2>1
<1> HIDE DEF F, EntryType
<1>4. /\ piece \in Seq(EntryType) /\ Len(piece) \in Nat /\ Len(piece) <= Page
      /\ \A k \in 1..Len(F) : skip < k /\ k <= skip + Page =>
            k - skip \in 1..Len(piece) /\ piece[k - skip] = F[k]
      /\ Len(piece) >= Page => skip + Page <= Len(F)
      /\ piece = SubSeq(F, skip + 1, IF skip + Page < Len(F) THEN skip + Page ELSE Len(F))
  BY <1>1, <1>3, PageIs
<1> HIDE DEF piece
<1> DEFINE got == player.got \o piece
<1>5. got \in Seq(EntryType) /\ ToSet(player.got) \subseteq ToSet(got) /\ ToSet(piece) \subseteq ToSet(got)
  BY <1>1, <1>4, Joined
<1> HIDE DEF got
<1>6. next \in Nat /\ told \in {"movies", "told"}
  BY <1>1
<1>7. /\ player' \in PlayerType /\ player'.at = told /\ player'.movies = NoMovies
      /\ player'.protocol = "stremio" /\ player'.query = q
      /\ player'.skip = next /\ player'.got = got /\ player'.want = player.want
      /\ player'.same = player.same /\ player'.shrunk = player.shrunk
  <2> HIDE DEF next, told
  <2> QED
    BY <1>0, <1>2, <1>5, <1>6, MovieListsAre DEF PlayerType, got
<1>8. SameView(player', movies', rows')
  <2>1. SUFFICES ASSUME player.same
                 PROVE  /\ told = "told" => got = View(player', movies', rows')
                        /\ told # "told" => /\ next <= Len(View(player', movies', rows'))
                                            /\ got = SubSeq(View(player', movies', rows'), 1, next)
    BY <1>6, <1>7 DEF SameView
  <2>2. View(player', movies', rows') = F /\ View(player, movies, rows) = F
    <3>1. ms = movies
      BY <1>0, <2>1 DEF Walks, WalksIn, SameView
    <3>2. EntriesIn(ms, rows, DOMAIN ms) = EntriesIn(movies, rows, Movies)
      BY <1>0, <3>1, AllMovies
    <3> QED
      BY <1>0, <1>7, <3>2 DEF View, F
  <2>3. skip <= Len(F) /\ player.got = SubSeq(F, 1, skip)
    BY <1>0, <2>1, <2>2 DEF Walks, WalksIn, SameView
  <2> DEFINE e == IF skip + Page < Len(F) THEN skip + Page ELSE Len(F)
  <2>4. e \in skip..Len(F) /\ skip \in 0..Len(F) /\ 1 \in 1..(Len(F) + 1)
    BY <1>1, <1>3, <2>3
  <2>5. more => e = next
    BY <1>1, <1>3, <1>4
  <2>6. ~more => e = Len(F)
    <3>1. SUFFICES ASSUME skip + Page < Len(F) PROVE more
      OBVIOUS
    <3>2. skip + Page \in 1..Len(F) /\ skip < skip + Page /\ (skip + Page) - skip = Page
      BY <1>1, <1>3, <3>1
    <3>3. Page \in 1..Len(piece)
      BY <1>4, <3>2
    <3> QED
      BY <1>1, <1>4, <3>3
  <2>7. piece = SubSeq(F, skip + 1, e)
    BY <1>4
  <2> HIDE DEF e
  <2>8. SubSeq(F, 1, skip) \o SubSeq(F, skip + 1, e) = SubSeq(F, 1, e)
    <3>1. skip \in (1 - 1)..Len(F)
      BY <2>4
    <3> QED
      BY <1>3, <2>4, <3>1, ConcatAdjacentSubSeq
  <2>9. got = SubSeq(F, 1, e)
    BY <2>3, <2>7, <2>8 DEF got
  <2>10. SubSeq(F, 1, Len(F)) = F
    BY <1>3, SubSeqFull
  <2>11. e <= Len(F)
    BY <1>1, <1>3, <2>4
  <2> QED
    BY <2>2, <2>5, <2>6, <2>9, <2>10, <2>11
<1>9. Seen(player) \subseteq Seen(player') /\ {e.id : e \in ToSet(piece)} \subseteq Seen(player')
  BY <1>5, <1>7 DEF Seen
<1>10. ASSUME ~player.shrunk, NEW m \in player.want
       PROVE  m \in Seen(player') \/ (told # "told" /\ ToCome(player', movies', rows', m))
  <2>1. m \in Seen(player) \/ ToCome(player, movies, rows, m)
    BY <1>0, <1>10 DEF Walks, WalksIn, Reaches
  <2>2. SUFFICES ASSUME ToCome(player, movies, rows, m)
                 PROVE  m \in Seen(player') \/ (told # "told" /\ ToCome(player', movies', rows', m))
    BY <1>9, <2>1
  <2> DEFINE S == DOMAIN ms
             V == FoundSet(movies, rows, S, q)
             R == TitleOrder(movies, rows)
             n == Cardinality(V)
  <2>3. PICK i \in V : rows[i].movie = m /\ skip <= Cardinality(Ahead(movies, rows, S, q, i))
    BY <1>0, <2>2 DEF ToCome, Scope
  <2>13. F = Found(EntriesIn(movies, rows, S), q)
    <3>1. \A x \in DOMAIN ms \cap DOMAIN movies : ms[x] = movies[x]
      BY <1>0, <1>10 DEF Walks, WalksIn, Fresh
    <3>2. \A j \in DoneIn(rows, S) : movies[rows[j].movie] = ms[rows[j].movie]
      BY <1>0, <3>1 DEF DoneIn, NamedIn
    <3>3. EntriesIn(movies, rows, S) = EntriesIn(ms, rows, S)
      BY <1>0, <1>1, <3>2, EntriesAgree
    <3> QED
      BY <3>3 DEF F
  <2>4. n \in Nat /\ IsFiniteSet(V) /\ Len(F) = n
    BY <1>0, <1>1, <2>13, FoundAre
  <2>5. PICK l : Enumerates(l, V, R) /\ \A k \in 1..n : F[k] = MediaEntry(movies, rows[l[k]])
    BY <1>0, <1>1, <2>13, FoundAre
  <2>6. PICK k \in 1..n : l[k] = i
    BY <2>3, <2>5 DEF Enumerates
  <2>7. Ahead(movies, rows, S, q, i) = {x \in V : <<x, l[k]>> \in R}
    BY <2>6 DEF Ahead
  <2>8. Orders(R, V)
    <3>1. V \in SUBSET (DOMAIN rows)
      BY DEF FoundSet, DoneIn
    <3> HIDE DEF V
    <3> QED
      BY <1>0, <1>1, <3>1, TitleOrders
  <2> HIDE DEF V, R
  <2>9. Cardinality({x \in V : <<x, l[k]>> \in R}) = k - 1
    BY <2>4, <2>5, <2>8, RankInListing
  <2> HIDE DEF n
  <2>10. skip < k /\ k \in 1..Len(F) /\ k \in Nat
    <3>1. skip <= k - 1 /\ k \in 1..n
      BY <2>3, <2>6, <2>7, <2>9
    <3> QED
      BY <1>1, <2>4, <3>1
  <2>11. CASE k <= skip + Page
    <3>1. k - skip \in 1..Len(piece) /\ piece[k - skip] = F[k]
      BY <1>4, <2>10, <2>11
    <3>2. F[k] \in ToSet(piece)
      <4>1. DOMAIN piece = 1..Len(piece)
        BY <1>4
      <4> QED
        BY <3>1, <4>1 DEF ToSet
    <3>3. F[k].id = m
      <4>1. F[k] = MediaEntry(movies, rows[i])
        BY <2>5, <2>6
      <4>2. MediaEntry(movies, rows[i]).id = rows[i].movie
        BY DEF MediaEntry
      <4> QED
        BY <2>3, <4>1, <4>2
    <3> QED
      BY <1>9, <3>2, <3>3
  <2>12. CASE skip + Page < k
    <3>1. more
      <4>1. skip + Page \in 1..Len(F) /\ skip < skip + Page /\ (skip + Page) - skip = Page
        BY <1>1, <1>3, <2>10, <2>12
      <4>2. Page \in 1..Len(piece)
        BY <1>4, <4>1
      <4> QED
        BY <1>1, <1>4, <4>2
    <3>2. told = "movies" /\ next = skip + Page
      BY <3>1
    <3>3. Scope(player') = Movies
      BY <1>7, <3>2 DEF Scope
    <3>4. i \in FoundSet(movies, rows, Movies, q) /\ Ahead(movies, rows, S, q, i) \subseteq Ahead(movies, rows, Movies, q, i)
      <4>1. S \subseteq Movies
        BY <1>1, MovieListIs
      <4> QED
        BY <2>3, <4>1 DEF V, Ahead, FoundSet, DoneIn
    <3> DEFINE A == Ahead(movies, rows, S, q, i)
               B == Ahead(movies, rows, Movies, q, i)
    <3>5. IsFiniteSet(B) /\ Cardinality(B) \in Nat
      BY <1>0, AheadFinite
    <3>6. A \in SUBSET B
      BY <3>4
    <3>7. Cardinality(A) = k - 1
      BY <2>7, <2>9
    <3> HIDE DEF A, B
    <3>8. Cardinality(A) <= Cardinality(B)
      BY <3>5, <3>6, FS_Subset
    <3>9. next <= Cardinality(B)
      BY <1>1, <2>10, <2>12, <3>2, <3>5, <3>7, <3>8
    <3>10. ToCome(player', movies', rows', m)
      BY <1>0, <1>7, <2>3, <3>3, <3>4, <3>9 DEF ToCome, B
    <3> QED
      BY <3>2, <3>10
  <2> QED
    BY <1>1, <2>10, <2>11, <2>12
<1>11. Reaches(player', movies', rows')
  BY <1>7, <1>10 DEF Reaches
<1>12. Fresh(player', movies')
  BY <1>7, MovieListsAre DEF Fresh
<1> QED
  BY <1>7, <1>8, <1>11, <1>12 DEF Walks, WalksIn

\* The same of the DLNA folder, which comes in one piece.
LEMMA FolderWalk ==
  ASSUME Kinds, Walks, ReadTorrents, player.protocol # "stremio"
  PROVE  player' \in PlayerType /\ Walks'
<1> DEFINE es == EntriesIn(player.movies, rows, DOMAIN player.movies)
<1>0. /\ player \in PlayerType /\ rows \in Seq(Row) /\ rows' = rows /\ movies' = movies
      /\ movies \in MovieLists /\ NamedIn(movies, rows) /\ player.at = "torrents"
  BY DEF Kinds, Table, ReadTorrents, table
<1>1. player.got \in Seq(EntryType) /\ es \in Seq(EntryType)
  <2>1. player.got \in Seq(EntryType) /\ player.movies \in MovieLists
    BY <1>0 DEF PlayerType
  <2> QED
    BY <1>0, <2>1, EntriesTyped
<1>2. player' = [player EXCEPT !.at = "told", !.movies = NoMovies, !.skip = player.skip,
                               !.got = player.got \o es]
  BY EntriesBridge DEF ReadTorrents
<1>3. player.got \o es \in Seq(EntryType)
  <2> HIDE DEF EntryType, es
  <2> QED
    BY <1>1
<1> DEFINE got == player.got \o es
<1> HIDE DEF got
<1>4. /\ player' \in PlayerType /\ player'.at = "told" /\ player'.movies = NoMovies
      /\ player'.protocol = player.protocol /\ player'.skip = player.skip
      /\ player'.got = got /\ player'.same = player.same
  BY <1>0, <1>2, <1>3, MovieListsAre DEF PlayerType, got
<1>5. player.skip = 0
  BY <1>0 DEF Walks, WalksIn, SameView
<1>6. ASSUME player.same PROVE got = View(player', movies', rows')
  <2>1. player.movies = movies /\ player.got = SubSeq(View(player, movies, rows), 1, 0)
    BY <1>0, <1>5, <1>6 DEF Walks, WalksIn, SameView
  <2>2. player.got = <<>>
    BY <2>1, SubSeqEmpty
  <2>3. es = EntriesIn(movies, rows, Movies)
    BY <1>0, <2>1, AllMovies
  <2>4. <<>> \o es = es
    <3> HIDE DEF es, EntryType
    <3> QED
      BY <1>1
  <2> QED
    BY <1>0, <1>4, <2>2, <2>3, <2>4 DEF View, got
<1>7. SameView(player', movies', rows')
  BY <1>4, <1>5, <1>6 DEF SameView
<1>8. Reaches(player', movies', rows')
  BY <1>4 DEF Reaches
<1>9. Fresh(player', movies')
  BY <1>4, MovieListsAre DEF Fresh
<1> QED
  BY <1>4, <1>7, <1>8, <1>9 DEF Walks, WalksIn

-----------------------------------------------------------------------------
(* Requests for limits.                                                    *)

\* The newest torrent of a movie is one of that movie.
LEMMA NewestHash ==
  ASSUME NEW t, Table(t), NEW m, RowsIn(t, m) # {}
  PROVE  /\ NewestAt(t, m) \in DOMAIN t
         /\ t[NewestAt(t, m)].hash \in Hashes /\ t[NewestAt(t, m)].hash[1] = m
<1> DEFINE i == NewestAt(t, m)
<1>1. t \in Seq(Row)
  BY DEF Table
<1>2. i \in RowsIn(t, m) /\ i \in DOMAIN t
  BY <1>1, NewestIs
<1> HIDE DEF i
<1>3. t[i].hash \in Hashes
  BY <1>1, <1>2, RowFields
<1>4. t[i].movie = m /\ t[i].movie = t[i].hash[1]
  BY <1>2 DEF RowsIn, Table
<1> QED
  BY <1>2, <1>3, <1>4 DEF i

\* A request that agrees with the table still does if the newest torrent stays the
\* newest and nothing is asked of it.
LEMMA StillAgrees ==
  ASSUME NEW p, NEW t, NEW a, NEW cl, Agrees(p, t, a, cl),
         NEW t2, NEW a2, NEW cl2, KeepsNewest(t2, t, p.movie),
         RowsIn(t, p.movie) # {} =>
            LET h == t[NewestAt(t, p.movie)].hash IN a2[h] = a[h] /\ (cl2[h] => cl[h])
  PROVE  Agrees(p, t2, a2, cl2)
BY DEF Agrees, KeepsNewest

\* An action that leaves the requests and the limits alone.
LEMMA ApiUnchanged ==
  ASSUME LimitsAsAsked, Unraced, UNCHANGED api,
         \A m : KeepsNewest(rows', rows, m), \A k \in DOMAIN rows' : KeepsLimits(rows', rows, k)
  PROVE  LimitsAsAsked' /\ Unraced'
<1>1. patch' = patch /\ asked' = asked /\ clean' = clean
  BY DEF api
<1>2. Unraced'
  <2>1. ASSUME NEW c \in Clients PROVE Agrees(patch[c], rows', asked, clean)
    <3>1. Agrees(patch[c], rows, asked, clean) /\ KeepsNewest(rows', rows, patch[c].movie)
      BY DEF Unraced
    <3> QED
      BY <3>1, StillAgrees
  <2> QED
    BY <1>1, <2>1 DEF Unraced
<1>3. LimitsAsAsked'
  BY <1>1 DEF LimitsAsAsked, KeepsLimits
<1> QED
  BY <1>2, <1>3

\* A new row of a movie: the requests that have read another of it are raced.
LEMMA AddLimits ==
  ASSUME Kinds, LimitsAsAsked, Unraced, NEW h \in Hashes, NEW now \in Times, Add(h, now)
  PROVE  /\ LimitsAsAsked' /\ Unraced'
         /\ patch' \in [Clients -> PatchType]
         /\ \A c \in Clients : Locked(patch'[c]) /\ patch'[c].at = patch[c].at
         /\ asked' \in [Hashes -> [Fields -> Limits]]
         /\ clean' \in [Hashes -> BOOLEAN]
<1> DEFINE m == h[1]
<1>0. /\ patch \in [Clients -> PatchType] /\ asked \in [Hashes -> [Fields -> Limits]]
      /\ clean \in [Hashes -> BOOLEAN] /\ \A c \in Clients : Locked(patch[c])
      /\ Table(rows)
  BY DEF Kinds
<1>1. /\ Table(rows')
      /\ \A x : x # m => KeepsNewest(rows', rows, x)
      /\ \A k \in DOMAIN rows' :
            \/ rows'[k].hash = h /\ \A f \in Fields : rows'[k][f] = NoLimit
            \/ rows'[k].hash # h /\ KeepsLimits(rows', rows, k)
  BY AddTable
<1>2. /\ asked' = [asked EXCEPT ![h] = [f \in Fields |-> NoLimit]]
      /\ clean' = [clean EXCEPT ![h] = TRUE]
      /\ patch' = [c \in Clients |-> IF patch[c].movie = m
                                     THEN [patch[c] EXCEPT !.alone = FALSE] ELSE patch[c]]
  BY DEF Add, LimitsChange
<1> HIDE DEF m
<1>3. asked' \in [Hashes -> [Fields -> Limits]] /\ clean' \in [Hashes -> BOOLEAN]
  BY <1>0, <1>2, SurfaceAssumption
<1>4. /\ \A x \in Hashes : x # h => asked'[x] = asked[x] /\ (clean'[x] <=> clean[x])
      /\ \A f \in Fields : asked'[h][f] = NoLimit
  BY <1>0, <1>2
<1>5. ASSUME NEW c \in Clients
      PROVE  /\ patch'[c] \in PatchType /\ Locked(patch'[c]) /\ patch'[c].at = patch[c].at
             /\ patch[c].movie = m => patch'[c].alone = FALSE
             /\ patch[c].movie # m => patch'[c] = patch[c]
  <2>1. patch[c] \in PatchType /\ Locked(patch[c])
    BY <1>0
  <2>2. CASE patch[c].movie = m
    <3>1. patch'[c] = [patch[c] EXCEPT !.alone = FALSE]
      BY <1>2, <2>2
    <3> QED
      BY <2>1, <2>2, <3>1 DEF PatchType, Locked
  <2>3. CASE patch[c].movie # m
    BY <1>2, <2>1, <2>3
  <2> QED
    BY <2>2, <2>3
<1>6. patch' \in [Clients -> PatchType]
  BY <1>2, <1>5
<1>7. LimitsAsAsked'
  <2>1. SUFFICES ASSUME NEW k \in DOMAIN rows', clean'[rows'[k].hash], NEW f \in Fields
                 PROVE  rows'[k][f] = asked'[rows'[k].hash][f]
    BY DEF LimitsAsAsked
  <2>2. CASE rows'[k].hash = h
    <3>1. rows'[k][f] = NoLimit
      BY <1>1, <2>2
    <3> QED
      BY <1>4, <2>2, <3>1
  <2>3. CASE rows'[k].hash # h
    <3>1. PICK i \in DOMAIN rows : rows[i].hash = rows'[k].hash /\ rows'[k][f] = rows[i][f]
      BY <1>1, <2>3 DEF KeepsLimits
    <3>2. rows[i].hash \in Hashes
      BY <1>0, <3>1, RowFields DEF Table
    <3>3. clean[rows[i].hash] /\ asked'[rows'[k].hash] = asked[rows[i].hash]
      BY <1>4, <2>1, <2>3, <3>1, <3>2
    <3>4. rows[i][f] = asked[rows[i].hash][f]
      BY <3>3 DEF LimitsAsAsked
    <3> QED
      BY <3>1, <3>3, <3>4
  <2> QED
    BY <2>2, <2>3
<1>8. ASSUME NEW c \in Clients PROVE Agrees(patch'[c], rows', asked', clean')
  <2>1. CASE patch[c].movie = m
    BY <1>5, <2>1 DEF Agrees
  <2>2. CASE patch[c].movie # m
    <3> DEFINE p == patch[c]
    <3>1. patch'[c] = p /\ Agrees(p, rows, asked, clean) /\ KeepsNewest(rows', rows, p.movie)
      BY <1>1, <1>5, <2>2 DEF Unraced
    <3>2. ASSUME RowsIn(rows, p.movie) # {}
          PROVE  LET g == rows[NewestAt(rows, p.movie)].hash
                 IN  asked'[g] = asked[g] /\ (clean'[g] => clean[g])
      <4> DEFINE g == rows[NewestAt(rows, p.movie)].hash
      <4>1. g \in Hashes /\ g[1] = p.movie
        BY <1>0, <3>2, NewestHash
      <4> HIDE DEF g
      <4>2. g # h
        BY <2>2, <4>1 DEF m
      <4>3. asked'[g] = asked[g] /\ (clean'[g] => clean[g])
        BY <1>4, <4>1, <4>2
      <4> QED
        BY <4>3 DEF g
    <3> HIDE DEF p
    <3>3. Agrees(p, rows', asked', clean')
      BY <3>1, <3>2, StillAgrees
    <3> QED
      BY <3>1, <3>3
  <2> QED
    BY <2>1, <2>2
<1>9. Unraced'
  BY <1>8 DEF Unraced
<1> QED
  BY <1>3, <1>5, <1>6, <1>7, <1>9

\* api_patch: the request holds the limits of the newest row and its own.
LEMMA PatchReads ==
  ASSUME Kinds, LimitsAsAsked, Unraced, NEW c \in Clients, NEW m \in Patched,
         NEW f \in Fields, NEW v \in Limits, api_patch(c, m, f, v)
  PROVE  /\ LimitsAsAsked' /\ Unraced'
         /\ patch' \in [Clients -> PatchType]
         /\ \A d \in Clients : Locked(patch'[d])
<1> DEFINE i == NewestAt(rows, m)
           row == rows[i]
           lim == [g \in Fields |-> IF g = f THEN v ELSE row[g]]
           p == [at |-> "lock", movie |-> m, field |-> f, value |-> v, limits |-> lim,
                 alone |-> TRUE]
<1>0. /\ patch \in [Clients -> PatchType] /\ rows \in Seq(Row) /\ Table(rows)
      /\ \A d \in Clients : Locked(patch[d])
  BY DEF Kinds, Table
<1>1. RowsIn(rows, m) # {} /\ torrent_for_movie(m) = row
  BY NewestBridge DEF api_patch
<1>2. /\ patch' = [patch EXCEPT ![c] = p]
      /\ rows' = rows /\ asked' = asked /\ clean' = clean
  BY <1>1 DEF api_patch, table
<1>3. i \in DOMAIN rows
  BY <1>0, <1>1, NewestHash
<1> HIDE DEF i
<1>4. row.download_limit \in Limits /\ row.upload_limit \in Limits
  <2>1. row \in Row
    BY <1>0, <1>3, RowFields
  <2> HIDE DEF row
  <2> QED
    BY <2>1 DEF Row
<1>5. \A g \in Fields : row[g] \in Limits
  <2> HIDE DEF row
  <2> QED
    BY <1>4 DEF Fields
<1>6. clean[row.hash] => \A g \in Fields : row[g] = asked[row.hash][g]
  BY <1>3 DEF LimitsAsAsked
<1>7. row = rows[NewestAt(rows, m)]
  BY DEF i
<1> HIDE DEF row
<1>8. lim \in [Fields -> Limits] /\ \A g \in Fields : lim[g] = IF g = f THEN v ELSE row[g]
  BY <1>5
<1> HIDE DEF lim
<1>9. /\ p \in PatchType /\ Locked(p) /\ p.at = "lock" /\ p.movie = m
      /\ p.field = f /\ p.value = v /\ p.limits = lim
  BY <1>8 DEF PatchType, Locked
<1> HIDE DEF p
<1>10. /\ patch' \in [Clients -> PatchType] /\ patch'[c] = p
       /\ \A d \in Clients : d # c => patch'[d] = patch[d]
  BY <1>0, <1>2, <1>9
<1>11. LimitsAsAsked'
  BY <1>2 DEF LimitsAsAsked
<1>12. Agrees(p, rows, asked, clean)
  <2>1. clean[row.hash] =>
           \A g \in Fields : lim[g] = IF g = f THEN v ELSE asked[row.hash][g]
    BY <1>6, <1>8
  <2> QED
    BY <1>7, <1>9, <2>1 DEF Agrees
<1>13. ASSUME NEW d \in Clients
       PROVE  Agrees(patch'[d], rows', asked', clean') /\ Locked(patch'[d])
  <2>1. CASE d = c
    BY <1>2, <1>9, <1>10, <1>12, <2>1
  <2>2. CASE d # c
    BY <1>0, <1>2, <1>10, <2>2 DEF Unraced
  <2> QED
    BY <2>1, <2>2
<1>14. Unraced'
  BY <1>13 DEF Unraced
<1> QED
  BY <1>10, <1>11, <1>13, <1>14

\* A request that is over.
LEMMA NoPatchIs == NoPatch \in PatchType /\ NoPatch.at = "idle" /\ Locked(NoPatch)
<1> DEFINE lim == [f \in Fields |-> NoLimit]
<1>1. lim \in [Fields -> Limits] /\ NoLimit \in Limits
  BY SurfaceAssumption
<1> HIDE DEF lim
<1>2. NoPatch = [at |-> "idle", movie |-> 0, field |-> "none", value |-> NoLimit,
                 limits |-> lim, alone |-> TRUE]
  BY DEF NoPatch, lim
<1> QED
  BY <1>1, <1>2 DEF PatchType, Locked

\* set_movie_limits: if nobody came in between, the row has what was asked.
LEMMA PatchWrites ==
  ASSUME Kinds, LimitsAsAsked, Unraced, NEW c \in Clients, set_movie_limits(c)
  PROVE  /\ LimitsAsAsked' /\ Unraced'
         /\ patch' \in [Clients -> PatchType]
         /\ \A d \in Clients : Locked(patch'[d])
         /\ asked' \in [Hashes -> [Fields -> Limits]]
         /\ clean' \in [Hashes -> BOOLEAN]
<1> DEFINE p == patch[c]
           m == p.movie
           h == rows[NewestAt(rows, m)].hash
           b == clean[h] /\ p.alone
           v == p.value
           g == p.field
<1>0. /\ patch \in [Clients -> PatchType] /\ asked \in [Hashes -> [Fields -> Limits]]
      /\ clean \in [Hashes -> BOOLEAN] /\ \A d \in Clients : Locked(patch[d])
      /\ Table(rows)
  BY DEF Kinds
<1>1. p.at = "lock" /\ p \in PatchType /\ Locked(p)
  BY <1>0 DEF set_movie_limits
<1>2. g \in Fields /\ v \in Limits
  BY <1>1 DEF Locked, PatchType
<1>3. /\ RowsIn(rows, m) # {} /\ torrent_for_movie(m).hash = h
      /\ h \in Hashes /\ h[1] = m
      /\ \A x : KeepsNewest(rows', rows, x)
      /\ \A k \in DOMAIN rows' :
            \/ rows'[k].hash = h /\ \A f \in Fields : rows'[k][f] = p.limits[f]
            \/ rows'[k].hash # h /\ KeepsLimits(rows', rows, k)
  BY LimitsTable
<1>4. /\ asked' = [asked EXCEPT ![h][g] = v]
      /\ clean' = [clean EXCEPT ![h] = b]
      /\ patch' = [LimitsChange(m) EXCEPT ![c] = NoPatch]
  BY <1>3 DEF set_movie_limits
<1>5. b \in BOOLEAN /\ (b => clean[h] /\ p.alone)
  BY <1>0, <1>1, <1>3 DEF PatchType
<1>6. b => \A f \in Fields : p.limits[f] = IF f = g THEN v ELSE asked[h][f]
  BY <1>1, <1>3, <1>5 DEF Unraced, Agrees
<1> HIDE DEF b, v, g, h
<1>7. /\ clean' \in [Hashes -> BOOLEAN] /\ clean'[h] = b
      /\ \A x \in Hashes : x # h => clean'[x] = clean[x]
  BY <1>0, <1>3, <1>4, <1>5
<1>8. /\ asked' \in [Hashes -> [Fields -> Limits]]
      /\ \A x \in Hashes : x # h => asked'[x] = asked[x]
      /\ \A f \in Fields : asked'[h][f] = IF f = g THEN v ELSE asked[h][f]
  <2>1. asked' \in [Hashes -> [Fields -> Limits]] /\ asked'[h] = [asked[h] EXCEPT ![g] = v]
    BY <1>0, <1>2, <1>3, <1>4
  <2>2. \A x \in Hashes : x # h => asked'[x] = asked[x]
    BY <1>0, <1>2, <1>3, <1>4
  <2>3. asked[h] \in [Fields -> Limits]
    BY <1>0, <1>3
  <2> QED
    BY <1>2, <2>1, <2>2, <2>3
<1>9. ASSUME NEW d \in Clients
      PROVE  /\ patch'[d] \in PatchType /\ Locked(patch'[d])
             /\ d # c /\ patch[d].movie # m => patch'[d] = patch[d]
             /\ d = c => patch'[d].at = "idle"
             /\ d # c /\ patch[d].movie = m => patch'[d].alone = FALSE
  <2>0. LimitsChange(m) = [e \in Clients |-> IF patch[e].movie = m
                              THEN [patch[e] EXCEPT !.alone = FALSE] ELSE patch[e]]
    BY DEF LimitsChange
  <2>1. patch[d] \in PatchType /\ Locked(patch[d])
    BY <1>0
  <2> HIDE DEF m
  <2>2. CASE d = c
    BY <1>4, <2>0, <2>2, NoPatchIs
  <2>3. CASE d # c /\ patch[d].movie = m
    <3>1. patch'[d] = [patch[d] EXCEPT !.alone = FALSE]
      BY <1>4, <2>0, <2>3
    <3> QED
      BY <2>1, <2>3, <3>1 DEF PatchType, Locked
  <2>4. CASE d # c /\ patch[d].movie # m
    BY <1>4, <2>0, <2>1, <2>4
  <2> QED
    BY <2>2, <2>3, <2>4
<1>10. patch' \in [Clients -> PatchType]
  BY <1>4, <1>9 DEF LimitsChange
<1>11. LimitsAsAsked'
  <2>1. SUFFICES ASSUME NEW k \in DOMAIN rows', clean'[rows'[k].hash], NEW f \in Fields
                 PROVE  rows'[k][f] = asked'[rows'[k].hash][f]
    BY DEF LimitsAsAsked
  <2>2. CASE rows'[k].hash = h
    <3>1. rows'[k][f] = p.limits[f]
      BY <1>3, <2>2
    <3>2. b
      BY <1>7, <2>1, <2>2
    <3> QED
      BY <1>6, <1>8, <2>2, <3>1, <3>2
  <2>3. CASE rows'[k].hash # h
    <3>1. PICK i \in DOMAIN rows : rows[i].hash = rows'[k].hash /\ rows'[k][f] = rows[i][f]
      BY <1>3, <2>3 DEF KeepsLimits
    <3>2. rows[i].hash \in Hashes
      BY <1>0, <3>1, RowFields DEF Table
    <3>3. clean[rows[i].hash] /\ asked'[rows'[k].hash] = asked[rows[i].hash]
      BY <1>7, <1>8, <2>1, <2>3, <3>1, <3>2
    <3>4. rows[i][f] = asked[rows[i].hash][f]
      BY <3>3 DEF LimitsAsAsked
    <3> QED
      BY <3>1, <3>3, <3>4
  <2> QED
    BY <2>2, <2>3
<1>12. ASSUME NEW d \in Clients PROVE Agrees(patch'[d], rows', asked', clean')
  <2>1. CASE d = c
    BY <1>9, <2>1 DEF Agrees
  <2>2. CASE d # c /\ patch[d].movie = m
    BY <1>9, <2>2 DEF Agrees
  <2>3. CASE d # c /\ patch[d].movie # m
    <3> DEFINE r == patch[d]
               k == rows[NewestAt(rows, r.movie)].hash
    <3>1. patch'[d] = r /\ Agrees(r, rows, asked, clean) /\ KeepsNewest(rows', rows, r.movie)
      BY <1>3, <1>9, <2>3 DEF Unraced
    <3>2. ASSUME RowsIn(rows, r.movie) # {} PROVE asked'[k] = asked[k] /\ (clean'[k] => clean[k])
      <4>1. k \in Hashes /\ k[1] = r.movie
        BY <1>0, <3>2, NewestHash
      <4> HIDE DEF k
      <4>2. k # h
        BY <1>3, <2>3, <4>1
      <4> QED
        BY <1>7, <1>8, <4>1, <4>2
    <3>3. RowsIn(rows, r.movie) # {} =>
             LET x == rows[NewestAt(rows, r.movie)].hash
             IN  asked'[x] = asked[x] /\ (clean'[x] => clean[x])
      BY <3>2
    <3> HIDE DEF r, k
    <3>4. Agrees(r, rows', asked', clean')
      BY <3>1, <3>3, StillAgrees
    <3> QED
      BY <3>1, <3>4
  <2> QED
    BY <2>1, <2>2, <2>3
<1>13. Unraced'
  BY <1>12 DEF Unraced
<1> QED
  BY <1>7, <1>8, <1>9, <1>10, <1>11, <1>13

-----------------------------------------------------------------------------
(* The invariant is inductive.                                             *)

SurfaceInv == Kinds /\ Apart /\ Walks /\ LimitsAsAsked /\ Unraced

\* No player.
LEMMA NoPlayerIs == NoPlayer \in PlayerType /\ NoPlayer.at = "idle"
<1> DEFINE e == <<>>
<1>1. e \in Seq(EntryType)
  <2> HIDE DEF EntryType
  <2> QED
    OBVIOUS
<1> HIDE DEF e
<1>2. NoPlayer = [at |-> "idle", protocol |-> "none", query |-> {}, movies |-> NoMovies,
                  skip |-> 0, got |-> e, want |-> {}, same |-> TRUE, shrunk |-> FALSE]
  BY DEF NoPlayer, e
<1>3. NoMovies \in MovieLists
  BY MovieListsAre
<1> QED
  BY <1>1, <1>2, <1>3 DEF PlayerType

\* Nothing is said of a player that has not begun.
LEMMA IdleWalks == \A p, T, t : p.at = "idle" => WalksIn(p, T, t)
BY DEF WalksIn, SameView, Fresh, Reaches

\* An empty library satisfies the invariant.
LEMMA SurfaceInit == Init => SurfaceInv
<1> SUFFICES ASSUME Init PROVE SurfaceInv
  OBVIOUS
<1>1. /\ movies = NoMovies /\ rows = <<>> /\ loaded = {} /\ adding = {} /\ player = NoPlayer
      /\ patch = [c \in Clients |-> NoPatch]
      /\ asked = [h \in Hashes |-> [f \in Fields |-> NoLimit]]
      /\ clean = [h \in Hashes |-> TRUE]
  BY DEF Init
<1>2. rows \in Seq(Row) /\ DOMAIN rows = {}
  BY <1>1
<1>3. Table(rows) /\ NamedIn(movies, rows) /\ movies \in MovieLists
  BY <1>1, <1>2, MovieListsAre DEF Table, NamedIn
<1>4. patch \in [Clients -> PatchType] /\ \A c \in Clients : patch[c] = NoPatch
  BY <1>1, NoPatchIs
<1>5. Kinds
  BY <1>1, <1>3, <1>4, NoPatchIs, NoPlayerIs, SurfaceAssumption DEF Kinds
<1>6. Apart
  BY <1>1, <1>4, NoPatchIs, NoPlayerIs DEF Apart
<1>7. Walks
  BY <1>1, NoPlayerIs, IdleWalks DEF Walks
<1>8. LimitsAsAsked /\ Unraced
  BY <1>2, <1>4, NoPatchIs DEF LimitsAsAsked, Unraced, Agrees
<1> QED
  BY <1>5, <1>6, <1>7, <1>8 DEF SurfaceInv

\* A table that stays as it is.
LEMMA SameRows ==
  ASSUME Table(rows), rows' = rows
  PROVE  /\ TableGrows /\ \A m : KeepsNewest(rows', rows, m)
         /\ \A k \in DOMAIN rows' : KeepsLimits(rows', rows, k)
<1>1. rows \in Seq(Row)
  BY DEF Table
<1>2. Derives(rows, rows, [k \in 1..Len(rows) |-> k], Len(rows))
  BY <1>1, Rewrites
<1>3. TableGrows
  BY <1>2 DEF TableGrows
<1>4. \A m : KeepsNewest(rows', rows, m)
  BY DEF KeepsNewest
<1>5. \A k \in DOMAIN rows' : KeepsLimits(rows', rows, k)
  BY DEF KeepsLimits
<1> QED
  BY <1>3, <1>4, <1>5

\* The library changes under a player.
LEMMA LibraryStep ==
  ASSUME SurfaceInv, Table(rows'), movies' \in MovieLists, NamedIn(movies', rows'), TableGrows,
         loaded' \subseteq Hashes, adding' \subseteq Hashes, LibraryChanges, who' = who,
         LimitsAsAsked', Unraced', patch' \in [Clients -> PatchType],
         \A c \in Clients : Locked(patch'[c]) /\ patch'[c].at = patch[c].at,
         asked' \in [Hashes -> [Fields -> Limits]], clean' \in [Hashes -> BOOLEAN]
  PROVE  SurfaceInv'
<1>0. Kinds /\ Apart /\ Walks
  BY DEF SurfaceInv
<1>1. player' \in PlayerType /\ player'.at = player.at /\ Walks'
  BY <1>0, LibraryWalk
<1>2. Kinds'
  BY <1>1 DEF Kinds
<1>3. Apart'
  BY <1>0, <1>1 DEF Apart
<1> QED
  BY <1>1, <1>2, <1>3 DEF SurfaceInv

\* It changes and the limits do not.
LEMMA QuietStep ==
  ASSUME SurfaceInv, Table(rows'), movies' \in MovieLists, NamedIn(movies', rows'), TableGrows,
         loaded' \subseteq Hashes, adding' \subseteq Hashes, LibraryChanges, who' = who,
         UNCHANGED api, \A m : KeepsNewest(rows', rows, m),
         \A k \in DOMAIN rows' : KeepsLimits(rows', rows, k)
  PROVE  SurfaceInv'
<1>0. LimitsAsAsked /\ Unraced
  BY DEF SurfaceInv
<1>1. patch' = patch /\ asked' = asked /\ clean' = clean
  BY DEF api
<1>2. /\ patch \in [Clients -> PatchType] /\ \A c \in Clients : Locked(patch[c])
      /\ asked \in [Hashes -> [Fields -> Limits]] /\ clean \in [Hashes -> BOOLEAN]
  BY DEF SurfaceInv, Kinds
<1>3. LimitsAsAsked' /\ Unraced'
  BY <1>0, ApiUnchanged
<1>4. /\ patch' \in [Clients -> PatchType]
      /\ \A c \in Clients : Locked(patch'[c]) /\ patch'[c].at = patch[c].at
      /\ asked' \in [Hashes -> [Fields -> Limits]] /\ clean' \in [Hashes -> BOOLEAN]
  BY <1>1, <1>2
<1> QED
  BY <1>3, <1>4, LibraryStep

\* upsert_movie: a movie gets a title, the torrents stay.
LEMMA UpsertStep ==
  ASSUME SurfaceInv, NEW h \in Hashes, NEW x \in Titles, upsert_movie(h, x)
  PROVE  SurfaceInv'
<1> DEFINE m == h[1]
           S == DOMAIN movies \cup {m}
<1>0. /\ Table(rows) /\ movies \in MovieLists /\ NamedIn(movies, rows)
      /\ loaded \subseteq Hashes
  BY DEF SurfaceInv, Kinds
<1>1. /\ rows' = rows /\ loaded' = loaded \cup {h} /\ adding' = {h} /\ UNCHANGED api
      /\ who' = who /\ LibraryChanges
  BY DEF upsert_movie
<1>2. movies' = [n \in S |-> IF n = m THEN x ELSE movies[n]]
  BY DEF upsert_movie
<1>3. DOMAIN movies \in SUBSET Movies /\ movies \in [DOMAIN movies -> Nat]
  BY <1>0, MovieListIs
<1>4. S \in SUBSET Movies /\ x \in Nat
  BY <1>3, SurfaceAssumption DEF Movies
<1>5. movies' \in [S -> Nat]
  BY <1>2, <1>3, <1>4
<1>6. movies' \in MovieLists
  BY <1>4, <1>5, MovieListsAre
<1>7. NamedIn(movies', rows')
  BY <1>0, <1>1, <1>5 DEF NamedIn
<1>8. /\ TableGrows /\ \A n : KeepsNewest(rows', rows, n)
      /\ \A k \in DOMAIN rows' : KeepsLimits(rows', rows, k)
  BY <1>0, <1>1, SameRows
<1>9. Table(rows') /\ loaded' \subseteq Hashes /\ adding' \subseteq Hashes
  BY <1>0, <1>1
<1> QED
  BY <1>1, <1>6, <1>7, <1>8, <1>9, QuietStep

\* add_movie records the torrent.
LEMMA AddStep ==
  ASSUME SurfaceInv, NEW h \in Hashes, NEW now \in Times, Add(h, now)
  PROVE  SurfaceInv'
<1>0. Kinds /\ LimitsAsAsked /\ Unraced /\ movies \in MovieLists /\ loaded \subseteq Hashes
  BY DEF SurfaceInv, Kinds
<1>1. movies' = movies /\ loaded' = loaded /\ adding' = {} /\ who' = who /\ LibraryChanges
  BY DEF Add
<1>2. Table(rows') /\ TableGrows /\ NamedIn(movies', rows')
  BY <1>0, AddTable
<1>3. /\ LimitsAsAsked' /\ Unraced' /\ patch' \in [Clients -> PatchType]
      /\ \A c \in Clients : Locked(patch'[c]) /\ patch'[c].at = patch[c].at
      /\ asked' \in [Hashes -> [Fields -> Limits]] /\ clean' \in [Hashes -> BOOLEAN]
  BY <1>0, AddLimits
<1>4. movies' \in MovieLists /\ loaded' \subseteq Hashes /\ adding' \subseteq Hashes
  BY <1>0, <1>1
<1> QED
  BY <1>1, <1>2, <1>3, <1>4, LibraryStep

\* A torrent completes, or a movie goes.
LEMMA CompleteStep ==
  ASSUME SurfaceInv, NEW h \in Hashes, Complete(h)
  PROVE  SurfaceInv'
<1>0. Kinds /\ movies \in MovieLists /\ loaded \subseteq Hashes /\ adding \subseteq Hashes
  BY DEF SurfaceInv, Kinds
<1>1. /\ movies' = movies /\ loaded' = loaded /\ adding' = adding /\ UNCHANGED api
      /\ who' = who /\ LibraryChanges
  BY DEF Complete
<1>2. /\ Table(rows') /\ TableGrows /\ NamedIn(movies', rows')
      /\ \A m : KeepsNewest(rows', rows, m)
      /\ \A k \in DOMAIN rows' : KeepsLimits(rows', rows, k)
  BY <1>0, CompleteTable
<1>3. movies' \in MovieLists /\ loaded' \subseteq Hashes /\ adding' \subseteq Hashes
  BY <1>0, <1>1
<1> QED
  BY <1>1, <1>2, <1>3, QuietStep

LEMMA ForgetStep ==
  ASSUME SurfaceInv, NEW m, NEW hs, Forget(m, hs)
  PROVE  SurfaceInv'
<1>0. Kinds /\ loaded \subseteq Hashes /\ adding \subseteq Hashes
  BY DEF SurfaceInv, Kinds
<1>1. /\ loaded' \subseteq loaded /\ adding' = adding /\ UNCHANGED api
      /\ who' = who /\ LibraryChanges
  BY DEF Forget
<1>2. /\ Table(rows') /\ TableGrows /\ movies' \in MovieLists /\ NamedIn(movies', rows')
      /\ \A n : KeepsNewest(rows', rows, n)
      /\ \A k \in DOMAIN rows' : KeepsLimits(rows', rows, k)
  BY <1>0, ForgetTable
<1>3. loaded' \subseteq Hashes /\ adding' \subseteq Hashes
  BY <1>0, <1>1
<1> QED
  BY <1>1, <1>2, <1>3, QuietStep

\* Nothing changes but what the player has been told, and the session.
LEMMA PlayerStep ==
  ASSUME SurfaceInv, UNCHANGED <<movies, rows, api, who>>, loaded' \subseteq loaded,
         adding' \subseteq adding, player' \in PlayerType, Walks',
         who = "player" \/ player'.at = "idle"
  PROVE  SurfaceInv'
<1>0. Kinds /\ Apart /\ LimitsAsAsked /\ Unraced /\ Table(rows)
  BY DEF SurfaceInv, Kinds
<1>1. /\ movies' = movies /\ rows' = rows /\ UNCHANGED api
      /\ patch' = patch /\ asked' = asked /\ clean' = clean /\ who' = who
  BY DEF api
<1>2. LimitsAsAsked' /\ Unraced'
  BY <1>0, <1>1, SameRows, ApiUnchanged
<1>3. Kinds'
  BY <1>0, <1>1 DEF Kinds
<1>4. Apart'
  BY <1>0, <1>1 DEF Apart
<1> QED
  BY <1>2, <1>3, <1>4 DEF SurfaceInv

\* The requests read and write while no player is connected.
LEMMA ApiStep ==
  ASSUME SurfaceInv, who # "player", UNCHANGED <<movies, adding, player, who>>,
         loaded' \subseteq loaded, Table(rows'), NamedIn(movies', rows'),
         LimitsAsAsked', Unraced', patch' \in [Clients -> PatchType],
         \A d \in Clients : Locked(patch'[d]),
         asked' \in [Hashes -> [Fields -> Limits]], clean' \in [Hashes -> BOOLEAN]
  PROVE  SurfaceInv'
<1>0. Kinds /\ Apart
  BY DEF SurfaceInv
<1>1. Kinds'
  BY <1>0 DEF Kinds
<1>2. player'.at = "idle"
  BY <1>0 DEF Apart
<1>3. Apart' /\ Walks'
  BY <1>2, IdleWalks DEF Apart, Walks
<1> QED
  BY <1>1, <1>3 DEF SurfaceInv

\* Every step keeps it.
LEMMA SurfaceStep == SurfaceInv /\ [Next]_vars => SurfaceInv'
<1> SUFFICES ASSUME SurfaceInv, [Next]_vars PROVE SurfaceInv'
  OBVIOUS
<1>0. /\ Kinds /\ Apart /\ Walks /\ LimitsAsAsked /\ Unraced /\ player \in PlayerType
      /\ Table(rows) /\ NamedIn(movies, rows)
      /\ (who = "player" \/ player.at = "idle")
  BY DEF SurfaceInv, Kinds, Apart
<1>1. ASSUME NEW h \in Hashes, Complete(h) \/ evict(h) PROVE SurfaceInv'
  BY <1>1, CompleteStep, ForgetStep DEF evict
<1>2. ASSUME NEW m \in Movies, remove_movie(m) PROVE SurfaceInv'
  BY <1>2, ForgetStep DEF remove_movie
<1>3. ASSUME AddFails \/ \E h \in Hashes : Unload(h) PROVE SurfaceInv'
  <2>1. /\ UNCHANGED <<movies, rows, api, who>> /\ player' = player /\ rows' = rows
        /\ movies' = movies /\ loaded' \subseteq loaded /\ adding' \subseteq adding
    BY <1>3 DEF AddFails, Unload
  <2>2. Walks'
    BY <1>0, <2>1 DEF Walks
  <2> QED
    BY <1>0, <2>1, <2>2, PlayerStep
<1>4. ASSUME Restart PROVE SurfaceInv'
  <2>1. /\ movies' = movies /\ rows' = rows /\ player' = NoPlayer
        /\ patch' = [c \in Clients |-> NoPatch] /\ adding' = {}
        /\ asked' = asked /\ clean' = clean /\ who' = who
        /\ loaded' = {rows[i].hash : i \in DOMAIN rows}
    BY <1>4 DEF Restart
  <2>2. loaded' \subseteq Hashes
    BY <1>0, <2>1, RowFields DEF Table
  <2>3. patch' \in [Clients -> PatchType] /\ \A c \in Clients : patch'[c] = NoPatch
    BY <2>1, NoPatchIs
  <2>4. Kinds'
    BY <1>0, <2>1, <2>2, <2>3, NoPatchIs, NoPlayerIs DEF Kinds
  <2>5. Apart'
    BY <2>1, <2>3, NoPatchIs, NoPlayerIs DEF Apart
  <2>6. Walks'
    BY <2>1, NoPlayerIs, IdleWalks DEF Walks
  <2>7. LimitsAsAsked'
    BY <1>0, <2>1 DEF LimitsAsAsked
  <2>8. Unraced'
    BY <2>3, NoPatchIs DEF Unraced, Agrees
  <2> QED
    BY <2>4, <2>5, <2>6, <2>7, <2>8 DEF SurfaceInv
<1>5. ASSUME NEW protocol \in {"stremio", "dlna"}, NEW query \in SUBSET Nat,
             Browse(protocol, query)
      PROVE  SurfaceInv'
  <2>1. player' \in PlayerType /\ Walks'
    BY <1>0, <1>5, BrowseWalk
  <2>2. UNCHANGED <<movies, rows, api, who>> /\ loaded' = loaded /\ adding' = adding
    BY <1>5 DEF Browse, table
  <2>3. who = "player"
    BY <1>5 DEF Browse
  <2> QED
    BY <2>1, <2>2, <2>3, PlayerStep
<1>6. ASSUME ReadMovies \/ ReadTorrents \/ StoreFails PROVE SurfaceInv'
  <2>1. player' \in PlayerType /\ Walks'
    BY <1>0, <1>6, MoviesWalk, PageWalk, FolderWalk, FailedWalk
  <2>2. UNCHANGED <<movies, rows, api, who>> /\ loaded' = loaded /\ adding' = adding
    BY <1>6 DEF ReadMovies, ReadTorrents, StoreFails, table
  <2>3. who = "player"
    BY <1>0, <1>6 DEF ReadMovies, ReadTorrents, StoreFails
  <2> QED
    BY <2>1, <2>2, <2>3, PlayerStep
<1>7. ASSUME Leave PROVE SurfaceInv'
  <2>1. /\ player' = NoPlayer /\ UNCHANGED <<movies, rows, api, who>>
        /\ loaded' = loaded /\ adding' = adding
    BY <1>7 DEF Leave, table
  <2>2. Walks'
    BY <2>1, NoPlayerIs, IdleWalks DEF Walks
  <2> QED
    BY <2>1, <2>2, NoPlayerIs, PlayerStep
<1>8. ASSUME NEW c \in Clients, NEW m \in Patched, NEW f \in Fields, NEW v \in Limits,
             api_patch(c, m, f, v)
      PROVE  SurfaceInv'
  <2>1. /\ LimitsAsAsked' /\ Unraced' /\ patch' \in [Clients -> PatchType]
        /\ \A d \in Clients : Locked(patch'[d])
    BY <1>0, <1>8, PatchReads
  <2>2. /\ movies' = movies /\ rows' = rows /\ loaded' = loaded /\ adding' = adding
        /\ player' = player /\ asked' = asked /\ clean' = clean /\ who' = who /\ who = "api"
    BY <1>8 DEF api_patch, table
  <2>3. asked' \in [Hashes -> [Fields -> Limits]] /\ clean' \in [Hashes -> BOOLEAN]
    BY <1>0, <2>2 DEF Kinds
  <2> QED
    BY <1>0, <2>1, <2>2, <2>3, ApiStep
<1>9. ASSUME NEW c \in Clients, set_movie_limits(c) PROVE SurfaceInv'
  <2>1. /\ LimitsAsAsked' /\ Unraced' /\ patch' \in [Clients -> PatchType]
        /\ \A d \in Clients : Locked(patch'[d])
        /\ asked' \in [Hashes -> [Fields -> Limits]] /\ clean' \in [Hashes -> BOOLEAN]
    BY <1>0, <1>9, PatchWrites
  <2>2. Table(rows') /\ NamedIn(movies', rows')
    BY <1>0, <1>9, LimitsTable
  <2>3. /\ UNCHANGED <<movies, adding, player, who>> /\ loaded' \subseteq loaded
        /\ patch[c].at = "lock"
    BY <1>9 DEF set_movie_limits
  <2>4. who # "player"
    BY <1>0, <2>3 DEF Apart
  <2> QED
    BY <2>1, <2>2, <2>3, <2>4, ApiStep
<1>10. ASSUME NEW c \in Clients, PatchFails(c) PROVE SurfaceInv'
  <2>1. /\ patch' = [patch EXCEPT ![c] = NoPatch] /\ movies' = movies /\ rows' = rows
        /\ loaded' = loaded /\ adding' = adding /\ player' = player /\ asked' = asked
        /\ clean' = clean /\ who' = who /\ patch[c].at = "lock"
    BY <1>10 DEF PatchFails, table
  <2>2. /\ patch' \in [Clients -> PatchType]
        /\ \A d \in Clients : patch'[d] = IF d = c THEN NoPatch ELSE patch[d]
    BY <1>0, <2>1, NoPatchIs DEF Kinds
  <2>3. \A d \in Clients : Locked(patch'[d])
    BY <1>0, <2>2, NoPatchIs DEF Kinds
  <2>4. asked' \in [Hashes -> [Fields -> Limits]] /\ clean' \in [Hashes -> BOOLEAN]
    BY <1>0, <2>1 DEF Kinds
  <2>5. LimitsAsAsked'
    BY <1>0, <2>1 DEF LimitsAsAsked
  <2>6. Unraced'
    BY <1>0, <2>1, <2>2, NoPatchIs DEF Unraced, Agrees
  <2>7. who # "player"
    BY <1>0, <2>1 DEF Apart
  <2> QED
    BY <1>0, <2>1, <2>2, <2>3, <2>4, <2>5, <2>6, <2>7, ApiStep
<1>11. CASE UNCHANGED vars
  <2>1. /\ UNCHANGED <<movies, rows, api, who>> /\ player' = player /\ rows' = rows
        /\ movies' = movies /\ loaded' = loaded /\ adding' = adding
    BY <1>11 DEF vars, table
  <2>2. Walks'
    BY <1>0, <2>1 DEF Walks
  <2> QED
    BY <1>0, <2>1, <2>2, PlayerStep
<1>12. Queries \subseteq SUBSET Nat /\ {} \in SUBSET Nat
  BY SurfaceAssumption
<1>13. CASE Next
  <2>1. CASE \/ \E h \in Hashes, x \in Titles : upsert_movie(h, x)
             \/ \E h \in Hashes, now \in Times : Add(h, now)
    BY <2>1, UpsertStep, AddStep
  <2>2. CASE \/ AddFails \/ \E h \in Hashes : Complete(h) \/ Unload(h) \/ evict(h)
             \/ \E m \in Movies : remove_movie(m)
    BY <1>1, <1>2, <1>3, <2>2
  <2>3. CASE \/ Restart \/ Leave
             \/ \E query \in Queries : Browse("stremio", query)
             \/ Browse("dlna", {})
             \/ ReadMovies \/ ReadTorrents \/ StoreFails
    BY <1>4, <1>5, <1>6, <1>7, <1>12, <2>3
  <2>4. CASE \/ \E c \in Clients, m \in Patched, f \in Fields, v \in Limits : api_patch(c, m, f, v)
             \/ \E c \in Clients : set_movie_limits(c) \/ PatchFails(c)
    BY <1>8, <1>9, <1>10, <2>4
  <2> QED
    BY <1>13, <2>1, <2>2, <2>3, <2>4 DEF Next
<1> QED
  BY <1>11, <1>13

\* So it holds throughout.
LEMMA SurfaceInvariant == Spec => []SurfaceInv
BY SurfaceInit, SurfaceStep, PTL DEF Spec

-----------------------------------------------------------------------------
(* Theorems.                                                               *)

\* The table never has two rows of one info hash (insert_torrent replaces), every row's
\* movie is in the movies table, and what players and requests hold is well-typed.
THEOREM SurfaceTypeCorrect == Spec => []TypeOK
<1>1. SurfaceInv => TypeOK
  <2> SUFFICES ASSUME SurfaceInv PROVE TypeOK
    OBVIOUS
  <2>1. /\ Table(rows) /\ NamedIn(movies, rows) /\ loaded \subseteq Hashes
        /\ adding \subseteq Hashes /\ player \in PlayerType /\ patch \in [Clients -> PatchType]
    BY DEF SurfaceInv, Kinds
  <2>2. player.at \in {"idle", "movies", "torrents", "told"} /\ player.skip \in Nat
    BY <2>1 DEF PlayerType
  <2>3. \A c \in Clients : patch[c].at \in {"idle", "lock"}
    BY <2>1 DEF PatchType
  <2> QED
    BY <2>1, <2>2, <2>3 DEF TypeOK, Table, NamedIn
<1> QED
  BY <1>1, SurfaceInvariant, PTL

\* The Stremio catalogue fetched page by page (catalog, `skip`) shows every movie that
\* was listed when the player began, whatever is added or finishes between two pages or
\* between the two reads of one, unless a listed one goes or gets another title
\* (upsert_movie) or a read fails (entries answers with nothing); and if nothing
\* changed, each once and in order.
THEOREM PagesMissNothing == Spec => []WalkSeesAll
<1>1. SurfaceInv => WalkSeesAll
  <2> SUFFICES ASSUME SurfaceInv, player.at = "told", player.protocol = "stremio"
               PROVE  /\ ~player.shrunk => player.want \subseteq {e.id : e \in ToSet(player.got)}
                      /\ player.same => player.got = Found(entries(list_movies), player.query)
    BY DEF WalkSeesAll
  <2>1. /\ rows \in Seq(Row) /\ NamedIn(movies, rows)
        /\ SameView(player, movies, rows) /\ Reaches(player, movies, rows)
    BY DEF SurfaceInv, Kinds, Walks, WalksIn, Table
  <2>2. entries(list_movies) = EntriesIn(movies, rows, Movies)
    BY <2>1, ListedBridge
  <2>3. player.same => player.got = Found(entries(list_movies), player.query)
    BY <2>1, <2>2 DEF SameView, View
  <2>4. ~player.shrunk => \A m \in player.want : m \in Seen(player)
    BY <2>1 DEF Reaches
  <2> QED
    BY <2>3, <2>4 DEF Seen
<1> QED
  BY <1>1, SurfaceInvariant, PTL

\* An entry of a view is a completed torrent of the table.
LEMMA ShownIsListed ==
  ASSUME NEW t \in Seq(Row), NEW T, Titled(T, t), NEW p, NEW e \in ToSet(View(p, T, t))
  PROVE  \E i \in DoneIn(t, Movies) : e = MediaEntry(T, t[i])
<1>1. CASE p.protocol = "stremio"
  <2> DEFINE V == FoundSet(T, t, Movies, p.query)
             n == Cardinality(V)
             F == Found(EntriesIn(T, t, Movies), p.query)
  <2>1. View(p, T, t) = F
    BY <1>1 DEF View
  <2>2. DOMAIN F = 1..n
    BY FoundAre
  <2>3. PICK l : Enumerates(l, V, TitleOrder(T, t)) /\ \A k \in 1..n : F[k] = MediaEntry(T, t[l[k]])
    BY FoundAre
  <2> HIDE DEF F
  <2>4. PICK k \in 1..n : e = F[k]
    BY <2>1, <2>2 DEF ToSet
  <2>5. l[k] \in V
    BY <2>3, <2>4 DEF Enumerates
  <2>6. l[k] \in DoneIn(t, Movies)
    BY <2>5 DEF FoundSet
  <2> QED
    BY <2>3, <2>4, <2>6
<1>2. CASE p.protocol # "stremio"
  <2>1. e \in ListedIn(T, t)
    BY <1>2, ListedAre DEF View
  <2> QED
    BY <2>1 DEF ListedIn
<1> QED
  BY <1>1, <1>2

\* A movie with one torrent, which is complete, resolves: entry, meta, stream and the
\* two video routes are about that torrent.
LEMMA OneTorrentResolves ==
  ASSUME rows \in Seq(Row), NEW i \in DoneIn(rows, Movies), NEW e, e = MediaEntry(movies, rows[i]),
         Cardinality(RowsOf(e.id)) = 1
  PROVE  Resolves(e)
<1> DEFINE m == e.id
<1>1. e.id = rows[i].movie /\ e.file = rows[i].hash
  BY DEF MediaEntry
<1>2. i \in DOMAIN rows /\ rows[i].done /\ i \in RowsIn(rows, m)
  BY <1>1 DEF DoneIn, RowsIn
<1>3. RowsOf(m) = RowsIn(rows, m)
  BY NewestBridge
<1>4. RowsOf(m) = {i}
  <2>1. IsFiniteSet(RowsOf(m))
    <3>1. IsFiniteSet(1..Len(rows))
      BY FS_Interval
    <3>2. RowsOf(m) \in SUBSET (1..Len(rows))
      BY DEF RowsOf
    <3> QED
      BY <3>1, <3>2, FS_Subset
  <2>2. PICK x : RowsOf(m) = {x}
    BY <2>1, FS_Singleton
  <2> QED
    BY <1>2, <1>3, <2>2
<1>5. torrent_for_movie(m) = rows[i]
  <2>1. NewestAt(rows, m) \in RowsIn(rows, m)
    BY <1>2, NewestIs
  <2>2. torrent_for_movie(m) = rows[NewestAt(rows, m)]
    BY NewestBridge
  <2> QED
    BY <1>3, <1>4, <2>1, <2>2
<1>6. entry(m) = <<e>>
  BY <1>2, <1>4, <1>5 DEF entry
<1>7. meta(m) = <<full_meta(e)>> /\ stream(m) = <<stream_for(e)>>
  <2>1. DOMAIN <<e>> = {1} /\ <<e>>[1] = e
    OBVIOUS
  <2>2. \A x : <<x>> = [n \in {1} |-> x]
    OBVIOUS
  <2>3. meta(m) = [n \in {1} |-> full_meta(e)]
    BY <1>6, <2>1 DEF meta
  <2>4. stream(m) = [n \in {1} |-> stream_for(e)]
    BY <1>6, <2>1 DEF stream
  <2> QED
    BY <2>2, <2>3, <2>4
<1>8. stream_target(m) \in {Serves(e.file), Conflict}
  BY <1>1, <1>4, <1>5 DEF stream_target
<1>9. video(stream_for(e)) = stream_target(m) /\ dlna_video(items(e)) = stream_target(m)
  BY DEF video, dlna_video, stream_for, items, video_path
<1> QED
  BY <1>7, <1>8, <1>9 DEF Resolves

\* While nothing changes, what a player was shown leads where it was told: a DLNA
\* object id names its entry alone, and an entry of a movie with one torrent opens it.
THEOREM ShownLeadsThere == Spec => []ShownResolves
<1>1. SurfaceInv => ShownResolves
  <2> SUFFICES ASSUME SurfaceInv, player.at = "told", player.same
               PROVE  /\ player.protocol = "dlna" => ObjectsResolve
                      /\ \A e \in ToSet(player.got) : Cardinality(RowsOf(e.id)) = 1 => Resolves(e)
    BY DEF ShownResolves
  <2>1. /\ rows \in Seq(Row) /\ movies \in MovieLists /\ NamedIn(movies, rows)
        /\ player.got = View(player, movies, rows)
    BY DEF SurfaceInv, Kinds, Walks, WalksIn, Table, SameView
  <2>4. Titled(movies, rows)
    BY <2>1, MovieListIs
  <2>2. ASSUME NEW e \in ToSet(player.got), Cardinality(RowsOf(e.id)) = 1 PROVE Resolves(e)
    <3>1. PICK i \in DoneIn(rows, Movies) : e = MediaEntry(movies, rows[i])
      BY <2>1, <2>2, <2>4, ShownIsListed
    <3> QED
      BY <2>1, <2>2, <3>1, OneTorrentResolves
  <2>3. ASSUME player.protocol = "dlna" PROVE ObjectsResolve
    <3> DEFINE es == EntriesIn(movies, rows, Movies)
    <3>1. player.got = es /\ entries(list_movies) = es
      BY <2>1, <2>3, ListedBridge DEF View
    <3>2. es \in Seq(EntryType)
      BY <2>1, <2>4, EntriesAre
    <3> HIDE DEF es, EntryType
    <3>3. ASSUME NEW i \in DOMAIN es PROVE browse_metadata(es, i) = {es[i]}
      <4>1. i # Root
        BY <3>2 DEF Root
      <4>2. {p \in DirectoryEntries(es) : p[1] = i} = {<<i, es[i]>>}
        BY DEF DirectoryEntries
      <4>3. browse_metadata(es, i) = {o[2] : o \in {<<i, es[i]>>}}
        BY <4>1, <4>2 DEF browse_metadata
      <4>4. \A x : {o[2] : o \in {<<i, x>>}} = {x}
        OBVIOUS
      <4> QED
        BY <4>3, <4>4
    <3>4. ASSUME NEW o \in DirectoryEntries(es) PROVE browse_metadata(es, o[1]) = {o[2]}
      <4>1. PICK i \in DOMAIN es : o = <<i, es[i]>>
        BY DEF DirectoryEntries
      <4> QED
        BY <3>3, <4>1
    <3> QED
      BY <3>1, <3>4 DEF ObjectsResolve
  <2> QED
    BY <2>2, <2>3
<1> QED
  BY <1>1, SurfaceInvariant, PTL

\* PATCH changes the limits it names and keeps the others, and goes to the torrent it
\* has read, as long as no other request for the movie's limits, and no new torrent of
\* the movie, comes between its read and its write.
THEOREM PatchesKeepOtherLimits == Spec => []LimitsAsAsked
<1>1. SurfaceInv => LimitsAsAsked
  BY DEF SurfaceInv
<1> QED
  BY <1>1, SurfaceInvariant, PTL
=============================================================================
