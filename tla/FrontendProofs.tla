------------------------------ MODULE FrontendProofs ------------------------------
(***************************************************************************)
(* Theorems about what the browser keeps on the screen: of MediaFeed, for  *)
(* any number of items and any size of a page, and of Polling, for any     *)
(* number of reloads, controllers and changes.                             *)
(***************************************************************************)
EXTENDS MediaFeed, FiniteSetTheorems, TLAPS

(* m lies farther in the direction d than p does.                          *)
Ahead(d, m, p) == IF d = "newer" THEN m > p ELSE m < p

Pages == [items : SUBSET Items, more : BOOLEAN]

-----------------------------------------------------------------------------
(* Sets of items, sorted.                                                  *)

LEMMA ItemSets ==
    ASSUME NEW S \in SUBSET Items
    PROVE  IsFiniteSet(S) /\ Cardinality(S) \in Nat /\ S \subseteq Int
<1>1. Places \in Nat /\ IsFiniteSet(1..Places)
  BY FeedAssumption, FS_Interval
<1>2. IsFiniteSet(S)
  BY <1>1, FS_Subset DEF Items
<1> QED
  BY <1>1, <1>2, FS_CardinalityType DEF Items

(* The items from n on are more than those from a newer one on.            *)
LEMMA Ranks ==
    ASSUME NEW S \in SUBSET Items
    PROVE  /\ \A m \in S : Cardinality({k \in S : k >= m}) \in 1..Cardinality(S)
           /\ \A m, n \in S : m > n => Cardinality({k \in S : k >= m}) < Cardinality({k \in S : k >= n})
<1> DEFINE From(m) == {k \in S : k >= m}
<1>0. IsFiniteSet(S) /\ Cardinality(S) \in Nat /\ S \subseteq Int
  BY ItemSets
<1>1. \A m \in S : From(m) \in SUBSET S /\ m \in From(m)
  BY <1>0
<1>2. ASSUME NEW m \in S
      PROVE  IsFiniteSet(From(m)) /\ Cardinality(From(m)) \in 1..Cardinality(S)
  <2>1. IsFiniteSet(From(m)) /\ Cardinality(From(m)) =< Cardinality(S) /\ Cardinality(From(m)) \in Nat
    BY <1>0, <1>1, FS_Subset, ItemSets
  <2>2. Cardinality(From(m)) # 0
    BY <1>1, <2>1, FS_EmptySet
  <2> QED
    BY <1>0, <2>1, <2>2
<1>3. ASSUME NEW m \in S, NEW n \in S, m > n PROVE Cardinality(From(m)) < Cardinality(From(n))
  <2>0. m \in Int /\ n \in Int /\ \A k \in S : k \in Int
    BY <1>0
  <2>1. From(m) \in SUBSET From(n) /\ n \notin From(m) /\ n \in From(n)
    <3>1. \A k \in S : k >= m => k >= n
      BY <1>3, <2>0
    <3>2. ~(n >= m) /\ n >= n
      BY <1>3, <2>0
    <3> QED
      BY <3>1, <3>2
  <2>2. Cardinality(From(m)) =< Cardinality(From(n)) /\ Cardinality(From(m)) # Cardinality(From(n))
    BY <1>2, <2>1, FS_Subset
  <2> QED
    BY <1>0, <1>2, <2>2
<1> QED
  BY <1>2, <1>3

LEMMA SortedExists ==
    ASSUME NEW S \in SUBSET Items
    PROVE  \E s \in [1..Cardinality(S) -> S] :
              \A i, j \in 1..Cardinality(S) : i < j => s[i] > s[j]
<1> DEFINE C == Cardinality(S)
           rank == [m \in S |-> Cardinality({k \in S : k >= m})]
<1>0. IsFiniteSet(S) /\ C \in Nat /\ S \subseteq Int
  BY ItemSets
<1>1. rank \in [S -> 1..C] /\ \A m, n \in S : m > n => rank[m] < rank[n]
  BY Ranks
<1> HIDE DEF rank
<1>2. rank \in Injection(S, 1..C)
  <2>1. ASSUME NEW m \in S, NEW n \in S, m # n PROVE rank[m] # rank[n]
    <3>1. m > n \/ n > m
      BY <1>0, <2>1
    <3> QED
      BY <1>0, <1>1, <3>1
  <2> QED
    BY <1>1, <2>1 DEF Injection, IsInjective
<1>3. IsFiniteSet(1..C) /\ Cardinality(1..C) = C
  BY <1>0, FS_Interval
<1>4. rank \in Surjection(S, 1..C)
  BY <1>2, <1>3, FS_Injection
<1>5. \A i \in 1..C : \E m \in S : rank[m] = i
  BY <1>4 DEF Surjection
<1> DEFINE s == [i \in 1..C |-> CHOOSE m \in S : rank[m] = i]
<1>6. \A i \in 1..C : s[i] \in S /\ rank[s[i]] = i
  BY <1>5
<1>7. s \in [1..C -> S]
  BY <1>6
<1> HIDE DEF s
<1>8. ASSUME NEW i \in 1..C, NEW j \in 1..C, i < j PROVE s[i] > s[j]
  <2>1. s[i] \in S /\ s[j] \in S /\ rank[s[i]] = i /\ rank[s[j]] = j
    BY <1>6
  <2>2. ~(s[j] > s[i]) /\ s[i] # s[j]
    BY <1>1, <1>8, <2>1
  <2>3. s[i] \in Int /\ s[j] \in Int
    BY <1>0, <2>1
  <2> QED
    BY <2>2, <2>3
<1> QED
  BY <1>7, <1>8

(* NewestFirst lists the items of a set, each once and newer ones first.   *)
LEMMA Sorted ==
    ASSUME NEW S \in SUBSET Items
    PROVE  /\ NewestFirst(S) \in Seq(Items) /\ Len(NewestFirst(S)) = Cardinality(S)
           /\ \A i \in 1..Cardinality(S) : NewestFirst(S)[i] \in S
           /\ \A i, j \in 1..Cardinality(S) : i < j => NewestFirst(S)[i] > NewestFirst(S)[j]
           /\ \A m \in S : \E i \in 1..Cardinality(S) : NewestFirst(S)[i] = m
<1> DEFINE C == Cardinality(S)
           s == NewestFirst(S)
<1>0. IsFiniteSet(S) /\ C \in Nat /\ S \subseteq Int
  BY ItemSets
<1>1. s \in [1..C -> S] /\ \A i, j \in 1..C : i < j => s[i] > s[j]
  BY SortedExists DEF NewestFirst
<1> HIDE DEF s
<1>2. s \in Injection(1..C, S)
  <2>1. ASSUME NEW i \in 1..C, NEW j \in 1..C, i # j PROVE s[i] # s[j]
    <3>1. i < j \/ j < i
      BY <1>0, <2>1
    <3>2. s[i] \in Int /\ s[j] \in Int
      BY <1>0, <1>1
    <3> QED
      BY <1>1, <3>1, <3>2
  <2> QED
    BY <1>1, <2>1 DEF Injection, IsInjective
<1>3. Cardinality(1..C) = C
  BY <1>0, FS_Interval
<1>4. s \in Surjection(1..C, S)
  BY <1>0, <1>2, <1>3, FS_Injection
<1>5. \A m \in S : \E i \in 1..C : s[i] = m
  BY <1>4 DEF Surjection
<1>6. s \in Seq(Items) /\ Len(s) = C
  <2>1. s \in [1..C -> Items]
    BY <1>1
  <2> QED
    BY <1>0, <2>1
<1> QED
  BY <1>1, <1>5, <1>6 DEF s

(* The place of an item is how many there are from it on.                  *)
LEMMA PlaceOf ==
    ASSUME NEW S \in SUBSET Items, NEW m \in S
    PROVE  /\ Cardinality({k \in S : k >= m}) \in 1..Cardinality(S)
           /\ NewestFirst(S)[Cardinality({k \in S : k >= m})] = m
<1> DEFINE C == Cardinality(S)
           s == NewestFirst(S)
           From == {k \in S : k >= m}
<1>0. IsFiniteSet(S) /\ C \in Nat /\ S \subseteq Int
  BY ItemSets
<1>1. /\ \A i \in 1..C : s[i] \in S
      /\ \A i, j \in 1..C : i < j => s[i] > s[j]
      /\ \A k \in S : \E i \in 1..C : s[i] = k
  BY Sorted
<1> HIDE DEF s
<1>2. PICK i \in 1..C : s[i] = m
  BY <1>1
<1> DEFINE upto == [j \in 1..i |-> s[j]]
<1>3. ASSUME NEW j \in 1..i PROVE s[j] \in From /\ j \in 1..C
  <2>1. j \in 1..C /\ (j < i \/ j = i)
    BY <1>0, <1>2
  <2>2. s[j] \in S /\ (s[j] > m \/ s[j] = m)
    BY <1>1, <1>2, <2>1
  <2>3. s[j] \in Int /\ m \in Int
    BY <1>0, <2>2
  <2>4. s[j] >= m
    BY <2>2, <2>3
  <2> QED
    BY <2>1, <2>2, <2>4
<1>4. ASSUME NEW k \in From PROVE \E j \in 1..i : s[j] = k
  <2>1. PICK j \in 1..C : s[j] = k
    BY <1>1
  <2>2. ~(i < j)
    BY <1>0, <1>1, <1>2, <2>1
  <2> QED
    BY <1>0, <1>2, <2>1, <2>2
<1>5. upto \in [1..i -> From]
  BY <1>3
<1>6. \A a, b \in 1..i : upto[a] = upto[b] => a = b
  <2> SUFFICES ASSUME NEW a \in 1..i, NEW b \in 1..i, s[a] = s[b] PROVE a = b
    OBVIOUS
  <2>1. a \in 1..C /\ b \in 1..C /\ s[a] \in Int /\ s[b] \in Int
    BY <1>0, <1>1, <1>3
  <2> QED
    BY <1>1, <2>1
<1>7. \A k \in From : \E j \in 1..i : upto[j] = k
  BY <1>4
<1> HIDE DEF upto, From
<1>8. upto \in Bijection(1..i, From)
  BY <1>5, <1>6, <1>7 DEF Bijection, Injection, Surjection, IsInjective
<1>9. IsFiniteSet(1..i) /\ Cardinality(1..i) = i
  BY <1>0, <1>2, FS_Interval
<1>10. Cardinality(From) = i
  BY <1>8, <1>9, FS_Bijection DEF ExistsBijection
<1> QED
  BY <1>2, <1>10 DEF From, s

(* A set of items has a newest and an oldest one.                          *)
LEMMA Ends ==
    ASSUME NEW S \in SUBSET Items, S # {}
    PROVE  /\ \E m \in S : \A k \in S : m >= k
           /\ \E m \in S : \A k \in S : m =< k
<1> DEFINE C == Cardinality(S)
           s == NewestFirst(S)
<1>0. IsFiniteSet(S) /\ C \in Nat /\ S \subseteq Int
  BY ItemSets
<1>1. C # 0
  BY <1>0, FS_EmptySet
<1>2. /\ \A i \in 1..C : s[i] \in S
      /\ \A i, j \in 1..C : i < j => s[i] > s[j]
      /\ \A k \in S : \E i \in 1..C : s[i] = k
  BY Sorted
<1> HIDE DEF s
<1>3. 1 \in 1..C /\ C \in 1..C
  BY <1>0, <1>1
<1>4. ASSUME NEW k \in S PROVE s[1] >= k /\ s[C] =< k
  <2>1. PICK i \in 1..C : s[i] = k
    BY <1>2
  <2>2. s[1] \in Int /\ s[C] \in Int /\ k \in Int
    BY <1>0, <1>2, <1>3
  <2>3. CASE 1 < i
    BY <1>2, <1>3, <2>1, <2>2, <2>3
  <2>4. i = 1 \/ 1 < i
    BY <1>0
  <2>5. i = C \/ i < C
    BY <1>0
  <2>6. s[1] >= k
    BY <1>2, <1>3, <2>1, <2>2, <2>4
  <2>7. s[C] =< k
    BY <1>2, <1>3, <2>1, <2>2, <2>5
  <2> QED
    BY <2>6, <2>7
<1> QED
  BY <1>2, <1>3, <1>4

(* What PageBeyond says of what is stored: it is on the page, or behind    *)
(* it.  A page that has more behind it is not empty, if one was asked for. *)
LEMMA PageFacts ==
    ASSUME stored \subseteq Items, NEW d \in Directions, NEW p \in Items, NEW n \in Int
    PROVE  /\ PageBeyond(d, p, n) \in Pages
           /\ \A m \in PageBeyond(d, p, n).items : Ahead(d, m, p)
           /\ \A m \in stored : Ahead(d, m, p) =>
                 \/ m \in PageBeyond(d, p, n).items
                 \/ /\ PageBeyond(d, p, n).more
                    /\ \A k \in PageBeyond(d, p, n).items : Ahead(d, m, k)
           /\ n >= 1 /\ PageBeyond(d, p, n).more => PageBeyond(d, p, n).items # {}
<1> DEFINE S == Beyond(d, p)
           Nearer(m) == {k \in S : IF d = "newer" THEN k < m ELSE k > m}
           N == Nearest(d, S, n)
<1>1. S \in SUBSET Items /\ \A m \in S : Ahead(d, m, p)
  BY DEF Beyond, Ahead
<1>2. \A m \in stored : Ahead(d, m, p) => m \in S
  BY DEF Beyond, Ahead
<1> HIDE DEF S
<1>0. IsFiniteSet(S) /\ Cardinality(S) \in Nat /\ (\A m \in S : m \in Int)
  BY <1>1, ItemSets
<1>3. \A m \in S : m \in N <=> Cardinality(Nearer(m)) < n
  BY DEF Nearest
<1>4. N \in SUBSET S
  BY DEF Nearest
<1>5. ASSUME NEW m \in S PROVE Nearer(m) \in SUBSET S /\ m \notin Nearer(m)
                               /\ IsFiniteSet(Nearer(m)) /\ Cardinality(Nearer(m)) \in Nat
  <2>1. ~(m < m) /\ ~(m > m)
    BY <1>0
  <2>2. Nearer(m) \in SUBSET S /\ m \notin Nearer(m)
    BY <2>1
  <2> QED
    BY <1>1, <2>2, ItemSets
<1>6. ASSUME NEW m \in S, m \notin N
      PROVE  Cardinality(S) > n /\ \A k \in N : Ahead(d, m, k)
  <2>1. ~(Cardinality(Nearer(m)) < n) /\ Cardinality(Nearer(m)) \in Nat
    BY <1>3, <1>5, <1>6
  <2>2. Cardinality(Nearer(m)) =< Cardinality(S) /\ Cardinality(Nearer(m)) # Cardinality(S)
    BY <1>0, <1>5, FS_Subset
  <2>3. Cardinality(S) > n
    BY <1>0, <2>1, <2>2
  <2>4. ASSUME NEW k \in N PROVE Ahead(d, m, k)
    <3>1. k \in S /\ Cardinality(Nearer(k)) < n /\ k # m /\ m \in Int /\ k \in Int
      BY <1>0, <1>3, <1>4, <1>6
    <3>2. CASE ~Ahead(d, m, k)
      <4>1. \A j \in S : IF d = "newer" THEN j < m => j < k ELSE j > m => j > k
        BY <1>0, <3>1, <3>2 DEF Ahead
      <4>2. Nearer(m) \in SUBSET Nearer(k)
        BY <4>1
      <4>3. Cardinality(Nearer(m)) =< Cardinality(Nearer(k))
        BY <1>5, <3>1, <4>2, FS_Subset
      <4>4. Cardinality(Nearer(k)) \in Nat
        BY <1>5, <3>1
      <4> QED
        BY <2>1, <3>1, <4>3, <4>4
    <3> QED
      BY <3>2
  <2> QED
    BY <2>3, <2>4
<1>7. ASSUME n >= 1, S # {} PROVE N # {}
  <2>1. PICK m \in S : \A k \in S : IF d = "newer" THEN m =< k ELSE m >= k
    BY <1>1, <1>7, Ends
  <2>2. \A k \in S : ~(IF d = "newer" THEN k < m ELSE k > m)
    BY <1>0, <2>1
  <2>3. Nearer(m) = {}
    BY <2>2
  <2>4. Cardinality(Nearer(m)) = 0
    BY <2>3, FS_EmptySet
  <2> QED
    BY <1>3, <1>7, <2>4
<1>8. PageBeyond(d, p, n) = [items |-> N, more |-> Cardinality(S) > n]
  BY DEF PageBeyond, S
<1> HIDE DEF N, Nearer
<1>9. n >= 1 /\ Cardinality(S) > n => S # {}
  BY FS_EmptySet
<1>10. (Cardinality(S) > n) \in BOOLEAN
  BY <1>0
<1>11. PageBeyond(d, p, n) \in Pages
  BY <1>1, <1>4, <1>8, <1>10 DEF Pages
<1>12. PageBeyond(d, p, n).items = N /\ PageBeyond(d, p, n).more = (Cardinality(S) > n)
  BY <1>8
<1>13. \A m \in N : Ahead(d, m, p)
  BY <1>1, <1>4
<1>14. \A m \in stored : Ahead(d, m, p) => m \in N \/ (Cardinality(S) > n /\ \A k \in N : Ahead(d, m, k))
  BY <1>2, <1>6
<1> QED
  BY <1>7, <1>9, <1>11, <1>12, <1>13, <1>14

(* A cursor is the farthest item of its page.                              *)
LEMMA CursorFacts ==
    ASSUME NEW d \in Directions, NEW page \in Pages
    PROVE  IF page.more /\ page.items # {}
           THEN /\ CursorAfter(d, page) \in page.items /\ CursorAfter(d, page) \in Items
                /\ CursorAfter(d, page) # Nothing
                /\ \A k \in page.items : k # CursorAfter(d, page) => Ahead(d, CursorAfter(d, page), k)
           ELSE CursorAfter(d, page) = Nothing
<1>1. CASE page.more /\ page.items # {}
  <2> DEFINE Far(m) == \A k \in page.items : IF d = "newer" THEN m >= k ELSE m =< k
             c == CHOOSE m \in page.items : Far(m)
  <2>1. page.items \in SUBSET Items
    BY DEF Pages
  <2>2. \E m \in page.items : Far(m)
    BY <1>1, <2>1, Ends
  <2>3. c \in page.items /\ Far(c)
    BY <2>2
  <2>4. CursorAfter(d, page) = c
    BY <1>1 DEF CursorAfter
  <2> HIDE DEF c
  <2>5. c \in Items /\ c # Nothing /\ \A k \in page.items : k \in Int
    BY <2>1, <2>3 DEF Items, Nothing
  <2>6. ASSUME NEW k \in page.items, k # c PROVE Ahead(d, c, k)
    BY <2>3, <2>5, <2>6 DEF Ahead
  <2> QED
    BY <1>1, <2>3, <2>4, <2>5, <2>6
<1>2. CASE ~(page.more /\ page.items # {})
  BY <1>2 DEF CursorAfter
<1> QED
  BY <1>1, <1>2

(* The first of a sorted set is the newest, the last the oldest.           *)
LEMMA FirstAndLast ==
    ASSUME NEW S \in SUBSET Items, S # {}
    PROVE  /\ Len(NewestFirst(S)) >= 1
           /\ NewestFirst(S)[1] \in S /\ \A k \in S : NewestFirst(S)[1] >= k
           /\ Last(NewestFirst(S)) \in S /\ \A k \in S : Last(NewestFirst(S)) =< k
<1> DEFINE C == Cardinality(S)
           s == NewestFirst(S)
<1>0. IsFiniteSet(S) /\ C \in Nat /\ S \subseteq Int
  BY ItemSets
<1>1. C # 0
  BY <1>0, FS_EmptySet
<1>2. /\ s \in Seq(Items) /\ Len(s) = C
      /\ \A i \in 1..C : s[i] \in S
      /\ \A i, j \in 1..C : i < j => s[i] > s[j]
      /\ \A k \in S : \E i \in 1..C : s[i] = k
  BY Sorted
<1> HIDE DEF s
<1>3. 1 \in 1..C /\ C \in 1..C /\ Last(s) = s[C]
  BY <1>0, <1>1, <1>2 DEF Last
<1>4. ASSUME NEW k \in S PROVE s[1] >= k /\ s[C] =< k
  <2>1. PICK i \in 1..C : s[i] = k
    BY <1>2
  <2>2. s[1] \in Int /\ s[C] \in Int /\ k \in Int
    BY <1>0, <1>2, <1>3
  <2>3. (i = 1 \/ 1 < i) /\ (i = C \/ i < C)
    BY <1>0
  <2>4. s[1] >= k
    BY <1>2, <1>3, <2>1, <2>2, <2>3
  <2>5. s[C] =< k
    BY <1>2, <1>3, <2>1, <2>2, <2>3
  <2> QED
    BY <2>4, <2>5
<1> QED
  BY <1>0, <1>1, <1>2, <1>3, <1>4 DEF s

LEMMA SortedSet ==
    ASSUME NEW S \in SUBSET Items
    PROVE  ToSet(NewestFirst(S)) = S
<1>1. DOMAIN NewestFirst(S) = 1..Cardinality(S)
  BY Sorted
<1> QED
  BY <1>1, Sorted DEF ToSet

(* One list before another.                                                *)
LEMMA Joined ==
    ASSUME NEW s \in Seq(Items), NEW t \in Seq(Items)
    PROVE  /\ s \o t \in Seq(Items) /\ Len(s \o t) = Len(s) + Len(t)
           /\ \A i \in 1..Len(s) : (s \o t)[i] = s[i]
           /\ \A i \in 1..Len(t) : (s \o t)[Len(s) + i] = t[i]
           /\ ToSet(s \o t) = ToSet(s) \union ToSet(t)
           /\ \A i \in 1..Len(s \o t) :
                 \/ i \in 1..Len(s) /\ (s \o t)[i] = s[i]
                 \/ i - Len(s) \in 1..Len(t) /\ (s \o t)[i] = t[i - Len(s)] /\ i > Len(s)
<1> DEFINE st == s \o t
           M == Len(s)
           N == Len(t)
<1>1. /\ M \in Nat /\ N \in Nat /\ Len(st) = M + N /\ st \in Seq(Items)
      /\ DOMAIN s = 1..M /\ DOMAIN t = 1..N /\ DOMAIN st = 1..(M + N)
  OBVIOUS
<1>2. \A i \in 1..(M + N) : st[i] = IF i =< M THEN s[i] ELSE t[i - M]
  OBVIOUS
<1> HIDE DEF st, M, N
<1>3. (\A i \in 1..M : st[i] = s[i] /\ i \in 1..(M + N)) /\ (\A i \in 1..N : st[M + i] = t[i] /\ M + i \in 1..(M + N))
  <2>1. ASSUME NEW i \in 1..N PROVE st[M + i] = t[i] /\ M + i \in 1..(M + N)
    <3>1. M + i \in 1..(M + N) /\ ~(M + i =< M) /\ (M + i) - M = i
      BY <1>1
    <3> QED
      BY <1>2, <3>1
  <2>2. ASSUME NEW i \in 1..M PROVE st[i] = s[i] /\ i \in 1..(M + N)
    <3>1. i \in 1..(M + N) /\ i =< M
      BY <1>1
    <3> QED
      BY <1>2, <3>1
  <2> QED
    BY <2>1, <2>2
<1>4. \A i \in 1..(M + N) : (i \in 1..M /\ st[i] = s[i]) \/ (i - M \in 1..N /\ st[i] = t[i - M] /\ i > M)
  <2> SUFFICES ASSUME NEW i \in 1..(M + N)
               PROVE  (i \in 1..M /\ st[i] = s[i]) \/ (i - M \in 1..N /\ st[i] = t[i - M] /\ i > M)
    OBVIOUS
  <2>1. CASE i =< M
    BY <1>1, <1>2, <2>1
  <2>2. CASE ~(i =< M)
    BY <1>1, <1>2, <2>2
  <2> QED
    BY <2>1, <2>2
<1>5. ToSet(st) = ToSet(s) \union ToSet(t)
  <2>1. ToSet(st) \subseteq ToSet(s) \union ToSet(t)
    BY <1>1, <1>4 DEF ToSet
  <2>2. ToSet(s) \subseteq ToSet(st) /\ ToSet(t) \subseteq ToSet(st)
    BY <1>1, <1>3 DEF ToSet
  <2> QED
    BY <2>1, <2>2
<1>6. \A i \in 1..Len(st) : (i \in 1..M /\ st[i] = s[i]) \/ (i - M \in 1..N /\ st[i] = t[i - M] /\ i > M)
  BY <1>1, <1>4
<1>7. /\ st \in Seq(Items) /\ Len(st) = M + N
      /\ \A i \in 1..M : st[i] = s[i]
      /\ \A i \in 1..N : st[M + i] = t[i]
  BY <1>1, <1>3
<1> QED
  BY <1>5, <1>6, <1>7, Zenon DEF st, M, N

LEMMA JoinedInOrder ==
    ASSUME NEW s \in Seq(Items), NEW t \in Seq(Items),
           \A i, j \in 1..Len(s) : i < j => s[i] > s[j],
           \A i, j \in 1..Len(t) : i < j => t[i] > t[j],
           \A x \in ToSet(s), y \in ToSet(t) : x > y
    PROVE  \A i, j \in 1..Len(s \o t) : i < j => (s \o t)[i] > (s \o t)[j]
<1> DEFINE st == s \o t
           M == Len(s)
           N == Len(t)
<1>1. /\ M \in Nat /\ N \in Nat /\ Len(st) = M + N
      /\ DOMAIN s = 1..M /\ DOMAIN t = 1..N
  BY Joined
<1>2. /\ \A i \in 1..(M + N) : (i \in 1..M /\ st[i] = s[i]) \/ (i - M \in 1..N /\ st[i] = t[i - M] /\ i > M)
      /\ \A i \in 1..M : st[i] = s[i]
  BY <1>1, Joined
<1> HIDE DEF st
<1>3. ASSUME NEW i \in 1..(M + N), NEW j \in 1..(M + N), i < j
      PROVE  st[i] > st[j]
  <2>1. CASE i \in 1..M /\ j \in 1..M
    BY <1>2, <1>3, <2>1
  <2>2. CASE i \in 1..M /\ j - M \in 1..N /\ st[j] = t[j - M]
    <3>1. st[i] \in ToSet(s) /\ st[j] \in ToSet(t)
      BY <1>1, <1>2, <2>2 DEF ToSet
    <3> QED
      BY <3>1
  <2>3. CASE i - M \in 1..N /\ j - M \in 1..N /\ st[i] = t[i - M] /\ st[j] = t[j - M]
    <3>1. i - M < j - M
      BY <1>1, <1>3
    <3> QED
      BY <2>3, <3>1
  <2>4. i > M => ~(j \in 1..M)
    BY <1>1, <1>3
  <2> QED
    BY <1>2, <2>1, <2>2, <2>3, <2>4
<1> QED
  BY <1>1, <1>3 DEF st

-----------------------------------------------------------------------------
(* The inductive invariant.                                                *)

Openings == [anchor : Items, step : {"anchor", "newer", "older", "again", "sent"},
             newer : Pages, older : Pages]
Feeds    == [items : Seq(Items), newer : Items \union {Nothing}, older : Items \union {Nothing}]
Loads    == [generation : 1..MaxOpens, direction : Directions, cursor : Items,
             page : SUBSET Pages, stray : BOOLEAN]
Errors   == [direction : Directions, cursor : Items, stray : BOOLEAN]

FeedTypes ==
    /\ stored \subseteq Items /\ kept \subseteq stored
    /\ generation \in 0..MaxOpens /\ changes \in 0..MaxChanges /\ failures \in 0..MaxFailures
    /\ current \in BOOLEAN /\ mixed \in BOOLEAN
    /\ failed \subseteq Directions \X Items /\ watched \in Items \union {Nothing}
    /\ opening = {} \/ \E o \in Openings : opening = {o}
    /\ feed = {} \/ \E f \in Feeds : feed = {f} /\ active \in 1..Len(f.items)
    /\ opening # {} => generation > 0 /\ ~current
    /\ feed # {} => generation > 0
    /\ loads \subseteq Loads
    /\ \A l \in loads : l.generation =< generation
    /\ pageError \subseteq Errors
    /\ pageError # {} => generation > 0

(* A page read beyond p, then or now: what has been there all the time is  *)
(* on it or behind it.                                                     *)
Covers(d, p, page) ==
    /\ \A m \in page.items : Ahead(d, m, p)
    /\ \A m \in kept :
          Ahead(d, m, p) => \/ m \in page.items
                            \/ page.more /\ \A k \in page.items : Ahead(d, m, k)

(* So do the halves of a window that were read.                            *)
Halved(o) ==
    /\ o.step \in {"older", "again", "sent"} => Covers("newer", o.anchor, o.newer)
    /\ o.step \in {"again", "sent"} => Covers("older", o.anchor, o.older)

(* The feed on the screen, whose cursors are its ends.                     *)
Whole(f) ==
    /\ Ordered(f) /\ NoneMissing(f) /\ f.items[active] = watched
    /\ f.newer # Nothing => f.newer = f.items[1]
    /\ f.older # Nothing => f.older = Last(f.items)

(* What a page that was read, and is under way, brings.                    *)
Served(l) ==
    \A page \in l.page :
        /\ page.more => page.items # {}
        /\ l.generation = generation => Covers(l.direction, l.cursor, page)

(* It goes on from an end of the feed on the screen, unless it was asked   *)
(* for beyond a cursor of another; no other page is under way there.       *)
Continues(d, cursor, stray) ==
    ~stray => current /\ (~mixed => \A f \in feed : cursor = f[d])

GoesOn(l) == l.generation = generation => Continues(l.direction, l.cursor, l.stray)

(* Nor is one while the button is there that asks for it.                  *)
Fits(e) == Continues(e.direction, e.cursor, e.stray) /\ ~UnderWay(e.direction, e.cursor)

Apart ==
    \A l, k \in loads :
        l.generation = k.generation /\ l.direction = k.direction /\ l.cursor = k.cursor => l = k

Inv ==
    /\ FeedTypes
    /\ \A o \in opening : Halved(o)
    /\ \A l \in loads : Served(l) /\ GoesOn(l)
    /\ \A e \in pageError : Fits(e)
    /\ Apart
    /\ current /\ ~mixed => \A f \in feed : Whole(f)

LEMMA Bounds ==
    ASSUME Inv
    PROVE  /\ Places \in Nat /\ Limit \in Nat \ {0} /\ Items \subseteq Nat \ {0} /\ Nothing = 0
           /\ MaxOpens \in Nat /\ MaxChanges \in Nat /\ MaxFailures \in Nat
           /\ generation \in Nat /\ changes \in Nat /\ failures \in Nat
           /\ \A o \in opening : o \in Openings /\ opening = {o}
           /\ \A f \in feed : f \in Feeds /\ feed = {f} /\ active \in 1..Len(f.items)
           /\ \A l \in loads : l \in Loads /\ Served(l) /\ GoesOn(l)
           /\ \A e \in pageError : e \in Errors /\ Fits(e)
  BY FeedAssumption DEF Inv, FeedTypes, Items, Nothing

LEMMA TypesAreRight == ASSUME Inv PROVE TypeOK
<1>1. Cardinality(opening) =< 1 /\ Cardinality(feed) =< 1
  <2>1. ASSUME NEW S, S = {} \/ \E x \in S : S = {x} PROVE Cardinality(S) =< 1
    BY <2>1, FS_EmptySet, FS_Singleton
  <2>2. (opening = {} \/ \E o \in opening : opening = {o}) /\ (feed = {} \/ \E f \in feed : feed = {f})
    BY Bounds
  <2> QED
    BY <2>1, <2>2
<1>2. \A f \in feed :
         /\ f.items \in Seq(Items)
         /\ f.newer \in Items \union {Nothing} /\ f.older \in Items \union {Nothing}
         /\ active \in 1..Len(f.items)
  BY Bounds DEF Feeds
<1>3. \A o \in opening :
         o \in [anchor : Items, step : {"anchor", "newer", "older", "again", "sent"},
                newer : [items : SUBSET Items, more : BOOLEAN], older : [items : SUBSET Items, more : BOOLEAN]]
  BY Bounds DEF Openings, Pages
<1>4. ASSUME NEW l \in loads
      PROVE  /\ l.generation \in 1..generation /\ l.direction \in Directions /\ l.cursor \in Items
             /\ l.page \subseteq [items : SUBSET Items, more : BOOLEAN] /\ l.stray \in BOOLEAN
  <2>1. l \in Loads /\ l.generation =< generation /\ generation \in Nat
    BY Bounds DEF Inv, FeedTypes
  <2> QED
    BY <2>1 DEF Loads, Pages
<1> QED
  BY <1>1, <1>2, <1>3, <1>4 DEF TypeOK, Inv, FeedTypes, Errors

LEMMA InitInv == Init => Inv
<1> SUFFICES ASSUME Init PROVE Inv
  OBVIOUS
<1>1. FeedTypes
  <2>1. generation \in 0..MaxOpens /\ changes \in 0..MaxChanges /\ failures \in 0..MaxFailures
    BY FeedAssumption DEF Init
  <2>2. stored \subseteq Items /\ kept \subseteq stored /\ failed \subseteq Directions \X Items
    BY DEF Init
  <2>3. current \in BOOLEAN /\ mixed \in BOOLEAN /\ watched \in Items \union {Nothing}
    BY DEF Init
  <2> QED
    BY <2>1, <2>2, <2>3 DEF Init, FeedTypes
<1> QED
  BY <1>1 DEF Init, Inv, Apart

(* While what is kept does not grow, a page covers what it covered.        *)
LEMMA StillCovers ==
    ASSUME kept' \subseteq kept, NEW d, NEW p, NEW page, Covers(d, p, page)
    PROVE  Covers(d, p, page)'
  BY DEF Covers

(* Steps that leave the feed on the screen and what is under way for it.   *)
Quiet ==
    /\ generation' = generation /\ feed' = feed /\ current' = current /\ active' = active
    /\ watched' = watched /\ mixed' = mixed /\ kept' \subseteq kept

LEMMA QuietFeed ==
    ASSUME Inv, Quiet
    PROVE  /\ (current /\ ~mixed => \A f \in feed : Whole(f))'
           /\ \A l \in loads : Served(l)' /\ GoesOn(l)'
<1>1. ASSUME current /\ ~mixed, NEW f \in feed PROVE Whole(f)'
  <2>1. Whole(f)
    BY <1>1 DEF Inv
  <2> QED
    BY <2>1 DEF Whole, Quiet, Ordered, NoneMissing
<1>2. ASSUME NEW l \in loads PROVE Served(l)' /\ GoesOn(l)'
  <2>1. Served(l) /\ GoesOn(l)
    BY DEF Inv
  <2>2. Served(l)'
    BY <2>1, StillCovers DEF Served, Quiet
  <2> QED
    BY <2>1, <2>2 DEF GoesOn, Continues, Quiet
<1> QED
  BY <1>1, <1>2 DEF Quiet

LEMMA QuietErrors ==
    ASSUME Inv, Quiet, pageError' \subseteq pageError,
           \A k \in loads' : \E l \in loads : /\ k.generation = l.generation
                                             /\ k.direction = l.direction /\ k.cursor = l.cursor
    PROVE  \A e \in pageError' : Fits(e)'
<1> SUFFICES ASSUME NEW e \in pageError' PROVE Fits(e)'
  OBVIOUS
<1>1. Fits(e)
  BY DEF Inv
<1> QED
  BY <1>1 DEF Fits, Continues, UnderWay, Quiet

LEMMA ChangeInv == ASSUME Inv, NEW m \in Items, Change(m) PROVE Inv'
<1>0. /\ changes < MaxChanges /\ changes' = changes + 1
      /\ stored' = IF m \in stored THEN stored \ {m} ELSE stored \union {m}
      /\ kept' = kept \ {m}
      /\ opening' = opening /\ loads' = loads /\ failed' = failed /\ failures' = failures /\ Quiet
      /\ pageError' = pageError
  BY DEF Change, screen, pages, Quiet
<1>1. FeedTypes'
  BY <1>0, Bounds DEF Inv, FeedTypes, Quiet
<1>2. \A o \in opening : Halved(o)'
  BY <1>0, StillCovers DEF Inv, Halved
<1>3. Apart'
  BY <1>0 DEF Inv, Apart
<1> QED
  BY <1>0, <1>1, <1>2, <1>3, QuietFeed, QuietErrors DEF Inv

LEMMA OpenInv == ASSUME Inv, NEW m \in Items, Open(m) PROVE Inv'
<1> DEFINE o == [anchor |-> m, step |-> "anchor", newer |-> [items |-> {}, more |-> FALSE],
                 older |-> [items |-> {}, more |-> FALSE]]
<1>0. /\ generation < MaxOpens /\ generation' = generation + 1 /\ opening' = {o} /\ current' = FALSE
      /\ failed' = {} /\ pageError' = {} /\ kept' = stored /\ mixed' = FALSE
      /\ stored' = stored /\ feed' = feed /\ active' = active /\ watched' = watched /\ loads' = loads
      /\ changes' = changes /\ failures' = failures
  BY DEF Open, bounds
<1>1. o \in Openings
  BY DEF Openings, Pages
<1>2. FeedTypes'
  <2>1. \A l \in loads : l.generation =< generation + 1
    BY Bounds DEF Inv, FeedTypes, Loads
  <2>2. generation + 1 \in 0..MaxOpens /\ generation + 1 > 0
    BY <1>0, Bounds
  <2> HIDE DEF o
  <2> QED
    BY <1>0, <1>1, <2>1, <2>2 DEF Inv, FeedTypes
<1>3. Halved(o)'
  BY DEF Halved
<1>4. ASSUME NEW l \in loads PROVE Served(l)' /\ GoesOn(l)'
  <2>1. l.generation # generation'
    BY <1>0, Bounds DEF Inv, FeedTypes, Loads
  <2> QED
    BY <2>1, Bounds DEF Served, GoesOn
<1>5. Apart'
  BY <1>0 DEF Inv, Apart
<1> QED
  BY <1>0, <1>2, <1>3, <1>4, <1>5 DEF Inv

(* The reads of a window.                                                  *)
LEMMA GoesInv ==
    ASSUME Inv, NEW o \in opening, NEW next \in Openings, Goes(o, next), Halved(next)
    PROVE  Inv'
<1>0. /\ opening' = {next} /\ stored' = stored /\ kept' = kept /\ loads' = loads /\ failed' = failed
      /\ changes' = changes /\ failures' = failures /\ pageError' = pageError /\ Quiet
  BY DEF Goes, screen, pages, bounds, Quiet
<1>1. FeedTypes'
  <2>1. opening # {}
    OBVIOUS
  <2> QED
    BY <1>0, <2>1 DEF Inv, FeedTypes, Quiet
<1>2. Halved(next)'
  BY <1>0, StillCovers DEF Halved
<1>3. Apart'
  BY <1>0 DEF Inv, Apart
<1> QED
  BY <1>0, <1>1, <1>2, <1>3, QuietFeed, QuietErrors DEF Inv

(* The page beyond p covers what is kept of the items stored now.          *)
LEMMA PageCovers ==
    ASSUME Inv, NEW d \in Directions, NEW p \in Items, NEW n \in Int
    PROVE  PageBeyond(d, p, n) \in Pages /\ Covers(d, p, PageBeyond(d, p, n))
<1>1. stored \subseteq Items /\ kept \subseteq stored
  BY DEF Inv, FeedTypes
<1> QED
  BY <1>1, PageFacts DEF Covers

LEMMA Sizes == ASSUME NEW page \in Pages PROVE Cardinality(page.items) \in Nat
  BY ItemSets DEF Pages

LEMMA ReadInv == ASSUME Inv, ReadAnchor \/ ReadNewer \/ ReadOlder \/ ReadAgain PROVE Inv'
<1>0. \A o \in opening : o \in Openings /\ Halved(o) /\ o.newer \in Pages /\ o.older \in Pages /\ o.anchor \in Items
  BY Bounds DEF Inv, Openings
<1>1. CASE ReadAnchor
  <2>1. PICK o \in opening : Goes(o, [o EXCEPT !.step = "newer"])
    BY <1>1 DEF ReadAnchor
  <2>2. [o EXCEPT !.step = "newer"] \in Openings /\ [o EXCEPT !.step = "newer"].step = "newer"
    BY <1>0 DEF Openings
  <2>3. Halved([o EXCEPT !.step = "newer"])
    BY <2>2 DEF Halved
  <2> QED
    BY <2>1, <2>2, <2>3, GoesInv
<1>2. CASE ReadNewer
  <2>1. PICK o \in opening :
           Goes(o, [o EXCEPT !.newer = PageBeyond("newer", o.anchor, (Limit - 1) \div 2), !.step = "older"])
    BY <1>2 DEF ReadNewer
  <2> DEFINE page == PageBeyond("newer", o.anchor, (Limit - 1) \div 2)
             next == [o EXCEPT !.newer = page, !.step = "older"]
  <2>2. (Limit - 1) \div 2 \in Int
    BY Bounds
  <2>3. page \in Pages /\ Covers("newer", o.anchor, page)
    BY <1>0, <2>2, PageCovers DEF Directions
  <2> HIDE DEF page
  <2>4. next \in Openings /\ next.step = "older" /\ next.newer = page /\ next.anchor = o.anchor
    BY <1>0, <2>3 DEF Openings
  <2> HIDE DEF next
  <2>5. Halved(next)
    BY <2>3, <2>4 DEF Halved
  <2> QED
    BY <2>1, <2>4, <2>5, GoesInv DEF next, page
<1>3. CASE ReadOlder
  <2>1. PICK o \in opening :
           LET n == Limit - 1 - Cardinality(o.newer.items)
               page == PageBeyond("older", o.anchor, n)
           IN  /\ o.step = "older"
               /\ Goes(o, [o EXCEPT !.older = page,
                                    !.step = IF Cardinality(page.items) < n THEN "again" ELSE "sent"])
    BY <1>3 DEF ReadOlder
  <2> DEFINE n == Limit - 1 - Cardinality(o.newer.items)
             page == PageBeyond("older", o.anchor, n)
             step == IF Cardinality(page.items) < n THEN "again" ELSE "sent"
             next == [o EXCEPT !.older = page, !.step = step]
  <2>2. n \in Int
    BY <1>0, Sizes, Bounds
  <2> HIDE DEF n
  <2>3. page \in Pages /\ Covers("older", o.anchor, page) /\ step \in {"again", "sent"}
    BY <1>0, <2>2, PageCovers DEF Directions
  <2>4. o.step = "older" /\ Goes(o, next)
    BY <2>1 DEF n
  <2> HIDE DEF page, step
  <2>5. /\ next \in Openings /\ next.step = step /\ next.older = page /\ next.anchor = o.anchor
        /\ next.newer = o.newer
    BY <1>0, <2>3 DEF Openings
  <2> HIDE DEF next
  <2>6. Halved(next)
    BY <1>0, <2>3, <2>4, <2>5 DEF Halved
  <2> QED
    BY <2>4, <2>5, <2>6, GoesInv
<1>4. CASE ReadAgain
  <2>1. PICK o \in opening :
           /\ o.step = "again"
           /\ Goes(o, [o EXCEPT !.newer = PageBeyond("newer", o.anchor, Limit - 1 - Cardinality(o.older.items)),
                                !.step = "sent"])
    BY <1>4 DEF ReadAgain
  <2> DEFINE n == Limit - 1 - Cardinality(o.older.items)
             page == PageBeyond("newer", o.anchor, n)
             next == [o EXCEPT !.newer = page, !.step = "sent"]
  <2>2. n \in Int
    BY <1>0, Sizes, Bounds
  <2> HIDE DEF n
  <2>3. page \in Pages /\ Covers("newer", o.anchor, page)
    BY <1>0, <2>2, PageCovers DEF Directions
  <2>4. o.step = "again" /\ Goes(o, next)
    BY <2>1 DEF n
  <2> HIDE DEF page
  <2>5. /\ next \in Openings /\ next.step = "sent" /\ next.newer = page /\ next.anchor = o.anchor
        /\ next.older = o.older
    BY <1>0, <2>3 DEF Openings
  <2> HIDE DEF next
  <2>6. Halved(next)
    BY <1>0, <2>3, <2>4, <2>5 DEF Halved
  <2> QED
    BY <2>4, <2>5, <2>6, GoesInv
<1> QED
  BY <1>1, <1>2, <1>3, <1>4

LEMMA FailToOpenInv == ASSUME Inv, FailToOpen PROVE Inv'
<1>0. /\ opening # {} /\ opening' = {} /\ stored' = stored /\ kept' = kept /\ loads' = loads /\ failed' = failed
      /\ changes' = changes /\ failures' \in 0..MaxFailures /\ pageError' = pageError /\ Quiet
  <2>1. failures' \in 0..MaxFailures
    BY Bounds DEF FailToOpen, Inv, FeedTypes
  <2> QED
    BY <2>1 DEF FailToOpen, screen, pages, Quiet
<1>1. FeedTypes'
  BY <1>0 DEF Inv, FeedTypes, Quiet
<1>2. Apart'
  BY <1>0 DEF Inv, Apart
<1> QED
  BY <1>0, <1>1, <1>2, QuietFeed, QuietErrors DEF Inv

(* The window is shown: its halves are on either side of the anchor.       *)
LEMMA ShowInv == ASSUME Inv, ShowWindow PROVE Inv'
<1>1. PICK o \in opening :
         /\ o.step = "sent" /\ active' = Cardinality({m \in Window(o) : m >= o.anchor}) /\ Show(o)
  BY DEF ShowWindow
<1> DEFINE W == Window(o)
           up == CursorAfter("newer", [items |-> W, more |-> o.newer.more])
           down == CursorAfter("older", [items |-> W, more |-> o.older.more])
           f == [items |-> NewestFirst(W), newer |-> up, older |-> down]
<1>0. /\ opening' = {} /\ feed' = {f} /\ current' = TRUE /\ watched' = o.anchor
      /\ stored' = stored /\ generation' = generation /\ loads' = loads /\ failed' = failed
      /\ changes' = changes /\ failures' = failures /\ kept' = kept /\ mixed' = mixed
      /\ pageError' = pageError
  BY <1>1 DEF Show, pages, bounds
<1>2. /\ o \in Openings /\ o.anchor \in Items /\ o.newer \in Pages /\ o.older \in Pages
      /\ Covers("newer", o.anchor, o.newer) /\ Covers("older", o.anchor, o.older)
  BY <1>1, Bounds DEF Inv, Openings, Halved
<1>3. /\ W \in SUBSET Items /\ W # {} /\ o.anchor \in W /\ (\A k \in W : k \in Int)
      /\ o.newer.items \subseteq W /\ o.older.items \subseteq W
  BY <1>2, Bounds DEF Window, Pages
<1>4. /\ NewestFirst(W) \in Seq(Items) /\ Len(NewestFirst(W)) = Cardinality(W)
      /\ \A i, j \in 1..Cardinality(W) : i < j => NewestFirst(W)[i] > NewestFirst(W)[j]
      /\ ToSet(NewestFirst(W)) = W
      /\ NewestFirst(W)[1] \in W /\ \A k \in W : NewestFirst(W)[1] >= k
      /\ Last(NewestFirst(W)) \in W /\ \A k \in W : Last(NewestFirst(W)) =< k
  BY <1>3, Sorted, SortedSet, FirstAndLast
<1>5. active' \in 1..Cardinality(W) /\ NewestFirst(W)[active'] = o.anchor
  BY <1>1, <1>3, PlaceOf
<1>6. ASSUME NEW d \in Directions, NEW more \in BOOLEAN
      PROVE  IF more
             THEN /\ CursorAfter(d, [items |-> W, more |-> more]) \in W
                  /\ CursorAfter(d, [items |-> W, more |-> more]) # Nothing
                  /\ \A k \in W : k # CursorAfter(d, [items |-> W, more |-> more])
                                     => Ahead(d, CursorAfter(d, [items |-> W, more |-> more]), k)
             ELSE CursorAfter(d, [items |-> W, more |-> more]) = Nothing
  <2> DEFINE page == [items |-> W, more |-> more]
  <2>1. page \in Pages /\ page.items = W /\ page.more = more
    BY <1>3 DEF Pages
  <2> HIDE DEF page
  <2>2. IF page.more /\ page.items # {}
        THEN /\ CursorAfter(d, page) \in page.items /\ CursorAfter(d, page) # Nothing
             /\ \A k \in page.items : k # CursorAfter(d, page) => Ahead(d, CursorAfter(d, page), k)
        ELSE CursorAfter(d, page) = Nothing
    BY <2>1, CursorFacts
  <2> QED
    BY <1>3, <2>1, <2>2 DEF page
<1>7. o.newer.more \in BOOLEAN /\ o.older.more \in BOOLEAN
  BY <1>2 DEF Pages
<1> HIDE DEF W
<1>8. /\ up \in W \union {Nothing} /\ (up # Nothing <=> o.newer.more)
      /\ (up # Nothing => up = NewestFirst(W)[1])
  <2>1. "newer" \in Directions
    BY DEF Directions
  <2>2. CASE o.newer.more
    <3>1. up \in W /\ up # Nothing /\ \A k \in W : k # up => up > k
      BY <1>6, <1>7, <2>1, <2>2 DEF Ahead
    <3> HIDE DEF up
    <3>2. up = NewestFirst(W)[1]
      BY <1>3, <1>4, <3>1
    <3> QED
      BY <2>2, <3>1, <3>2
  <2>3. CASE ~o.newer.more
    BY <1>6, <1>7, <2>1, <2>3
  <2> QED
    BY <2>2, <2>3
<1>9. /\ down \in W \union {Nothing} /\ (down # Nothing <=> o.older.more)
      /\ (down # Nothing => down = Last(NewestFirst(W)))
  <2>1. "older" \in Directions
    BY DEF Directions
  <2>2. CASE o.older.more
    <3>1. down \in W /\ down # Nothing /\ \A k \in W : k # down => down < k
      BY <1>6, <1>7, <2>1, <2>2 DEF Ahead
    <3> HIDE DEF down
    <3>2. down = Last(NewestFirst(W))
      BY <1>3, <1>4, <3>1
    <3> QED
      BY <2>2, <3>1, <3>2
  <2>3. CASE ~o.older.more
    BY <1>6, <1>7, <2>1, <2>3
  <2> QED
    BY <2>2, <2>3
<1> HIDE DEF up, down
<1>10. /\ f \in Feeds /\ f.items = NewestFirst(W) /\ f.newer = up /\ f.older = down
  BY <1>3, <1>4, <1>8, <1>9 DEF Feeds
<1> HIDE DEF f
<1>11. \A m \in kept : m \in W \/ (up # Nothing /\ m > NewestFirst(W)[1])
                               \/ (down # Nothing /\ m < Last(NewestFirst(W)))
  <2> SUFFICES ASSUME NEW m \in kept, m \notin W
               PROVE  (up # Nothing /\ m > NewestFirst(W)[1]) \/ (down # Nothing /\ m < Last(NewestFirst(W)))
    OBVIOUS
  <2>0. m \in Int /\ o.anchor \in Int
    BY <1>2, Bounds DEF Inv, FeedTypes
  <2>1. NewestFirst(W)[1] \in o.newer.items \union {o.anchor} \union o.older.items
    BY <1>4 DEF W, Window
  <2>2. Last(NewestFirst(W)) \in o.newer.items \union {o.anchor} \union o.older.items
    BY <1>4 DEF W, Window
  <2>3. (\A k \in o.newer.items : k > o.anchor /\ k \in Int) /\ (\A k \in o.older.items : k < o.anchor /\ k \in Int)
    BY <1>2, <1>3 DEF Covers, Ahead
  <2>4. CASE m > o.anchor
    <3>1. o.newer.more /\ \A k \in o.newer.items : m > k
      BY <1>2, <1>3, <2>4 DEF Covers, Ahead
    <3>2. m > NewestFirst(W)[1]
      BY <2>0, <2>1, <2>3, <2>4, <3>1
    <3> QED
      BY <1>8, <3>1, <3>2
  <2>5. CASE m < o.anchor
    <3>1. o.older.more /\ \A k \in o.older.items : m < k
      BY <1>2, <1>3, <2>5 DEF Covers, Ahead
    <3>2. m < Last(NewestFirst(W))
      BY <2>0, <2>2, <2>3, <2>5, <3>1
    <3> QED
      BY <1>9, <3>1, <3>2
  <2>6. m # o.anchor
    BY <1>3
  <2> QED
    BY <2>0, <2>4, <2>5, <2>6
<1>12. Whole(f)'
  <2>1. Ordered(f)
    BY <1>4, <1>10 DEF Ordered
  <2>2. NoneMissing(f)'
    BY <1>0, <1>4, <1>10, <1>11 DEF NoneMissing
  <2>3. f.items[active'] = watched'
    BY <1>0, <1>5, <1>10
  <2> QED
    BY <1>8, <1>9, <1>10, <2>1, <2>2, <2>3 DEF Whole, Ordered
<1>13. FeedTypes'
  BY <1>0, <1>2, <1>4, <1>5, <1>10 DEF Inv, FeedTypes
<1>14. ASSUME NEW l \in loads PROVE Served(l)' /\ GoesOn(l)'
  <2>1. Served(l) /\ GoesOn(l)
    BY DEF Inv
  <2>2. Served(l)'
    BY <1>0, <2>1 DEF Served, Covers
  <2>3. ~current
    BY DEF Inv, FeedTypes
  <2> QED
    BY <1>0, <2>1, <2>2, <2>3 DEF GoesOn, Continues
<1>15. Apart'
  BY <1>0 DEF Inv, Apart
<1>16. ASSUME NEW e \in pageError PROVE Fits(e)'
  <2>1. Fits(e) /\ ~current
    BY DEF Inv, FeedTypes
  <2> QED
    BY <1>0, <2>1 DEF Fits, Continues, UnderWay
<1> QED
  BY <1>0, <1>12, <1>13, <1>14, <1>15, <1>16 DEF Inv

(* The cursors of a feed.                                                  *)
LEMMA FeedEnds ==
    ASSUME NEW f \in Feeds, NEW d \in Directions
    PROVE  /\ f[d] \in Items \union {Nothing}
           /\ d = "newer" => f[d] = f.newer
           /\ d = "older" => f[d] = f.older
  BY DEF Feeds, Directions

LEMMA AskInv ==
    ASSUME Inv, NEW d \in Directions, NEW cursor \in Items, NEW stray \in BOOLEAN,
           generation > 0, Continues(d, cursor, stray), Ask(d, cursor, stray)
    PROVE  Inv'
<1>a. PICK l : l = [generation |-> generation, direction |-> d, cursor |-> cursor, page |-> {},
                    stray |-> stray]
  OBVIOUS
<1>0. /\ ~UnderWay(d, cursor) /\ loads' = loads \union {l} /\ failed' = failed \ {<<d, cursor>>}
      /\ pageError' = {e \in pageError : e.direction # d \/ e.cursor # cursor}
      /\ stored' = stored /\ opening' = opening /\ kept' = kept /\ changes' = changes /\ failures' = failures
      /\ Quiet
  BY <1>a DEF Ask, screen, bounds, Quiet
<1>1. generation \in 1..MaxOpens
  BY Bounds DEF Inv, FeedTypes
<1>2. /\ l \in Loads /\ l.generation = generation /\ l.direction = d /\ l.cursor = cursor
      /\ l.page = {} /\ l.stray = stray
  BY <1>a, <1>1 DEF Loads
<1>3. FeedTypes'
  BY <1>0, <1>1, <1>2 DEF Inv, FeedTypes, Quiet
<1>4. Served(l)' /\ GoesOn(l)'
  BY <1>0, <1>2 DEF Served, GoesOn, Continues, Quiet
<1>5. Apart'
  <2>1. \A k \in loads : ~(k.generation = l.generation /\ k.direction = l.direction /\ k.cursor = l.cursor)
    BY <1>0, <1>2 DEF UnderWay
  <2> QED
    BY <1>0, <2>1 DEF Inv, Apart
<1>6. \A o \in opening' : Halved(o)'
  BY <1>0, StillCovers DEF Inv, Halved
<1>7. ASSUME NEW e \in pageError' PROVE Fits(e)'
  <2>1. Fits(e) /\ (e.direction # d \/ e.cursor # cursor)
    BY <1>0, <1>7 DEF Inv
  <2> QED
    BY <1>0, <1>2, <2>1 DEF Fits, Continues, UnderWay, Quiet
<1> QED
  BY <1>0, <1>3, <1>4, <1>5, <1>6, <1>7, QuietFeed DEF Inv

LEMMA ServeInv == ASSUME Inv, NEW l \in loads, Serve(l) PROVE Inv'
<1>a. PICK page : page = PageBeyond(l.direction, l.cursor, Limit)
  OBVIOUS
<1>b. PICK k : k = [l EXCEPT !.page = {page}]
  OBVIOUS
<1>0. /\ loads' = (loads \ {l}) \union {k}
      /\ stored' = stored /\ opening' = opening /\ kept' = kept /\ changes' = changes /\ failures' = failures
      /\ failed' = failed /\ pageError' = pageError /\ Quiet
  BY <1>a, <1>b DEF Serve, screen, bounds, Quiet
<1>1. l \in Loads /\ l.direction \in Directions /\ l.cursor \in Items /\ GoesOn(l) /\ l.generation =< generation
  BY Bounds DEF Loads, Inv, FeedTypes
<1>2. page \in Pages /\ Covers(l.direction, l.cursor, page) /\ (page.more => page.items # {})
  <2>1. Limit \in Int /\ Limit >= 1 /\ stored \subseteq Items
    BY Bounds DEF Inv, FeedTypes
  <2> QED
    BY <1>a, <1>1, <2>1, PageFacts, PageCovers
<1>3. /\ k \in Loads /\ k.generation = l.generation /\ k.direction = l.direction /\ k.cursor = l.cursor
      /\ k.page = {page} /\ k.stray = l.stray
  BY <1>b, <1>1, <1>2 DEF Loads
<1>4. FeedTypes'
  BY <1>0, <1>1, <1>3 DEF Inv, FeedTypes, Quiet
<1>5. Served(k)' /\ GoesOn(k)'
  <2>1. Covers(l.direction, l.cursor, page)'
    BY <1>0, <1>2, StillCovers
  <2>2. Served(k)'
    BY <1>2, <1>3, <2>1 DEF Served
  <2>3. GoesOn(k)'
    BY <1>0, <1>1, <1>3 DEF GoesOn, Continues, Quiet
  <2> QED
    BY <2>2, <2>3
<1>6. Apart'
  BY <1>0, <1>3 DEF Inv, Apart
<1>7. \A o \in opening' : Halved(o)'
  BY <1>0, StillCovers DEF Inv, Halved
<1>8. \A e \in pageError' : Fits(e)'
  BY <1>0, <1>3, QuietErrors
<1> QED
  BY <1>0, <1>4, <1>5, <1>6, <1>7, <1>8, QuietFeed DEF Inv

(* A page that is dealt with without getting into the feed.                *)
LEMMA DroppedInv ==
    ASSUME Inv, NEW l \in loads, loads' = loads \ {l}, Quiet,
           stored' = stored, opening' = opening, kept' = kept, changes' = changes,
           failures' \in 0..MaxFailures, failed' \subseteq Directions \X Items,
           \/ pageError' = pageError
           \/ /\ pageError' = {[direction |-> l.direction, cursor |-> l.cursor, stray |-> l.stray]}
              /\ l.generation = generation
    PROVE  Inv'
<1>0. l \in Loads /\ GoesOn(l) /\ l.generation \in Nat /\ l.generation > 0
  BY Bounds DEF Loads
<1>1. FeedTypes'
  <2>1. pageError' \subseteq Errors /\ generation \in Nat /\ (pageError' # {} => generation > 0)
    BY <1>0, Bounds DEF Inv, FeedTypes, Loads, Errors
  <2> QED
    BY <2>1 DEF Inv, FeedTypes, Quiet
<1>2. Apart'
  BY DEF Inv, Apart
<1>3. \A o \in opening' : Halved(o)'
  BY StillCovers DEF Inv, Halved
<1>4. ASSUME NEW e \in pageError' PROVE Fits(e)'
  <2>1. CASE pageError' = pageError
    BY <2>1, QuietErrors
  <2>2. CASE pageError' # pageError
    <3>1. /\ e.direction = l.direction /\ e.cursor = l.cursor /\ e.stray = l.stray
          /\ l.generation = generation
      BY <2>2
    <3>2. \A k \in loads' : ~(k.generation = generation /\ k.direction = l.direction /\ k.cursor = l.cursor)
      BY <3>1 DEF Inv, Apart
    <3> QED
      BY <1>0, <3>1, <3>2 DEF Fits, GoesOn, Continues, UnderWay, Quiet
  <2> QED
    BY <2>1, <2>2
<1> QED
  BY <1>1, <1>2, <1>3, <1>4, QuietFeed DEF Inv

LEMMA FailToLoadInv == ASSUME Inv, NEW l \in loads, FailToLoad(l) PROVE Inv'
<1>1. /\ loads' = loads \ {l} /\ stored' = stored /\ opening' = opening /\ kept' = kept /\ changes' = changes
      /\ Quiet
  BY DEF FailToLoad, screen, Quiet
<1>2. failures' \in 0..MaxFailures
  BY Bounds DEF FailToLoad
<1>3. failed' \subseteq Directions \X Items
  <2>1. l.direction \in Directions /\ l.cursor \in Items
    BY Bounds DEF Loads
  <2> QED
    BY <2>1 DEF FailToLoad, Inv, FeedTypes
<1>4. \/ pageError' = pageError
      \/ /\ pageError' = {[direction |-> l.direction, cursor |-> l.cursor, stray |-> l.stray]}
         /\ l.generation = generation
  BY DEF FailToLoad
<1> QED
  BY <1>1, <1>2, <1>3, <1>4, DroppedInv

(* A feed with the new items of a page at one end: g for f, and the place  *)
(* b there for a.                                                          *)
Merges(f, d, page, a, g, b) ==
    /\ g = [[f EXCEPT !.items = IF d = "newer" THEN NewestFirst(page.items \ ToSet(f.items)) \o f.items
                                ELSE f.items \o NewestFirst(page.items \ ToSet(f.items))]
                 EXCEPT ![d] = CursorAfter(d, page)]
    /\ b = IF d = "newer" THEN a + Cardinality(page.items \ ToSet(f.items)) ELSE a

(* What comes of it.                                                       *)
Extends(f, d, page, a, g, b) ==
    /\ g \in Feeds /\ ToSet(g.items) = ToSet(f.items) \union page.items
    /\ d = "newer" => g.items = NewestFirst(page.items \ ToSet(f.items)) \o f.items
    /\ d # "newer" => g.items = f.items \o NewestFirst(page.items \ ToSet(f.items))
    /\ d = "newer" => g.newer = CursorAfter(d, page) /\ g.older = f.older
    /\ d = "older" => g.older = CursorAfter(d, page) /\ g.newer = f.newer
    /\ b \in 1..Len(g.items) /\ g.items[b] = f.items[a]

LEMMA MergedFeed ==
    ASSUME NEW f \in Feeds, NEW d \in Directions, NEW page \in Pages, NEW a \in 1..Len(f.items),
           NEW g, NEW b, Merges(f, d, page, a, g, b)
    PROVE  Extends(f, d, page, a, g, b)
<1> DEFINE new == page.items \ ToSet(f.items)
           C == Cardinality(new)
           s == NewestFirst(new)
           items == IF d = "newer" THEN s \o f.items ELSE f.items \o s
<1>0. g = [[f EXCEPT !.items = items] EXCEPT ![d] = CursorAfter(d, page)] /\ b = IF d = "newer" THEN a + C ELSE a
  BY DEF Merges
<1>1. new \in SUBSET Items /\ f.items \in Seq(Items)
  BY DEF Feeds, Pages
<1>2. s \in Seq(Items) /\ Len(s) = C /\ C \in Nat /\ ToSet(s) = new
  BY <1>1, Sorted, SortedSet, ItemSets
<1> HIDE DEF s, C, new, items
<1>3. Len(f.items) \in Nat
  BY <1>1
<1>4. /\ items \in Seq(Items) /\ ToSet(items) = ToSet(f.items) \union new
      /\ b \in 1..Len(items) /\ items[b] = f.items[a]
  <2>1. CASE d = "newer"
    <3>1. items = s \o f.items
      BY <2>1 DEF items
    <3>2. items \in Seq(Items) /\ Len(items) = C + Len(f.items) /\ items[C + a] = f.items[a]
          /\ ToSet(items) = ToSet(f.items) \union new
      <4>1. /\ s \o f.items \in Seq(Items) /\ Len(s \o f.items) = Len(s) + Len(f.items)
            /\ \A i \in 1..Len(f.items) : (s \o f.items)[Len(s) + i] = f.items[i]
            /\ ToSet(s \o f.items) = ToSet(s) \union ToSet(f.items)
        BY <1>1, <1>2, Joined
      <4> QED
        BY <1>2, <3>1, <4>1
    <3>3. C + a = a + C /\ a + C \in 1..(C + Len(f.items))
      BY <1>2, <1>3
    <3> QED
      BY <1>0, <2>1, <3>2, <3>3
  <2>2. CASE d # "newer"
    <3>1. items = f.items \o s
      BY <2>2 DEF items
    <3>2. items \in Seq(Items) /\ Len(items) = Len(f.items) + C /\ items[a] = f.items[a]
          /\ ToSet(items) = ToSet(f.items) \union new
      <4>1. /\ f.items \o s \in Seq(Items) /\ Len(f.items \o s) = Len(f.items) + Len(s)
            /\ \A i \in 1..Len(f.items) : (f.items \o s)[i] = f.items[i]
            /\ ToSet(f.items \o s) = ToSet(f.items) \union ToSet(s)
        BY <1>1, <1>2, Joined
      <4> QED
        BY <1>2, <3>1, <4>1
    <3>3. a \in 1..(Len(f.items) + C)
      BY <1>2, <1>3
    <3> QED
      BY <1>0, <2>2, <3>2, <3>3
  <2> QED
    BY <2>1, <2>2
<1>5. CursorAfter(d, page) \in Items \union {Nothing}
  BY CursorFacts
<1>6. /\ g \in Feeds /\ g.items = items
      /\ d = "newer" => g.newer = CursorAfter(d, page) /\ g.older = f.older
      /\ d = "older" => g.older = CursorAfter(d, page) /\ g.newer = f.newer
  <2>1. [f EXCEPT !.items = items] \in Feeds
    BY <1>4 DEF Feeds
  <2>2. [f EXCEPT !.items = items].items = items /\ [f EXCEPT !.items = items].newer = f.newer
        /\ [f EXCEPT !.items = items].older = f.older
    BY DEF Feeds
  <2>3. \A h \in Feeds, c \in Items \union {Nothing} :
           /\ [h EXCEPT ![d] = c] \in Feeds /\ [h EXCEPT ![d] = c].items = h.items
           /\ d = "newer" => [h EXCEPT ![d] = c].newer = c /\ [h EXCEPT ![d] = c].older = h.older
           /\ d = "older" => [h EXCEPT ![d] = c].older = c /\ [h EXCEPT ![d] = c].newer = h.newer
    BY DEF Feeds, Directions
  <2> QED
    BY <1>0, <1>5, <2>1, <2>2, <2>3
<1>7. ToSet(f.items) \union new = ToSet(f.items) \union page.items
  BY DEF new
<1> QED
  BY <1>4, <1>6, <1>7 DEF items, s, new, Extends

(* If the page goes on from that end, the feed is still whole: what is on  *)
(* the page is new and lies beyond it, in order, and the end moves on.     *)
LEMMA MergedIsWhole ==
    ASSUME Inv, NEW f \in Feeds, NEW d \in Directions, NEW page \in Pages, active \in 1..Len(f.items),
           NEW g, NEW b, Extends(f, d, page, active, g, b), Whole(f),
           f[d] \in Items, Covers(d, f[d], page), page.more => page.items # {}
    PROVE  /\ Ordered(g) /\ NoneMissing(g) /\ g.items[b] = watched
           /\ g.newer # Nothing => g.newer = g.items[1]
           /\ g.older # Nothing => g.older = Last(g.items)
<1>0. /\ g \in Feeds /\ ToSet(g.items) = ToSet(f.items) \union page.items
      /\ d = "newer" => g.items = NewestFirst(page.items \ ToSet(f.items)) \o f.items
      /\ d # "newer" => g.items = f.items \o NewestFirst(page.items \ ToSet(f.items))
      /\ d = "newer" => g.newer = CursorAfter(d, page) /\ g.older = f.older
      /\ d = "older" => g.older = CursorAfter(d, page) /\ g.newer = f.newer
      /\ g.items[b] = f.items[active]
  BY DEF Extends
<1> DEFINE L == Len(f.items)
           s == NewestFirst(page.items)
           c == CursorAfter(d, page)
           items == g.items
<1>1. active \in 1..L /\ f.items \in Seq(Items) /\ L \in Nat /\ L >= 1 /\ DOMAIN f.items = 1..L
  BY Bounds DEF Feeds
<1>2. (\A i \in 1..L : f.items[i] \in Int) /\ (\A m \in ToSet(f.items) : m \in Int) /\ f.items # <<>>
  <2>1. \A i \in 1..L : f.items[i] \in Items
    BY <1>1
  <2> QED
    BY <1>1, <2>1, Bounds DEF ToSet
<1>3. /\ 1 \in 1..L /\ L \in 1..L /\ Last(f.items) = f.items[L]
      /\ \A m \in ToSet(f.items) : m =< f.items[1] /\ m >= f.items[L]
  <2>1. 1 \in 1..L /\ L \in 1..L /\ Last(f.items) = f.items[L]
    BY <1>1 DEF Last
  <2>2. ASSUME NEW i \in 1..L PROVE f.items[i] =< f.items[1] /\ f.items[i] >= f.items[L]
    <3>1. (i = 1 \/ 1 < i) /\ (i = L \/ i < L)
      BY <1>1
    <3>2. (1 < i => f.items[1] > f.items[i]) /\ (i < L => f.items[i] > f.items[L])
      BY <2>1 DEF Whole, Ordered
    <3>3. f.items[1] \in Int /\ f.items[i] \in Int /\ f.items[L] \in Int
      BY <1>2, <2>1
    <3> QED
      BY <3>1, <3>2, <3>3
  <2> QED
    BY <1>1, <2>1, <2>2 DEF ToSet
<1>4. /\ page.items \in SUBSET Items /\ (\A m \in page.items : m \in Int)
      /\ d = "newer" => f[d] = f.items[1] /\ f[d] = f.newer
      /\ d = "older" => f[d] = f.items[L] /\ f[d] = f.older
  <2>1. f[d] # Nothing
    BY DEF Items, Nothing
  <2> QED
    BY <1>1, <1>3, <2>1, Bounds, FeedEnds DEF Whole, Pages
<1>5. d = "newer" \/ d = "older"
  BY DEF Directions
<1>6. \A m \in page.items, k \in ToSet(f.items) : IF d = "newer" THEN m > k ELSE m < k
  <2> SUFFICES ASSUME NEW m \in page.items, NEW k \in ToSet(f.items)
               PROVE  IF d = "newer" THEN m > k ELSE m < k
    OBVIOUS
  <2>1. m \in Int /\ k \in Int /\ k =< f.items[1] /\ k >= f.items[L] /\ f.items[1] \in Int /\ f.items[L] \in Int
    BY <1>2, <1>3, <1>4
  <2>2. IF d = "newer" THEN m > f.items[1] ELSE m < f.items[L]
    BY <1>4, <1>5 DEF Covers, Ahead
  <2> QED
    BY <2>1, <2>2
<1>7. page.items \ ToSet(f.items) = page.items
  <2>1. \A m \in page.items : m \notin ToSet(f.items)
    BY <1>2, <1>6
  <2> QED
    BY <2>1
<1>8. /\ s \in Seq(Items) /\ Len(s) = Cardinality(page.items) /\ ToSet(s) = page.items
      /\ \A i, j \in 1..Len(s) : i < j => s[i] > s[j]
      /\ page.items # {} => /\ Len(s) >= 1 /\ s[1] \in page.items /\ Last(s) \in page.items
                            /\ \A k \in page.items : s[1] >= k /\ Last(s) =< k
  BY <1>4, Sorted, SortedSet, FirstAndLast
<1>9. /\ g \in Feeds /\ ToSet(items) = ToSet(f.items) \union page.items
      /\ d = "newer" => g.newer = c /\ g.older = f.older
      /\ d = "older" => g.older = c /\ g.newer = f.newer
      /\ items[b] = f.items[active]
  BY <1>0
<1>10. items = IF d = "newer" THEN s \o f.items ELSE f.items \o s
  BY <1>0, <1>7
<1>11. IF page.more
       THEN c \in page.items /\ c # Nothing /\ \A k \in page.items : k # c => Ahead(d, c, k)
       ELSE c = Nothing
  BY CursorFacts
<1> HIDE DEF s, c, items
<1>12. \A i, j \in 1..L : i < j => f.items[i] > f.items[j]
  BY DEF Whole, Ordered
<1>13. \A i, j \in 1..Len(items) : i < j => items[i] > items[j]
  <2>1. CASE d = "newer"
    <3>1. \A x \in ToSet(s), y \in ToSet(f.items) : x > y
      BY <1>6, <1>8, <2>1
    <3> QED
      BY <1>1, <1>8, <1>10, <1>12, <2>1, <3>1, JoinedInOrder
  <2>2. CASE d = "older"
    <3>1. \A x \in ToSet(f.items), y \in ToSet(s) : x > y
      BY <1>2, <1>4, <1>6, <1>8, <2>2
    <3> QED
      BY <1>1, <1>8, <1>10, <1>12, <2>2, <3>1, JoinedInOrder
  <2> QED
    BY <1>5, <2>1, <2>2
<1>14. /\ Len(items) \in Nat /\ Len(items) >= 1 /\ items # <<>> /\ Last(items) = items[Len(items)]
       /\ d = "newer" => /\ Last(items) = f.items[L]
                         /\ items[1] = IF page.items # {} THEN s[1] ELSE f.items[1]
       /\ d = "older" => /\ items[1] = f.items[1]
                         /\ Last(items) = IF page.items # {} THEN Last(s) ELSE f.items[L]
  <2>0. items \in Seq(Items)
    BY <1>9 DEF Feeds, items
  <2>1. page.items = {} => Len(s) = 0
    BY <1>8, FS_EmptySet
  <2>2. Len(s) \in Nat /\ (Len(s) >= 1 => Last(s) = s[Len(s)] /\ 1 \in 1..Len(s) /\ Len(s) \in 1..Len(s))
    BY <1>8 DEF Last
  <2>3. CASE d = "newer"
    <3>1. Len(items) = Len(s) + L /\ items[Len(s) + L] = f.items[L] /\ items[Len(s) + 1] = f.items[1]
          /\ \A i \in 1..Len(s) : items[i] = s[i]
      <4>1. /\ Len(s \o f.items) = Len(s) + Len(f.items)
            /\ \A i \in 1..Len(f.items) : (s \o f.items)[Len(s) + i] = f.items[i]
            /\ \A i \in 1..Len(s) : (s \o f.items)[i] = s[i]
        BY <1>1, <1>8, Joined
      <4> QED
        BY <1>3, <1>10, <2>3, <4>1
    <3>2. Len(items) \in Nat /\ Len(items) >= 1 /\ items # <<>> /\ Last(items) = items[Len(items)]
      BY <1>1, <2>0, <2>2, <3>1 DEF Last
    <3>3. items[1] = IF page.items # {} THEN s[1] ELSE f.items[1]
      <4>1. CASE page.items # {}
        BY <1>8, <2>2, <3>1, <4>1
      <4>2. CASE page.items = {}
        BY <2>1, <3>1, <4>2
      <4> QED
        BY <4>1, <4>2
    <3> QED
      BY <2>3, <3>1, <3>2, <3>3
  <2>4. CASE d = "older"
    <3>1. Len(items) = L + Len(s) /\ items[1] = f.items[1] /\ items[L] = f.items[L]
          /\ \A i \in 1..Len(s) : items[L + i] = s[i]
      <4>1. /\ Len(f.items \o s) = Len(f.items) + Len(s)
            /\ \A i \in 1..Len(f.items) : (f.items \o s)[i] = f.items[i]
            /\ \A i \in 1..Len(s) : (f.items \o s)[Len(f.items) + i] = s[i]
        BY <1>1, <1>8, Joined
      <4> QED
        BY <1>3, <1>10, <2>4, <4>1
    <3>2. Len(items) \in Nat /\ Len(items) >= 1 /\ items # <<>> /\ Last(items) = items[Len(items)]
      BY <1>1, <2>0, <2>2, <3>1 DEF Last
    <3>3. Last(items) = IF page.items # {} THEN Last(s) ELSE f.items[L]
      <4>1. CASE page.items # {}
        BY <1>8, <2>2, <3>1, <3>2, <4>1
      <4>2. CASE page.items = {}
        BY <1>1, <2>1, <3>1, <3>2, <4>2
      <4> QED
        BY <4>1, <4>2
    <3> QED
      BY <2>4, <3>1, <3>2, <3>3
  <2> QED
    BY <1>5, <2>3, <2>4
<1>15. page.more => /\ d = "newer" => c = s[1]
                    /\ d = "older" => c = Last(s)
  <2> SUFFICES ASSUME page.more PROVE (d = "newer" => c = s[1]) /\ (d = "older" => c = Last(s))
    OBVIOUS
  <2>1. /\ page.items # {} /\ c \in page.items /\ s[1] \in page.items /\ Last(s) \in page.items
        /\ \A k \in page.items : k # c => Ahead(d, c, k)
        /\ \A k \in page.items : s[1] >= k /\ Last(s) =< k
    BY <1>8, <1>11
  <2>2. CASE d = "newer"
    BY <1>4, <2>1, <2>2 DEF Ahead
  <2>3. CASE d = "older"
    BY <1>4, <2>1, <2>3 DEF Ahead
  <2> QED
    BY <1>5, <2>2, <2>3
<1>16. /\ g.newer # Nothing => g.newer = items[1]
       /\ g.older # Nothing => g.older = Last(items)
  <2>1. CASE d = "newer"
    BY <1>3, <1>9, <1>11, <1>14, <1>15, <2>1 DEF Whole
  <2>2. CASE d = "older"
    BY <1>3, <1>9, <1>11, <1>14, <1>15, <2>2 DEF Whole
  <2> QED
    BY <1>5, <2>1, <2>2
<1>17. ASSUME NEW m \in kept
       PROVE  \/ m \in ToSet(items)
              \/ g.newer # Nothing /\ m > items[1]
              \/ g.older # Nothing /\ m < Last(items)
  <2>0. m \in Int
    BY Bounds DEF Inv, FeedTypes
  <2>1. \/ m \in ToSet(f.items)
        \/ f.newer # Nothing /\ m > f.items[1]
        \/ f.older # Nothing /\ m < f.items[L]
    BY <1>3 DEF Whole, NoneMissing
  <2>2. CASE m \in ToSet(f.items)
    BY <1>9, <2>2
  <2>3. CASE d = "newer" /\ m > f.items[1]
    <3>1. m \in page.items \/ (page.more /\ \A k \in page.items : m > k)
      BY <1>4, <2>3 DEF Covers, Ahead
    <3>2. CASE page.more /\ \A k \in page.items : m > k
      BY <1>8, <1>9, <1>11, <1>14, <2>3, <3>2
    <3> QED
      BY <1>9, <3>1, <3>2
  <2>4. CASE d = "older" /\ m < f.items[L]
    <3>1. m \in page.items \/ (page.more /\ \A k \in page.items : m < k)
      BY <1>4, <2>4 DEF Covers, Ahead
    <3>2. CASE page.more /\ \A k \in page.items : m < k
      BY <1>8, <1>9, <1>11, <1>14, <2>4, <3>2
    <3> QED
      BY <1>9, <3>1, <3>2
  <2>5. CASE d = "newer" /\ f.older # Nothing /\ m < f.items[L]
    BY <1>9, <1>14, <2>5
  <2>6. CASE d = "older" /\ f.newer # Nothing /\ m > f.items[1]
    BY <1>9, <1>14, <2>6
  <2> QED
    BY <1>5, <2>1, <2>2, <2>3, <2>4, <2>5, <2>6
<1>18. Ordered(g) /\ NoneMissing(g)
  BY <1>9, <1>13, <1>17 DEF Ordered, NoneMissing, items
<1>19. g.items[b] = watched
  BY <1>9 DEF Whole, items
<1> QED
  BY <1>9, <1>16, <1>18, <1>19 DEF items

(* A page of the feed that is open now, and of it if nothing says else.    *)
LEMMA DeliverInv == ASSUME Inv, NEW l \in loads, Deliver(l) PROVE Inv'
<1>1. CASE ~(l.generation = generation /\ current)
  <2>1. /\ loads' = loads \ {l} /\ stored' = stored /\ opening' = opening /\ kept' = kept /\ changes' = changes
        /\ failures' = failures /\ failed' = failed /\ pageError' = pageError /\ Quiet
    BY <1>1 DEF Deliver, bounds, Quiet
  <2>2. failures' \in 0..MaxFailures /\ failed' \subseteq Directions \X Items
    BY <2>1 DEF Inv, FeedTypes
  <2> QED
    BY <2>1, <2>2, DroppedInv
<1>2. CASE l.generation = generation /\ current
  <2>1. PICK f \in feed, page \in l.page : Merge(l, f, page)
    BY <1>2 DEF Deliver
  <2>a. PICK d : d = l.direction
    OBVIOUS
  <2>b. PICK g : g = [[f EXCEPT !.items = IF d = "newer" THEN NewestFirst(page.items \ ToSet(f.items)) \o f.items
                                          ELSE f.items \o NewestFirst(page.items \ ToSet(f.items))]
                         EXCEPT ![d] = CursorAfter(d, page)]
    OBVIOUS
  <2>2. feed' = {g} /\ Merges(f, d, page, active, g, active') /\ mixed' = (mixed \/ (l.stray /\ l.cursor # f[d]))
    BY <2>1, <2>a, <2>b DEF Merge, Merges
  <2>3. /\ loads' = loads \ {l} /\ stored' = stored /\ opening' = opening /\ kept' = kept /\ changes' = changes
        /\ failures' = failures /\ failed' = failed /\ generation' = generation /\ current' = current
        /\ watched' = watched /\ pageError' = pageError
    BY DEF Deliver, bounds
  <2>4. /\ f \in Feeds /\ feed = {f} /\ active \in 1..Len(f.items)
        /\ l \in Loads /\ Served(l) /\ GoesOn(l)
    BY Bounds
  <2>5. d \in Directions /\ l.cursor \in Items /\ page \in Pages /\ l.stray \in BOOLEAN
    BY <2>a, <2>4 DEF Loads
  <2>6. Extends(f, d, page, active, g, active')
    BY <2>2, <2>4, <2>5, MergedFeed
  <2>7. FeedTypes'
    <3>1. g \in Feeds /\ active' \in 1..Len(g.items)
      BY <2>6 DEF Extends
    <3>2. mixed' \in BOOLEAN
      BY <2>2
    <3>3. feed # {}
      OBVIOUS
    <3> QED
      BY <2>2, <2>3, <3>1, <3>2, <3>3 DEF Inv, FeedTypes
  <2>8. ASSUME ~mixed' PROVE ~mixed /\ f[d] = l.cursor /\ Covers(d, f[d], page) /\ Whole(f)
    <3>1. ~mixed /\ (l.stray => f[d] = l.cursor)
      BY <2>2, <2>8
    <3>2. f[d] = l.cursor
      BY <1>2, <2>4, <2>a, <3>1 DEF GoesOn, Continues
    <3>3. Covers(d, f[d], page)
      BY <1>2, <2>4, <2>a, <3>2 DEF Served
    <3>4. Whole(f)
      BY <1>2, <3>1 DEF Inv
    <3> QED
      BY <3>1, <3>2, <3>3, <3>4
  <2>9. page.more => page.items # {}
    BY <2>4 DEF Served
  <2>10. (current /\ ~mixed => \A h \in feed : Whole(h))'
    <3> SUFFICES ASSUME ~mixed' PROVE Whole(g)'
      BY <2>2
    <3>1. /\ Ordered(g) /\ NoneMissing(g) /\ g.items[active'] = watched
          /\ g.newer # Nothing => g.newer = g.items[1]
          /\ g.older # Nothing => g.older = Last(g.items)
      BY <2>4, <2>5, <2>6, <2>8, <2>9, MergedIsWhole
    <3> QED
      BY <2>3, <3>1 DEF Whole, Ordered, NoneMissing
  <2>11. ASSUME NEW k \in loads, k # l PROVE Served(k)' /\ GoesOn(k)'
    <3>1. k \in Loads /\ Served(k) /\ GoesOn(k)
      BY Bounds
    <3>2. Served(k)'
      BY <2>3, <3>1, StillCovers DEF Served
    <3>3. ASSUME k.generation = generation, ~k.stray, ~mixed' PROVE k.cursor = g[k.direction]
      <4>1. k.cursor = f[k.direction] /\ k.direction \in Directions
        BY <1>2, <2>4, <2>8, <3>1, <3>3 DEF GoesOn, Continues, Loads
      <4>2. k.direction # d
        BY <1>2, <2>8, <2>11, <2>a, <3>3, <4>1 DEF Inv, Apart
      <4>3. g \in Feeds /\ (d = "newer" => g.older = f.older) /\ (d = "older" => g.newer = f.newer)
        BY <2>6 DEF Extends
      <4>4. g[k.direction] = f[k.direction]
        BY <2>4, <2>5, <4>1, <4>2, <4>3, FeedEnds DEF Directions
      <4> QED
        BY <4>1, <4>4
    <3>4. GoesOn(k)'
      BY <1>2, <2>2, <2>3, <3>3 DEF GoesOn, Continues
    <3> QED
      BY <3>2, <3>4
  <2>12. Apart'
    BY <2>3 DEF Inv, Apart
  <2>13. \A o \in opening' : Halved(o)'
    BY <2>3, StillCovers DEF Inv, Halved
  <2>14. ASSUME NEW e \in pageError PROVE Fits(e)'
    <3>1. e \in Errors /\ e.direction \in Directions /\ Fits(e)
      BY Bounds DEF Errors
    <3>2. ~UnderWay(e.direction, e.cursor)'
      BY <2>3, <3>1 DEF Fits, UnderWay
    <3>3. ASSUME ~e.stray, ~mixed' PROVE e.cursor = g[e.direction]
      <4>1. e.cursor = f[e.direction]
        BY <2>8, <3>1, <3>3 DEF Fits, Continues
      <4>2. e.direction # d
        BY <1>2, <2>8, <2>a, <3>1, <3>3, <4>1 DEF Fits, UnderWay
      <4>3. g \in Feeds /\ (d = "newer" => g.older = f.older) /\ (d = "older" => g.newer = f.newer)
        BY <2>6 DEF Extends
      <4>4. g[e.direction] = f[e.direction]
        BY <2>4, <2>5, <3>1, <4>2, <4>3, FeedEnds DEF Directions
      <4> QED
        BY <4>1, <4>4
    <3> QED
      BY <1>2, <2>2, <2>3, <3>2, <3>3 DEF Fits, Continues
  <2> QED
    BY <2>3, <2>7, <2>10, <2>11, <2>12, <2>13, <2>14 DEF Inv
<1> QED
  BY <1>1, <1>2

LEMMA MoveInv == ASSUME Inv, NEW i \in Items, Move(i) PROVE Inv'
<1>1. PICK f \in feed : i \in 1..Len(f.items) /\ watched' = f.items[i]
  BY DEF Move
<1>0. /\ active' = i /\ stored' = stored /\ generation' = generation /\ opening' = opening /\ feed' = feed
      /\ current' = current /\ loads' = loads /\ failed' = failed /\ changes' = changes /\ failures' = failures
      /\ kept' = kept /\ mixed' = mixed /\ pageError' = pageError
  BY DEF Move, pages, bounds
<1>2. f \in Feeds /\ feed = {f} /\ watched' \in Items
  BY <1>1, Bounds DEF Feeds
<1>3. FeedTypes'
  BY <1>0, <1>1, <1>2 DEF Inv, FeedTypes
<1>4. ASSUME current, ~mixed PROVE Whole(f)'
  BY <1>0, <1>1, <1>4 DEF Inv, Whole, Ordered, NoneMissing
<1>5. ASSUME NEW l \in loads PROVE Served(l)' /\ GoesOn(l)'
  BY <1>0, Bounds DEF Served, GoesOn, Continues, Covers
<1>6. Apart'
  BY <1>0 DEF Inv, Apart
<1>7. \A o \in opening' : Halved(o)'
  BY <1>0, StillCovers DEF Inv, Halved
<1>8. ASSUME NEW e \in pageError PROVE Fits(e)'
  BY <1>0, Bounds DEF Fits, Continues, UnderWay
<1> QED
  BY <1>0, <1>2, <1>3, <1>4, <1>5, <1>6, <1>7, <1>8 DEF Inv

LEMMA StutterInv == ASSUME Inv, UNCHANGED vars PROVE Inv'
<1>0. /\ stored' = stored /\ opening' = opening /\ loads' = loads /\ failed' = failed
      /\ changes' = changes /\ failures' = failures /\ kept' = kept /\ pageError' = pageError /\ Quiet
  BY DEF vars, screen, pages, bounds, Quiet
<1>1. FeedTypes'
  BY <1>0 DEF Inv, FeedTypes, Quiet
<1>2. Apart'
  BY <1>0 DEF Inv, Apart
<1>3. \A o \in opening' : Halved(o)'
  BY <1>0, StillCovers DEF Inv, Halved
<1> QED
  BY <1>0, <1>1, <1>2, <1>3, QuietFeed, QuietErrors DEF Inv

LEMMA NextInv == Inv /\ [Next]_vars => Inv'
<1> SUFFICES ASSUME Inv, [Next]_vars PROVE Inv'
  OBVIOUS
<1>1. ASSUME NEW m \in Items, Open(m) \/ Change(m) PROVE Inv'
  BY <1>1, OpenInv, ChangeInv
<1>2. CASE ReadAnchor \/ ReadNewer \/ ReadOlder \/ ReadAgain
  BY <1>2, ReadInv
<1>3. CASE ShowWindow
  BY <1>3, ShowInv
<1>4. CASE FailToOpen
  BY <1>4, FailToOpenInv
<1>5. ASSUME NEW d \in Directions, LoadCursor(d) PROVE Inv'
  <2>1. PICK f \in feed : Ask(d, f[d], ~current)
    BY <1>5 DEF LoadCursor
  <2>2. f \in Feeds /\ feed = {f} /\ generation > 0 /\ (~current) \in BOOLEAN
    BY <2>1, Bounds DEF Inv, FeedTypes
  <2>3. f[d] \in Items
    BY <2>1, <2>2, FeedEnds DEF Ask
  <2>4. Continues(d, f[d], ~current)
    BY <2>2 DEF Continues
  <2> QED
    BY <2>1, <2>2, <2>3, <2>4, AskInv
<1>9. CASE Retry
  <2>1. PICK e \in pageError : Ask(e.direction, e.cursor, e.stray)
    BY <1>9 DEF Retry
  <2>2. /\ e.direction \in Directions /\ e.cursor \in Items /\ e.stray \in BOOLEAN
        /\ generation > 0 /\ Continues(e.direction, e.cursor, e.stray)
    BY <2>1, Bounds DEF Inv, FeedTypes, Errors, Fits
  <2> QED
    BY <2>1, <2>2, AskInv
<1>6. ASSUME NEW l \in loads, Serve(l) \/ Deliver(l) \/ FailToLoad(l) PROVE Inv'
  BY <1>6, ServeInv, DeliverInv, FailToLoadInv
<1>7. ASSUME NEW i \in Items, Move(i) PROVE Inv'
  BY <1>7, MoveInv
<1>8. CASE UNCHANGED vars
  BY <1>8, StutterInv
<1> QED
  BY <1>1, <1>2, <1>3, <1>4, <1>5, <1>6, <1>7, <1>8, <1>9 DEF Next

LEMMA FeedInv == Spec => []Inv
<1> QED
  BY InitInv, NextInv, PTL DEF Spec

-----------------------------------------------------------------------------
(* Theorems.                                                               *)

(* Whatever the size of a page and the number of items: the position is    *)
(* always that of an item of the feed, and every page asked for goes on    *)
(* from an item, for a feed opened by then (feedStateRef, activeIndex and  *)
(* loadingCursorsRef of MediaViewerPage.tsx).                                   *)
THEOREM FeedTypesHold == Spec => []TypeOK
<1>1. Inv => TypeOK
  BY TypesAreRight
<1> QED
  BY <1>1, FeedInv, PTL

(* Whatever is saved and deleted while a feed is read in both directions,  *)
(* and in whatever order its pages arrive or fail, it shows its items in   *)
(* order and once each, omits none that was there all the time, ends only  *)
(* where the library does, and stays at the item looked at (loadCursor,    *)
(* mergeItems and list_media_feed).  Excepted is a feed into which a page  *)
(* of an earlier feed got, as loadCursor and the button beside pageError   *)
(* let it: that one may omit and disorder.                                 *)
THEOREM FeedStaysWhole == Spec => []FeedIsWhole
<1>1. Inv => FeedIsWhole
  BY DEF Inv, FeedIsWhole, Whole
<1> QED
  BY <1>1, FeedInv, PTL

-----------------------------------------------------------------------------
(* Polling: any controllers of any page, beside the feed.                  *)

CONSTANTS Reloads, Polls, MaxEffects, MaxUpdates

VARIABLES world, made, controller, poll, shown, reload

Polled == INSTANCE Polling WITH current <- controller, MaxChanges <- MaxUpdates

(* A controller lives while it is the current one; it sends one request at *)
(* a time and has a timer only between two.                                *)
Lives(c) ==
    /\ c > made => poll[c] = Polled!Idle
    /\ c =< made => (poll[c].cancelled <=> c # controller)
    /\ poll[c].timer => poll[c].flight = "none" /\ c = controller
    /\ c = controller => /\ poll[c].queued => poll[c].flight # "none"
                         /\ Polls => poll[c].flight # "none" \/ poll[c].timer
    /\ poll[c].flight = "answered" => poll[c].seen =< world

(* What is shown is of the current controller and no newer than the answer *)
(* that it is about to take.                                               *)
Shows ==
    /\ shown.seen =< world /\ shown.owner =< made
    /\ shown.owner = Polled!NoOne => shown.seen = 0
    /\ controller # Polled!NoOne /\ shown.owner # Polled!NoOne =>
          /\ shown.owner = controller
          /\ poll[controller].flight = "answered" => shown.seen =< poll[controller].seen

(* A promise that is open has a request to come, or one under way that was *)
(* sent after it.                                                          *)
Promised(r) ==
    /\ reload[r].owner =< made /\ reload[r].asked =< world
    /\ reload[r].status = "fresh" => reload[r].owner # Polled!NoOne
    /\ reload[r].status = "waiting" =>
          /\ reload[r].owner = controller /\ controller # Polled!NoOne
          /\ poll[controller].flight # "none"
          /\ poll[controller].queued \/ poll[controller].reloading
          /\ poll[controller].flight = "answered" /\ ~poll[controller].queued =>
                reload[r].asked =< poll[controller].seen
    /\ reload[r].status = "fresh" /\ reload[r].owner = controller =>
          shown.owner = controller /\ shown.seen >= reload[r].asked

PollInv ==
    /\ Polled!TypeOK
    /\ \A c \in Polled!Controllers : Lives(c)
    /\ Shows
    /\ \A r \in Reloads : Promised(r)

-----------------------------------------------------------------------------
(* What the helpers return.                                                *)

LEMMA PollValues ==
    ASSUME Polled!PollingAssumption
    PROVE  /\ Polled!Idle \in Polled!States
           /\ \A s \in Polled!States :
                 /\ Polled!Running(s) \in Polled!States
                 /\ Polled!Running(s).flight = "asked" /\ ~Polled!Running(s).queued /\ ~Polled!Running(s).timer
                 /\ Polled!Running(s).cancelled = s.cancelled /\ Polled!Running(s).reloading = s.queued
<1>1. MaxUpdates \in Nat
  BY DEF Polled!PollingAssumption
<1>2. Polled!Idle \in Polled!States
  BY <1>1 DEF Polled!Idle, Polled!States
<1>3. ASSUME NEW s \in Polled!States
      PROVE  /\ Polled!Running(s) \in Polled!States
             /\ Polled!Running(s).flight = "asked" /\ ~Polled!Running(s).queued /\ ~Polled!Running(s).timer
             /\ Polled!Running(s).cancelled = s.cancelled /\ Polled!Running(s).reloading = s.queued
  BY <1>3 DEF Polled!Running, Polled!States
<1> QED
  BY <1>2, <1>3

LEMMA ResolvedFacts ==
    ASSUME Polled!TypeOK, NEW c, NEW as \in {"fresh", "released"}
    PROVE  /\ Polled!Resolved(c, as) \in [Reloads -> Polled!Promises]
           /\ \A r \in Reloads :
                 /\ Polled!Resolved(c, as)[r].owner = reload[r].owner
                 /\ Polled!Resolved(c, as)[r].asked = reload[r].asked
                 /\ IF reload[r].status = "waiting" /\ reload[r].owner = c
                    THEN Polled!Resolved(c, as)[r].status = as ELSE Polled!Resolved(c, as)[r] = reload[r]
<1>1. \A r \in Reloads : reload[r] \in Polled!Promises
  BY DEF Polled!TypeOK
<1>2. \A p \in Polled!Promises : /\ [p EXCEPT !.status = as] \in Polled!Promises
                                 /\ [p EXCEPT !.status = as].owner = p.owner
                                 /\ [p EXCEPT !.status = as].asked = p.asked
                                 /\ [p EXCEPT !.status = as].status = as
  BY DEF Polled!Promises
<1> QED
  BY <1>1, <1>2 DEF Polled!Resolved

LEMMA CleanedFacts ==
    ASSUME Polled!TypeOK, NEW c \in Polled!Controllers
    PROVE  /\ Polled!Cleaned(c) \in Polled!States
           /\ Polled!Cleaned(c).flight = poll[c].flight /\ Polled!Cleaned(c).seen = poll[c].seen
           /\ Polled!Cleaned(c).queued = poll[c].queued
           /\ IF c = controller THEN Polled!Cleaned(c).cancelled /\ ~Polled!Cleaned(c).timer
              ELSE Polled!Cleaned(c) = poll[c]
<1>1. poll[c] \in Polled!States
  BY DEF Polled!TypeOK
<1> QED
  BY <1>1 DEF Polled!Cleaned, Polled!States

LEMMA PollFacts ==
    ASSUME Polled!PollingAssumption, PollInv
    PROVE  /\ MaxEffects \in Nat /\ MaxUpdates \in Nat /\ world \in Nat /\ made \in Nat /\ controller \in Nat
           /\ made =< MaxEffects /\ controller =< made /\ Polled!NoOne = 0
           /\ controller # Polled!NoOne => controller \in Polled!Controllers
           /\ \A c \in Polled!Controllers : /\ c \in Nat /\ c # Polled!NoOne /\ c =< MaxEffects
                                            /\ poll[c] \in Polled!States /\ poll[c].seen \in Nat
                                            /\ Lives(c)
           /\ \A r \in Reloads : /\ reload[r] \in Polled!Promises /\ reload[r].owner \in Nat
                                 /\ reload[r].asked \in Nat
                                 /\ Promised(r)
           /\ shown.owner \in Nat /\ shown.seen \in Nat /\ Shows
<1>1. /\ MaxEffects \in Nat /\ MaxUpdates \in Nat /\ world \in Nat /\ made \in Nat /\ controller \in Nat
      /\ made =< MaxEffects /\ controller =< made /\ Polled!NoOne = 0
      /\ controller # Polled!NoOne => controller \in Polled!Controllers
  BY DEF Polled!PollingAssumption, PollInv, Polled!TypeOK, Polled!Controllers, Polled!NoOne
<1>2. ASSUME NEW c \in Polled!Controllers
      PROVE  /\ c \in Nat /\ c # Polled!NoOne /\ c =< MaxEffects
             /\ poll[c] \in Polled!States /\ poll[c].seen \in Nat /\ Lives(c)
  <2>1. poll[c] \in Polled!States /\ Lives(c)
    BY DEF PollInv, Polled!TypeOK
  <2>2. poll[c].seen \in Nat
    BY <1>1, <2>1 DEF Polled!States
  <2>3. c \in Nat /\ c # Polled!NoOne /\ c =< MaxEffects
    BY <1>1 DEF Polled!Controllers
  <2> QED
    BY <2>1, <2>2, <2>3
<1>3. ASSUME NEW r \in Reloads
      PROVE  /\ reload[r] \in Polled!Promises /\ reload[r].owner \in Nat /\ reload[r].asked \in Nat
             /\ Promised(r)
  <2>1. reload[r] \in Polled!Promises /\ Promised(r)
    BY DEF PollInv, Polled!TypeOK
  <2>2. reload[r].owner \in Nat /\ reload[r].asked \in Nat
    BY <1>1, <2>1 DEF Polled!Promises
  <2> QED
    BY <2>1, <2>2
<1>4. shown.owner \in Nat /\ shown.seen \in Nat /\ Shows
  BY <1>1 DEF PollInv, Polled!TypeOK
<1> QED
  BY <1>1, <1>2, <1>3, <1>4

LEMMA PollInit == ASSUME Polled!PollingAssumption, Polled!Init PROVE PollInv
<1>1. Polled!TypeOK
  BY PollValues
  DEF Polled!PollingAssumption, Polled!Init, Polled!TypeOK, Polled!Promises, Polled!Nothing, Polled!NoOne
<1>2. \A c \in Polled!Controllers : Lives(c)
  BY DEF Polled!Init, Lives, Polled!Controllers, Polled!Idle, Polled!NoOne, Polled!PollingAssumption
<1>3. Shows /\ \A r \in Reloads : Promised(r)
  BY DEF Polled!Init, Shows, Promised, Polled!Nothing, Polled!NoOne
<1> QED
  BY <1>1, <1>2, <1>3 DEF PollInv

-----------------------------------------------------------------------------
(* The steps.                                                              *)

LEMMA DisableInv == ASSUME Polled!PollingAssumption, PollInv, Polled!Disable PROVE PollInv'
<1>0. /\ controller # Polled!NoOne /\ controller' = Polled!NoOne
      /\ poll' = [c \in Polled!Controllers |-> Polled!Cleaned(c)]
      /\ reload' = Polled!Resolved(controller, "released")
      /\ world' = world /\ made' = made /\ shown' = shown /\ Polled!TypeOK
  BY DEF Polled!Disable, PollInv
<1>1. Polled!TypeOK'
  BY <1>0, PollFacts, ResolvedFacts, CleanedFacts DEF Polled!TypeOK, Polled!NoOne
<1>2. ASSUME NEW c \in Polled!Controllers PROVE Lives(c)'
  <2>1. Lives(c) /\ c # Polled!NoOne /\ c \in Nat /\ made \in Nat /\ controller =< made /\ controller \in Nat
    BY PollFacts
  <2>2. poll'[c] = Polled!Cleaned(c)
    BY <1>0
  <2> QED
    BY <1>0, <2>1, <2>2, CleanedFacts DEF Lives
<1>3. Shows'
  BY <1>0, PollFacts DEF Shows
<1>4. ASSUME NEW r \in Reloads PROVE Promised(r)'
  BY <1>0, PollFacts, ResolvedFacts DEF Promised
<1> QED
  BY <1>1, <1>2, <1>3, <1>4 DEF PollInv

LEMMA EnableInv == ASSUME Polled!PollingAssumption, PollInv, Polled!Enable PROVE PollInv'
<1>0. /\ made < MaxEffects /\ made' = made + 1 /\ controller' = made + 1
      /\ poll' = [c \in Polled!Controllers |->
                     IF c = made + 1 THEN Polled!Running(Polled!Idle) ELSE Polled!Cleaned(c)]
      /\ reload' = Polled!Resolved(controller, "released")
      /\ world' = world /\ shown' = Polled!Nothing /\ Polled!TypeOK
  BY DEF Polled!Enable, PollInv
<1>1. Polled!TypeOK'
  <2>1. poll' \in [Polled!Controllers -> Polled!States]
    BY <1>0, PollValues, CleanedFacts
  <2>2. reload' \in [Reloads -> Polled!Promises]
    BY <1>0, ResolvedFacts
  <2>3. shown' \in [owner : 0..MaxEffects, seen : 0..MaxUpdates]
    BY <1>0, PollFacts DEF Polled!Nothing
  <2> QED
    BY <1>0, <2>1, <2>2, <2>3, PollFacts DEF Polled!TypeOK
<1>2. ASSUME NEW c \in Polled!Controllers PROVE Lives(c)'
  <2>1. /\ Lives(c) /\ c # Polled!NoOne /\ c \in Nat /\ made \in Nat /\ controller =< made /\ controller \in Nat
        /\ world \in Nat
    BY PollFacts
  <2>2. CASE c = made + 1
    <3>1. poll'[c].flight = "asked" /\ ~poll'[c].timer /\ ~poll'[c].queued /\ ~poll'[c].cancelled
      BY <1>0, <2>2, PollValues DEF Polled!Idle
    <3> QED
      BY <1>0, <2>1, <2>2, <3>1 DEF Lives
  <2>3. CASE c # made + 1
    <3>1. poll'[c] = Polled!Cleaned(c)
      BY <1>0, <2>3
    <3> QED
      BY <1>0, <2>1, <2>3, <3>1, CleanedFacts DEF Lives
  <2> QED
    BY <2>2, <2>3
<1>3. Shows'
  BY <1>0, PollFacts DEF Shows, Polled!Nothing
<1>4. ASSUME NEW r \in Reloads PROVE Promised(r)'
  BY <1>0, PollFacts, ResolvedFacts DEF Promised
<1> QED
  BY <1>1, <1>2, <1>3, <1>4 DEF PollInv

LEMMA ReloadInv == ASSUME Polled!PollingAssumption, PollInv, NEW r \in Reloads, Polled!Reload(r) PROVE PollInv'
<1>0. /\ reload[r].status = "new" /\ reload[r] \in Polled!Promises
      /\ world' = world /\ made' = made /\ controller' = controller /\ shown' = shown /\ Polled!TypeOK
  BY PollFacts DEF Polled!Reload, PollInv
<1>1. CASE controller = Polled!NoOne
  <2>1. reload' = [reload EXCEPT ![r].status = "released"] /\ poll' = poll
    BY <1>1 DEF Polled!Reload
  <2>2. /\ reload' \in [Reloads -> Polled!Promises]
        /\ \A q \in Reloads \ {r} : reload'[q] = reload[q]
        /\ reload'[r].status = "released" /\ reload'[r].owner = reload[r].owner
        /\ reload'[r].asked = reload[r].asked
    BY <1>0, <2>1 DEF Polled!TypeOK, Polled!Promises
  <2>3. Polled!TypeOK'
    BY <1>0, <2>1, <2>2 DEF Polled!TypeOK
  <2>4. (\A c \in Polled!Controllers : Lives(c)') /\ Shows'
    BY <1>0, <2>1, PollFacts DEF Lives, Shows
  <2>5. \A q \in Reloads : Promised(q)'
    BY <1>0, <2>1, <2>2, PollFacts DEF Promised
  <2> QED
    BY <2>3, <2>4, <2>5 DEF PollInv
<1>2. CASE controller # Polled!NoOne
  <2> DEFINE queued == [poll[controller] EXCEPT !.queued = TRUE, !.timer = FALSE]
             next == IF queued.flight = "none" THEN Polled!Running(queued) ELSE queued
  <2>1. /\ reload' = [reload EXCEPT ![r] = [status |-> "waiting", owner |-> controller, asked |-> world]]
        /\ poll' = [poll EXCEPT ![controller] = next]
    BY <1>2 DEF Polled!Reload
  <2>2. /\ queued \in Polled!States /\ queued.flight = poll[controller].flight /\ queued.queued /\ ~queued.timer
        /\ queued.cancelled = poll[controller].cancelled /\ queued.seen = poll[controller].seen
    BY <1>2, PollFacts DEF Polled!States
  <2> HIDE DEF queued
  <2>3. /\ next \in Polled!States /\ next.flight # "none" /\ ~next.timer
        /\ next.cancelled = poll[controller].cancelled
        /\ next.flight = "answered" =>
              poll[controller].flight = "answered" /\ next.seen = poll[controller].seen
        /\ next.queued \/ (next.reloading /\ next.flight = "asked")
        /\ poll[controller].flight # "none" => next.queued
    BY <2>2, PollValues
  <2> HIDE DEF next
  <2>4. /\ poll' \in [Polled!Controllers -> Polled!States] /\ poll'[controller] = next
        /\ \A c \in Polled!Controllers \ {controller} : poll'[c] = poll[c]
    BY <1>0, <1>2, <2>1, <2>3, PollFacts DEF Polled!TypeOK
  <2>5. /\ reload' \in [Reloads -> Polled!Promises]
        /\ \A q \in Reloads \ {r} : reload'[q] = reload[q]
        /\ reload'[r].status = "waiting" /\ reload'[r].owner = controller /\ reload'[r].asked = world
    <3>1. [status |-> "waiting", owner |-> controller, asked |-> world] \in Polled!Promises
      BY <1>0, PollFacts DEF Polled!Promises, Polled!TypeOK
    <3> QED
      BY <1>0, <2>1, <3>1 DEF Polled!TypeOK
  <2>6. Polled!TypeOK'
    BY <1>0, <2>4, <2>5 DEF Polled!TypeOK
  <2>7. ASSUME NEW c \in Polled!Controllers PROVE Lives(c)'
    BY <1>0, <1>2, <2>3, <2>4, PollFacts DEF Lives
  <2>8. Shows'
    BY <1>0, <1>2, <2>3, <2>4, PollFacts DEF Shows
  <2>9. ASSUME NEW q \in Reloads PROVE Promised(q)'
    BY <1>0, <1>2, <2>3, <2>4, <2>5, PollFacts DEF Promised
  <2> QED
    BY <2>6, <2>7, <2>8, <2>9 DEF PollInv
<1> QED
  BY <1>1, <1>2

LEMMA TimerInv ==
    ASSUME Polled!PollingAssumption, PollInv, NEW c \in Polled!Controllers, Polled!Timer(c)
    PROVE  PollInv'
<1>0. /\ poll[c].timer /\ poll' = [poll EXCEPT ![c] = Polled!Running(poll[c])]
      /\ world' = world /\ made' = made /\ controller' = controller /\ shown' = shown /\ reload' = reload
      /\ Polled!TypeOK
  BY DEF Polled!Timer, PollInv
<1>1. c = controller /\ poll[c].flight = "none" /\ c \in Nat /\ c # Polled!NoOne
  BY <1>0, PollFacts DEF Lives
<1>2. /\ poll' \in [Polled!Controllers -> Polled!States] /\ \A x \in Polled!Controllers \ {c} : poll'[x] = poll[x]
      /\ poll'[c].flight = "asked" /\ ~poll'[c].timer /\ ~poll'[c].queued
      /\ poll'[c].cancelled = poll[c].cancelled
  BY <1>0, PollFacts, PollValues DEF Polled!TypeOK
<1>3. Polled!TypeOK'
  BY <1>0, <1>2 DEF Polled!TypeOK
<1>4. ASSUME NEW x \in Polled!Controllers PROVE Lives(x)'
  BY <1>0, <1>1, <1>2, PollFacts DEF Lives
<1>5. Shows' /\ \A r \in Reloads : Promised(r)'
  BY <1>0, <1>1, <1>2, PollFacts DEF Shows, Promised
<1> QED
  BY <1>3, <1>4, <1>5 DEF PollInv

LEMMA PollServeInv ==
    ASSUME Polled!PollingAssumption, PollInv, NEW c \in Polled!Controllers, Polled!Serve(c)
    PROVE  PollInv'
<1>0. /\ poll[c].flight = "asked"
      /\ poll' = [poll EXCEPT ![c].flight = "answered", ![c].seen = world]
      /\ world' = world /\ made' = made /\ controller' = controller /\ shown' = shown /\ reload' = reload
      /\ Polled!TypeOK
  BY DEF Polled!Serve, PollInv
<1>1. /\ poll' \in [Polled!Controllers -> Polled!States] /\ \A x \in Polled!Controllers \ {c} : poll'[x] = poll[x]
      /\ poll'[c].flight = "answered" /\ poll'[c].seen = world
      /\ poll'[c].timer = poll[c].timer /\ poll'[c].queued = poll[c].queued
      /\ poll'[c].cancelled = poll[c].cancelled /\ poll'[c].reloading = poll[c].reloading
  BY <1>0, PollFacts DEF Polled!TypeOK, Polled!States
<1>2. c =< made
  BY <1>0, PollFacts DEF Lives, Polled!Idle
<1>3. Polled!TypeOK'
  BY <1>0, <1>1 DEF Polled!TypeOK
<1>4. ASSUME NEW x \in Polled!Controllers PROVE Lives(x)'
  BY <1>0, <1>1, <1>2, PollFacts DEF Lives
<1>5. Shows' /\ \A r \in Reloads : Promised(r)'
  BY <1>0, <1>1, PollFacts DEF Shows, Promised
<1> QED
  BY <1>3, <1>4, <1>5 DEF PollInv

(* The end of a request: of one that was left for another, of one that is  *)
(* followed by another, and of one that is the last for now.               *)
LEMMA SettledFacts ==
    ASSUME Polled!PollingAssumption, PollInv, NEW c \in Polled!Controllers, NEW as \in {"fresh", "released"},
           poll[c].flight # "none", Polled!Settled(c, as)
    PROVE  /\ world' = world /\ made' = made /\ controller' = controller
           /\ poll' \in [Polled!Controllers -> Polled!States] /\ reload' \in [Reloads -> Polled!Promises]
           /\ \A x \in Polled!Controllers \ {c} : poll'[x] = poll[x]
           /\ poll'[c].cancelled = poll[c].cancelled
           /\ poll'[c].flight \in {"none", "asked"}
           /\ poll[c].cancelled => poll'[c].flight = "none" /\ ~poll'[c].timer
           /\ ~poll[c].cancelled /\ poll[c].queued =>
                 /\ poll'[c].flight = "asked" /\ poll'[c].reloading /\ ~poll'[c].timer
                 /\ ~poll'[c].queued /\ reload' = reload
           /\ ~poll[c].cancelled /\ ~poll[c].queued =>
                 /\ poll'[c].flight = "none" /\ ~poll'[c].queued
                 /\ poll'[c].timer <=> Polls /\ Polled!IsCurrent(c)
                 /\ poll[c].reloading => reload' = Polled!Resolved(c, as)
                 /\ ~poll[c].reloading => reload' = reload
           /\ reload' \in {reload, Polled!Resolved(c, as)}
<1> DEFINE over == [poll[c] EXCEPT !.flight = "none", !.seen = 0]
           next == IF over.cancelled THEN over
                   ELSE IF over.queued THEN Polled!Running(over)
                   ELSE [over EXCEPT !.timer = Polls /\ Polled!IsCurrent(c)]
<1>0. /\ poll' = [poll EXCEPT ![c] = next]
      /\ reload' = IF over.cancelled \/ (~over.queued /\ over.reloading) THEN Polled!Resolved(c, as) ELSE reload
      /\ world' = world /\ made' = made /\ controller' = controller
  BY DEF Polled!Settled
<1>1. poll[c] \in Polled!States /\ ~poll[c].timer /\ Polled!TypeOK /\ MaxUpdates \in Nat
  BY PollFacts DEF Lives, PollInv
<1>2. /\ over \in Polled!States /\ over.flight = "none" /\ over.cancelled = poll[c].cancelled
      /\ over.queued = poll[c].queued /\ over.reloading = poll[c].reloading /\ ~over.timer
  <2>1. over \in Polled!States
    <3>1. [poll[c] EXCEPT !.flight = "none"] \in Polled!States
      BY <1>1 DEF Polled!States
    <3>2. \A s \in Polled!States : [s EXCEPT !.seen = 0] \in Polled!States
      BY <1>1 DEF Polled!States
    <3>3. over = [[poll[c] EXCEPT !.flight = "none"] EXCEPT !.seen = 0]
      BY <1>1 DEF Polled!States
    <3> QED
      BY <3>1, <3>2, <3>3
  <2>2. over.flight = "none" /\ over.cancelled = poll[c].cancelled /\ over.queued = poll[c].queued
    BY <1>1 DEF Polled!States
  <2>3. over.reloading = poll[c].reloading /\ over.timer = poll[c].timer
    BY <1>1 DEF Polled!States
  <2> QED
    BY <1>1, <2>1, <2>2, <2>3
<1> HIDE DEF over
<1>3. (Polls /\ Polled!IsCurrent(c)) \in BOOLEAN
  OBVIOUS
<1>4. LET last == [over EXCEPT !.timer = Polls /\ Polled!IsCurrent(c)]
      IN  /\ last \in Polled!States /\ last.flight = "none" /\ last.cancelled = over.cancelled
          /\ last.queued = over.queued /\ last.timer <=> Polls /\ Polled!IsCurrent(c)
  BY <1>2, <1>3 DEF Polled!States
<1>5. /\ next \in Polled!States /\ next.cancelled = poll[c].cancelled
      /\ poll[c].cancelled => next.flight = "none" /\ ~next.timer
      /\ ~poll[c].cancelled /\ poll[c].queued =>
            next.flight = "asked" /\ next.reloading /\ ~next.timer /\ ~next.queued
      /\ ~poll[c].cancelled /\ ~poll[c].queued =>
            next.flight = "none" /\ ~next.queued /\ (next.timer <=> Polls /\ Polled!IsCurrent(c))
  BY <1>2, <1>4, PollValues
<1> HIDE DEF next
<1>6. /\ poll' \in [Polled!Controllers -> Polled!States] /\ poll'[c] = next
      /\ \A x \in Polled!Controllers \ {c} : poll'[x] = poll[x]
  BY <1>0, <1>1, <1>5 DEF Polled!TypeOK
<1>7. Polled!Resolved(c, as) \in [Reloads -> Polled!Promises] /\ reload \in [Reloads -> Polled!Promises]
  BY <1>1, ResolvedFacts DEF Polled!TypeOK
<1> QED
  BY <1>0, <1>2, <1>5, <1>6, <1>7

LEMMA SettledInv ==
    ASSUME Polled!PollingAssumption, PollInv, NEW c \in Polled!Controllers, Polled!Answered(c) \/ Polled!Failed(c)
    PROVE  PollInv'
<1>0. PICK as \in {"fresh", "released"} :
         /\ poll[c].flight # "none" /\ Polled!Settled(c, as)
         /\ \/ as = "released" /\ shown' = shown
            \/ /\ as = "fresh" /\ poll[c].flight = "answered"
               /\ shown' = IF Polled!IsCurrent(c) THEN [owner |-> c, seen |-> poll[c].seen] ELSE shown
  BY DEF Polled!Answered, Polled!Failed
<1>1. /\ c =< made /\ (poll[c].cancelled <=> c # controller) /\ c \in Nat /\ c # Polled!NoOne
      /\ Polled!TypeOK /\ (Polled!IsCurrent(c) <=> c = controller) /\ Lives(c)
  BY <1>0, PollFacts DEF Lives, Polled!Idle, Polled!IsCurrent, PollInv
<1>2. /\ world' = world /\ made' = made /\ controller' = controller
      /\ poll' \in [Polled!Controllers -> Polled!States] /\ reload' \in [Reloads -> Polled!Promises]
      /\ \A x \in Polled!Controllers \ {c} : poll'[x] = poll[x]
      /\ poll'[c].cancelled = poll[c].cancelled
      /\ poll'[c].flight \in {"none", "asked"}
      /\ poll[c].cancelled => poll'[c].flight = "none" /\ ~poll'[c].timer
      /\ ~poll[c].cancelled /\ poll[c].queued =>
            /\ poll'[c].flight = "asked" /\ poll'[c].reloading /\ ~poll'[c].timer
            /\ ~poll'[c].queued /\ reload' = reload
      /\ ~poll[c].cancelled /\ ~poll[c].queued =>
            /\ poll'[c].flight = "none" /\ ~poll'[c].queued
            /\ poll'[c].timer <=> Polls /\ Polled!IsCurrent(c)
            /\ poll[c].reloading => reload' = Polled!Resolved(c, as)
            /\ ~poll[c].reloading => reload' = reload
      /\ reload' \in {reload, Polled!Resolved(c, as)}
  BY <1>0, SettledFacts
<1>3. shown' \in [owner : 0..MaxEffects, seen : 0..MaxUpdates]
  <2>1. c \in 0..MaxEffects /\ poll[c].seen \in 0..MaxUpdates
    BY <1>1, PollFacts DEF Polled!States
  <2>2. [owner |-> c, seen |-> poll[c].seen] \in [owner : 0..MaxEffects, seen : 0..MaxUpdates]
    BY <2>1
  <2> QED
    BY <1>0, <1>1, <2>2 DEF Polled!TypeOK
<1>4. Polled!TypeOK'
  BY <1>1, <1>2, <1>3 DEF Polled!TypeOK
<1>5. ASSUME NEW x \in Polled!Controllers PROVE Lives(x)'
  <2>1. CASE x = c
    <3>1. c > made => FALSE
      BY <1>1, PollFacts
    <3>2. poll'[c].timer => poll'[c].flight = "none" /\ c = controller
      BY <1>1, <1>2
    <3>3. c = controller => /\ poll'[c].queued => poll'[c].flight # "none"
                            /\ Polls => poll'[c].flight # "none" \/ poll'[c].timer
      BY <1>1, <1>2
    <3> QED
      BY <1>1, <1>2, <2>1, <3>1, <3>2, <3>3 DEF Lives
  <2>2. CASE x # c
    BY <1>2, <2>2, PollFacts DEF Lives
  <2> QED
    BY <2>1, <2>2
<1>6. shown' = shown \/ (c = controller /\ shown'.owner = c /\ shown'.seen = poll[c].seen
                         /\ poll[c].flight = "answered" /\ as = "fresh")
  <2>1. CASE shown' = shown
    BY <2>1
  <2>2. CASE shown' # shown
    <3>1. as = "fresh" /\ poll[c].flight = "answered" /\ c = controller
      BY <1>0, <1>1, <2>2
    <3>2. shown' = [owner |-> c, seen |-> poll[c].seen]
      BY <1>0, <1>1, <2>2
    <3> QED
      BY <3>1, <3>2
  <2> QED
    BY <2>1, <2>2
<1>r. \A r \in Reloads :
         /\ reload'[r].owner = reload[r].owner /\ reload'[r].asked = reload[r].asked
         /\ ~(reload[r].status = "waiting" /\ reload[r].owner = c) => reload'[r] = reload[r]
         /\ (reload[r].status = "waiting" /\ reload[r].owner = c) /\ reload' = Polled!Resolved(c, as) =>
               reload'[r].status = as
  <2>1. \A r \in Reloads :
         /\ Polled!Resolved(c, as)[r].owner = reload[r].owner
         /\ Polled!Resolved(c, as)[r].asked = reload[r].asked
         /\ IF reload[r].status = "waiting" /\ reload[r].owner = c
            THEN Polled!Resolved(c, as)[r].status = as ELSE Polled!Resolved(c, as)[r] = reload[r]
    <3>1. Polled!TypeOK
      BY <1>1
    <3> SUFFICES ASSUME NEW r \in Reloads
          PROVE /\ Polled!Resolved(c, as)[r].owner = reload[r].owner /\ Polled!Resolved(c, as)[r].asked = reload[r].asked
                /\ IF reload[r].status = "waiting" /\ reload[r].owner = c
                   THEN Polled!Resolved(c, as)[r].status = as ELSE Polled!Resolved(c, as)[r] = reload[r]
      OBVIOUS
    <3>2. reload[r] \in Polled!Promises
      BY <3>1 DEF Polled!TypeOK
    <3> QED
      BY <3>2 DEF Polled!Resolved, Polled!Promises
  <2>2. CASE reload' = reload
    BY <2>1, <2>2
  <2>3. CASE reload' = Polled!Resolved(c, as)
    BY <2>1, <2>3
  <2> QED
    BY <1>2, <2>2, <2>3
<1>7. Shows'
  <2>1. controller # Polled!NoOne /\ poll'[controller].flight = "answered" =>
            c # controller /\ poll'[controller] = poll[controller]
    BY <1>2, PollFacts
  <2> QED
    BY <1>1, <1>2, <1>6, <2>1, PollFacts DEF Shows, Lives
<1>8. ASSUME NEW r \in Reloads PROVE Promised(r)'
  <2>1. /\ Promised(r) /\ Shows /\ shown.seen \in Nat /\ reload[r].asked \in Nat
        /\ poll[c].seen \in Nat /\ (controller # Polled!NoOne => controller \in Polled!Controllers)
    BY PollFacts
  <2>2. CASE c # controller
    <3>1. reload'[r] = reload[r]
      <4>1. ~(reload[r].status = "waiting" /\ reload[r].owner = c)
        BY <2>1, <2>2 DEF Promised
      <4> QED
        BY <1>r, <4>1
    <3>2. shown' = shown /\ (controller # Polled!NoOne => poll'[controller] = poll[controller])
      BY <1>2, <1>6, <2>1, <2>2
    <3> QED
      BY <1>2, <2>1, <3>1, <3>2 DEF Promised
  <2>3. CASE c = controller
    <3>1. reload[r].status = "fresh" /\ reload[r].owner = c =>
              shown'.owner = c /\ shown'.seen >= reload[r].asked
      <4>1. CASE shown' = shown
        BY <2>1, <2>3, <4>1 DEF Promised
      <4>2. CASE shown' # shown
        <5>1. /\ c # Polled!NoOne /\ shown'.owner = c /\ shown'.seen = poll[c].seen
              /\ poll[c].flight = "answered"
          BY <1>1, <1>6, <4>2
        <5>2. ASSUME reload[r].status = "fresh", reload[r].owner = c
              PROVE  shown'.seen >= reload[r].asked
          <6>1. shown.owner = c /\ shown.seen >= reload[r].asked
            BY <2>1, <2>3, <5>2 DEF Promised
          <6>2. shown.seen =< poll[c].seen
            BY <2>1, <2>3, <5>1, <6>1 DEF Shows
          <6> QED
            BY <2>1, <5>1, <6>1, <6>2
        <5> QED
          BY <5>1, <5>2
      <4> QED
        BY <4>1, <4>2
    <3>2. CASE poll[c].queued
      BY <1>1, <1>2, <2>1, <2>3, <3>1, <3>2 DEF Promised
    <3>3. CASE ~poll[c].queued
      <4>1. CASE reload[r].status = "waiting" /\ reload[r].owner = c
        <5>1. reload' = Polled!Resolved(c, as) /\ reload'[r].status = as
              /\ reload'[r].owner = c /\ reload'[r].asked = reload[r].asked
          <6>1. ~poll[c].cancelled /\ poll[c].reloading
            BY <1>1, <2>1, <2>3, <3>3, <4>1 DEF Promised
          <6> QED
            BY <1>2, <1>r, <3>3, <4>1, <6>1
        <5>2. as = "fresh" => shown'.owner = c /\ shown'.seen >= reload[r].asked
          BY <1>0, <1>1, <2>1, <2>3, <3>3, <4>1 DEF Promised
        <5> QED
          BY <1>1, <1>2, <2>1, <2>3, <5>1, <5>2 DEF Promised
      <4>2. CASE ~(reload[r].status = "waiting" /\ reload[r].owner = c)
        <5>1. reload'[r] = reload[r]
          BY <1>r, <4>2
        <5> QED
          BY <1>1, <1>2, <2>1, <2>3, <3>1, <4>2, <5>1 DEF Promised
      <4> QED
        BY <4>1, <4>2
    <3> QED
      BY <3>2, <3>3
  <2> QED
    BY <2>2, <2>3
<1> QED
  BY <1>4, <1>5, <1>7, <1>8 DEF PollInv

LEMMA PollChangeInv == ASSUME Polled!PollingAssumption, PollInv, Polled!Change PROVE PollInv'
<1>0. /\ world < MaxUpdates /\ world' = world + 1
      /\ made' = made /\ controller' = controller /\ poll' = poll /\ shown' = shown /\ reload' = reload
  BY DEF Polled!Change
<1>1. Polled!TypeOK'
  BY <1>0, PollFacts DEF Polled!TypeOK, PollInv
<1>2. ASSUME NEW c \in Polled!Controllers PROVE Lives(c)'
  BY <1>0, PollFacts DEF Lives
<1>3. Shows'
  BY <1>0, PollFacts DEF Shows
<1>4. ASSUME NEW r \in Reloads PROVE Promised(r)'
  BY <1>0, PollFacts DEF Promised
<1> QED
  BY <1>1, <1>2, <1>3, <1>4 DEF PollInv

LEMMA PollNextInv == ASSUME Polled!PollingAssumption, PollInv, [Polled!Next]_(Polled!vars) PROVE PollInv'
<1>1. CASE UNCHANGED Polled!vars
  BY <1>1 DEF Polled!vars, PollInv, Polled!TypeOK, Lives, Shows, Promised
<1>2. CASE Polled!Next
  BY <1>2, DisableInv, EnableInv, ReloadInv, TimerInv, PollServeInv, SettledInv, PollChangeInv DEF Polled!Next
<1> QED
  BY <1>1, <1>2

-----------------------------------------------------------------------------
(* The theorems.                                                           *)

(* However requests, reloads and changes of the source overlap, a page     *)
(* shows what came from its source, a reload that ends with an answer      *)
(* shows what its caller had changed, no caller is forgotten and polling   *)
(* goes on.                                                                *)
THEOREM PageIsKeptUp ==
    ASSUME Polled!PollingAssumption
    PROVE  Polled!Spec =>
               [](/\ Polled!TypeOK /\ Polled!ShownIsCurrent
                  /\ Polled!ReloadIsFresh /\ Polled!NobodyIsForgotten)
<1>1. Polled!Init => PollInv
  BY PollInit
<1>2. PollInv /\ [Polled!Next]_(Polled!vars) => PollInv'
  BY PollNextInv
<1>3. PollInv => Polled!TypeOK /\ Polled!ShownIsCurrent /\ Polled!ReloadIsFresh /\ Polled!NobodyIsForgotten
  <2> SUFFICES ASSUME PollInv
               PROVE  /\ Polled!TypeOK /\ Polled!ShownIsCurrent
                      /\ Polled!ReloadIsFresh /\ Polled!NobodyIsForgotten
    OBVIOUS
  <2>1. Polled!TypeOK
    BY DEF PollInv
  <2>2. Polled!ShownIsCurrent
    BY PollFacts DEF Shows, Polled!ShownIsCurrent
  <2>3. Polled!ReloadIsFresh
    BY PollFacts DEF Promised, Polled!ReloadIsFresh
  <2>4. Polled!NobodyIsForgotten
    BY PollFacts DEF Promised, Lives, Polled!IsCurrent, Polled!NobodyIsForgotten
  <2> QED
    BY <2>1, <2>2, <2>3, <2>4
<1> QED
  BY <1>1, <1>2, <1>3, PTL DEF Polled!Spec

(* What a page shows is never replaced by something older from the same    *)
(* source.                                                                 *)
THEOREM NothingOlder == ASSUME Polled!PollingAssumption PROVE Polled!Spec => Polled!NeverOlder
<1>1. Polled!Init => PollInv
  BY PollInit
<1>2. PollInv /\ [Polled!Next]_(Polled!vars) => PollInv'
  BY PollNextInv
<1>3. ASSUME PollInv, [Polled!Next]_(Polled!vars), shown'.owner = shown.owner PROVE shown'.seen >= shown.seen
  <2>0. shown.seen \in Nat /\ Shows
    BY <1>3, PollFacts
  <2>1. CASE shown' = shown
    BY <2>0, <2>1
  <2>2. CASE Polled!Enable
    BY <1>3, <2>0, <2>2 DEF Polled!Enable, Polled!Nothing, Shows
  <2>3. ASSUME NEW c \in Polled!Controllers, Polled!Answered(c), shown' # shown PROVE shown'.seen >= shown.seen
    <3>1. controller = c /\ shown' = [owner |-> c, seen |-> poll[c].seen] /\ poll[c].flight = "answered"
      BY <2>3 DEF Polled!Answered, Polled!IsCurrent
    <3> QED
      BY <1>3, <2>0, <3>1, PollFacts DEF Shows
  <2> QED
    BY <1>3, <2>1, <2>2, <2>3
   
    DEF Polled!Next, Polled!vars, Polled!Disable, Polled!Change, Polled!Reload, Polled!Timer, Polled!Serve, Polled!Failed
<1> QED
  BY <1>1, <1>2, <1>3, PTL DEF Polled!Spec, Polled!NeverOlder

=============================================================================
