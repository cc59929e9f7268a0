---------------------------- MODULE Arrays_proofs ----------------------------
(***************************************************************************)
(* Proofs about Arrays: the positions of an iterator stay where they are   *)
(* to stay whatever its block does, an undisturbed one gives what its name *)
(* says, and the methods lose and invent no element.                       *)
(***************************************************************************)
EXTENDS Arrays, Recursion, SequenceTheorems, FiniteSetTheorems

(***************************************************************************)
(* Counting.                                                               *)
(***************************************************************************)
Places(s, v) == {i \in 1 .. Len(s) : s[i] = v}

LEMMA PlacesCount ==
  ASSUME NEW S, NEW s \in Seq(S), NEW v
  PROVE Count(s, v) = Cardinality(Places(s, v)) /\ IsFiniteSet(Places(s, v))
        /\ Cardinality(Places(s, v)) \in Nat
<1>1. DOMAIN s = 1 .. Len(s) /\ Len(s) \in Nat
  OBVIOUS
<1>2. IsFiniteSet(1 .. Len(s))
  BY <1>1, FS_Interval
<1>3. IsFiniteSet(Places(s, v))
  BY <1>2, FS_Subset DEF Places
<1> QED
  BY <1>1, <1>3, FS_CardinalityType DEF Count, Places

LEMMA OneToOne ==
  ASSUME NEW S, NEW T, NEW f \in [S -> T], IsFiniteSet(S),
         \A x, y \in S : f[x] = f[y] => x = y, \A z \in T : \E x \in S : f[x] = z
  PROVE Cardinality(T) = Cardinality(S)
<1>1. f \in Bijection(S, T)
  BY DEF Bijection, Injection, Surjection, IsInjective
<1>2. ExistsBijection(S, T)
  BY <1>1 DEF ExistsBijection
<1> QED
  BY <1>2, FS_Bijection

\* The elements of t are those of s in places that p exchanges.
Reorders(t, s, p) ==
  /\ Len(s) = Len(t) /\ p \in [1 .. Len(s) -> 1 .. Len(s)]
  /\ \A i, j \in 1 .. Len(s) : p[i] = p[j] => i = j
  /\ \A i \in 1 .. Len(s) : t[i] = s[p[i]]

LEMMA ReorderedCount ==
  ASSUME NEW S, NEW s \in Seq(S), NEW t \in Seq(S), NEW v, NEW p, Reorders(t, s, p)
  PROVE Count(t, v) = Count(s, v)
<1> USE DEF Reorders
<1> DEFINE N == 1 .. Len(s)
<1>1. IsFiniteSet(N) /\ p \in Injection(N, N)
  <2>1. Len(s) \in Nat /\ IsFiniteSet(N)
    BY FS_Interval
  <2> QED
    BY <2>1 DEF Injection, IsInjective
<1>2. p \in Surjection(N, N)
  BY <1>1, FS_Injection
<1>3. \A k \in N : \E i \in N : p[i] = k
  BY <1>2 DEF Surjection
<1> DEFINE f == [i \in Places(t, v) |-> p[i]]
<1>4. f \in [Places(t, v) -> Places(s, v)]
  BY DEF Places
<1>5. \A x, y \in Places(t, v) : f[x] = f[y] => x = y
  BY DEF Places
<1>6. \A z \in Places(s, v) : \E x \in Places(t, v) : f[x] = z
  BY <1>3 DEF Places
<1> HIDE DEF f
<1>7. Cardinality(Places(s, v)) = Cardinality(Places(t, v))
  BY <1>4, <1>5, <1>6, PlacesCount, OneToOne
<1> QED
  BY <1>7, PlacesCount

\* t is s without the k elements behind the first j, which are r.
Cuts(s, t, r, j, k) ==
  /\ j \in Nat /\ k \in Nat /\ j + k <= Len(s)
  /\ Len(t) = Len(s) - k /\ Len(r) = k
  /\ \A i \in 1 .. Len(t) : t[i] = IF i <= j THEN s[i] ELSE s[i + k]
  /\ \A i \in 1 .. k : r[i] = s[j + i]

LEMMA CutCount ==
  ASSUME NEW S, NEW s \in Seq(S), NEW t \in Seq(S), NEW r \in Seq(S), NEW j, NEW k, NEW v,
         Cuts(s, t, r, j, k)
  PROVE Count(t, v) + Count(r, v) = Count(s, v)
<1>1. /\ j \in Nat /\ k \in Nat /\ j + k <= Len(s) /\ Len(s) \in Nat
      /\ Len(t) = Len(s) - k /\ Len(r) = k
      /\ \A i \in 1 .. Len(t) : t[i] = IF i <= j THEN s[i] ELSE s[i + k]
      /\ \A i \in 1 .. k : r[i] = s[j + i]
  BY DEF Cuts
<1> DEFINE A == {i \in Places(s, v) : i <= j \/ j + k < i}
           B == {i \in Places(s, v) : j < i /\ i <= j + k}
           f == [i \in Places(t, v) |-> IF i <= j THEN i ELSE i + k]
           g == [i \in Places(r, v) |-> j + i]
<1>2. Cardinality(A) = Cardinality(Places(t, v))
  <2>1. f \in [Places(t, v) -> A]
    <3> SUFFICES ASSUME NEW x \in Places(t, v) PROVE (IF x <= j THEN x ELSE x + k) \in A
      OBVIOUS
    <3>1. x \in 1 .. Len(t) /\ t[x] = v
      BY DEF Places
    <3>2. CASE x <= j
      <4>1. x \in 1 .. Len(s) /\ s[x] = v
        BY <1>1, <3>1, <3>2
      <4> QED
        BY <3>2, <4>1 DEF Places
    <3>3. CASE ~(x <= j)
      <4>1. x + k \in 1 .. Len(s) /\ s[x + k] = v /\ j + k < x + k
        BY <1>1, <3>1, <3>3
      <4> QED
        BY <3>3, <4>1 DEF Places
    <3> QED
      BY <3>2, <3>3
  <2>2. \A x, y \in Places(t, v) : f[x] = f[y] => x = y
    BY <1>1 DEF Places
  <2>3. ASSUME NEW z \in A PROVE \E x \in Places(t, v) : f[x] = z
    <3>1. z \in 1 .. Len(s) /\ s[z] = v /\ (z <= j \/ j + k < z)
      BY DEF Places
    <3>2. CASE z <= j
      <4>1. z \in Places(t, v) /\ f[z] = z
        BY <1>1, <3>1, <3>2 DEF Places
      <4> QED
        BY <4>1
    <3>3. CASE j + k < z
      <4>1. z - k \in 1 .. Len(t) /\ ~(z - k <= j) /\ z - k + k = z
        BY <1>1, <3>1, <3>3
      <4>2. z - k \in Places(t, v)
        BY <1>1, <3>1, <4>1 DEF Places
      <4>3. f[z - k] = z
        BY <4>1, <4>2
      <4> QED
        BY <4>2, <4>3
    <3> QED
      BY <3>1, <3>2, <3>3
  <2> HIDE DEF f, A
  <2> QED
    BY <2>1, <2>2, <2>3, PlacesCount, OneToOne
<1>3. Cardinality(B) = Cardinality(Places(r, v))
  <2>1. g \in [Places(r, v) -> B]
    BY <1>1 DEF Places
  <2>2. \A x, y \in Places(r, v) : g[x] = g[y] => x = y
    BY <1>1 DEF Places
  <2>3. ASSUME NEW z \in B PROVE \E x \in Places(r, v) : g[x] = z
    <3>1. z \in 1 .. Len(s) /\ s[z] = v /\ j < z /\ z <= j + k
      BY DEF Places
    <3>2. z - j \in 1 .. k /\ j + (z - j) = z
      BY <1>1, <3>1
    <3>3. z - j \in Places(r, v)
      BY <1>1, <3>1, <3>2 DEF Places
    <3> QED
      BY <3>2, <3>3
  <2> HIDE DEF g, B
  <2> QED
    BY <2>1, <2>2, <2>3, PlacesCount, OneToOne
<1>4. Places(s, v) = A \cup B /\ A \cap B = {}
  BY <1>1 DEF Places
<1>5. IsFiniteSet(A) /\ IsFiniteSet(B)
  <2>1. A \in SUBSET Places(s, v) /\ B \in SUBSET Places(s, v) /\ IsFiniteSet(Places(s, v))
    BY PlacesCount
  <2> HIDE DEF A, B
  <2> QED
    BY <2>1, FS_Subset
<1> HIDE DEF A, B
<1>6. Cardinality(Places(s, v)) = Cardinality(A) + Cardinality(B) - 0
  BY <1>4, <1>5, FS_Union, FS_EmptySet
<1>7. Cardinality(Places(t, v)) \in Nat /\ Cardinality(Places(r, v)) \in Nat
  BY PlacesCount
<1> QED
  BY <1>2, <1>3, <1>6, <1>7, PlacesCount

(***************************************************************************)
(* Elements at some places.                                                *)
(***************************************************************************)
LEMMA PickedSubsequence ==
  ASSUME NEW S, NEW s \in Seq(S), NEW P
  PROVE IsSubsequence(Picked(s, P), s)
<1>1. PICK u : u = Picked(s, P)
  OBVIOUS
<1>2. PICK g : Picks(s, P, Len(s), u, g)
  BY <1>1, PickedFrom
<1>3. u \in Seq(S)
  BY <1>1, PickedFacts
<1>4. DOMAIN u = 1 .. Len(u) /\ DOMAIN s = 1 .. Len(s)
  BY <1>3
<1>5. IsSubsequence(u, s)
  BY <1>2, <1>4 DEF Picks, IsSubsequence
<1> QED
  BY <1>1, <1>5

LEMMA UniqueFacts ==
  ASSUME NEW S, NEW s \in Seq(S)
  PROVE /\ Unique(s) \in Seq(S) /\ Len(Unique(s)) <= Len(s)
        /\ IsSubsequence(Unique(s), s)
        /\ ToSet(Unique(s)) = ToSet(s) /\ IsInjective(Unique(s))
<1> DEFINE P == {i \in DOMAIN s : \A j \in 1 .. i - 1 : s[j] # s[i]}
<1>1. PICK u : u = Unique(s)
  OBVIOUS
<1>2. u = Picked(s, P)
  BY <1>1 DEF Unique
<1>3. \A i \in P : i \in 1 .. Len(s) /\ \A j \in 1 .. i - 1 : s[j] # s[i]
  OBVIOUS
<1>4. \A i \in 1 .. Len(s) : (\A j \in 1 .. i - 1 : s[j] # s[i]) => i \in P
  OBVIOUS
<1> HIDE DEF P
<1>5. u \in Seq(S) /\ Len(u) <= Len(s) /\ IsSubsequence(u, s)
  BY <1>2, PickedFacts, PickedSubsequence
<1>6. PICK g : Picks(s, P, Len(s), u, g)
  BY <1>2, PickedFrom
<1>7. /\ g \in [1 .. Len(u) -> 1 .. Len(s)]
      /\ \A i, j \in 1 .. Len(u) : i < j => g[i] < g[j]
      /\ \A i \in 1 .. Len(u) : g[i] \in P /\ u[i] = s[g[i]]
      /\ \A k \in 1 .. Len(s) : k \in P => \E i \in 1 .. Len(u) : g[i] = k
  BY <1>6 DEF Picks
<1>8. DOMAIN u = 1 .. Len(u) /\ DOMAIN s = 1 .. Len(s) /\ Len(u) \in Nat /\ Len(s) \in Nat
  BY <1>5
<1>9. \A i, j \in 1 .. Len(u) : i < j => u[i] # u[j]
  <2> SUFFICES ASSUME NEW i \in 1 .. Len(u), NEW j \in 1 .. Len(u), i < j PROVE u[i] # u[j]
    OBVIOUS
  <2>1. g[i] \in 1 .. Len(s) /\ g[j] \in 1 .. Len(s) /\ g[i] < g[j] /\ g[j] \in P
    BY <1>7
  <2>2. g[i] \in 1 .. g[j] - 1
    BY <1>8, <2>1
  <2>3. s[g[i]] # s[g[j]]
    BY <1>3, <2>1, <2>2
  <2> QED
    BY <1>7, <2>3
<1>10. IsInjective(u)
  <2> SUFFICES ASSUME NEW i \in 1 .. Len(u), NEW j \in 1 .. Len(u), u[i] = u[j] PROVE i = j
    BY <1>8 DEF IsInjective
  <2>1. i < j \/ j < i \/ i = j
    BY <1>8
  <2> QED
    BY <1>9, <2>1
<1>11. ASSUME NEW k \in 1 .. Len(s) PROVE \E i \in 1 .. Len(u) : u[i] = s[k]
  <2> DEFINE W == {i \in 1 .. Len(s) : s[i] = s[k]}
  <2>1. W \subseteq Nat /\ W # {}
    OBVIOUS
  <2>2. PICK m \in W : \A i \in W : m <= i
    <3> HIDE DEF W
    <3> QED
      BY <2>1, MinExists
  <2>3. m \in 1 .. Len(s) /\ s[m] = s[k]
    OBVIOUS
  <2>4. \A j \in 1 .. m - 1 : j \in 1 .. Len(s) /\ ~(m <= j)
    BY <1>8, <2>3
  <2>5. \A j \in 1 .. m - 1 : s[j] # s[m]
    BY <2>2, <2>3, <2>4
  <2>6. m \in P
    BY <1>4, <2>3, <2>5
  <2> QED
    BY <1>7, <2>3, <2>6
<1>12. ToSet(u) = ToSet(s)
  <2>1. ASSUME NEW x \in ToSet(u) PROVE x \in ToSet(s)
    <3>1. PICK i \in 1 .. Len(u) : x = u[i]
      BY <1>8 DEF ToSet
    <3> QED
      BY <1>7, <1>8, <3>1 DEF ToSet
  <2>2. ASSUME NEW x \in ToSet(s) PROVE x \in ToSet(u)
    <3>1. PICK k \in 1 .. Len(s) : x = s[k]
      BY <1>8 DEF ToSet
    <3> QED
      BY <1>8, <1>11, <3>1 DEF ToSet
  <2> QED
    BY <2>1, <2>2
<1> QED
  BY <1>1, <1>5, <1>10, <1>12

(***************************************************************************)
(* Elements that go, elements that come.                                   *)
(***************************************************************************)
LEMMA CutSubsequence ==
  ASSUME NEW S, NEW s \in Seq(S), NEW t \in Seq(S), NEW r, NEW j, NEW k, Cuts(s, t, r, j, k)
  PROVE IsSubsequence(t, s)
<1>1. /\ j \in Nat /\ k \in Nat /\ j + k <= Len(s) /\ Len(s) \in Nat
      /\ Len(t) = Len(s) - k
      /\ \A i \in 1 .. Len(t) : t[i] = IF i <= j THEN s[i] ELSE s[i + k]
  BY DEF Cuts
<1> DEFINE f == [i \in 1 .. Len(t) |-> IF i <= j THEN i ELSE i + k]
<1>2. f \in [1 .. Len(t) -> 1 .. Len(s)]
  BY <1>1
<1>3. \A i, m \in 1 .. Len(t) : i < m => f[i] < f[m]
  BY <1>1
<1>4. \A i \in 1 .. Len(t) : t[i] = s[f[i]]
  BY <1>1
<1>5. DOMAIN t = 1 .. Len(t) /\ DOMAIN s = 1 .. Len(s)
  OBVIOUS
<1> HIDE DEF f
<1> QED
  BY <1>2, <1>3, <1>4, <1>5 DEF IsSubsequence

LEMMA SelfSubsequence ==
  ASSUME NEW S, NEW s \in Seq(S)
  PROVE IsSubsequence(s, s)
<1>1. <<>> \in Seq(S) /\ Len(<<>>) = 0
  OBVIOUS
<1>2. Cuts(s, s, <<>>, 0, 0)
  BY <1>1 DEF Cuts
<1> QED
  BY <1>2, CutSubsequence

\* A piece taken out of the middle.
LEMMA CutMiddle ==
  ASSUME NEW S, NEW s \in Seq(S), NEW j \in Nat, NEW k \in Nat, j + k <= Len(s)
  PROVE LET t == SubSeq(s, 1, j) \o SubSeq(s, j + k + 1, Len(s))
            r == SubSeq(s, j + 1, j + k)
        IN  t \in Seq(S) /\ r \in Seq(S) /\ Len(t) = Len(s) - k /\ Len(r) = k /\ Cuts(s, t, r, j, k)
<1> DEFINE n == Len(s)
           a == SubSeq(s, 1, j)
           b == SubSeq(s, j + k + 1, n)
           r == SubSeq(s, j + 1, j + k)
           t == a \o b
<1>1. n \in Nat /\ \A i \in 1 .. n : s[i] \in S
  OBVIOUS
<1> HIDE DEF n
<1>2. a \in Seq(S) /\ Len(a) = j /\ \A i \in 1 .. j : a[i] = s[i]
  <2>1. \A i \in 1 .. j : s[i] \in S
    BY <1>1 DEF n
  <2> QED
    BY <2>1, SubSeqProperties
<1>3. b \in Seq(S) /\ Len(b) = n - (j + k) /\ \A i \in 1 .. n - (j + k) : b[i] = s[i + j + k]
  <2>1. \A i \in j + k + 1 .. n : s[i] \in S
    BY <1>1 DEF n
  <2>2. /\ SubSeq(s, j + k + 1, n) \in Seq(S)
        /\ Len(SubSeq(s, j + k + 1, n)) = IF j + k + 1 <= n THEN n - (j + k + 1) + 1 ELSE 0
        /\ \A i \in 1 .. n - (j + k + 1) + 1 : SubSeq(s, j + k + 1, n)[i] = s[j + k + 1 + i - 1]
    BY <1>1, <2>1, SubSeqProperties
  <2> QED
    BY <1>1, <2>2 DEF n
<1>4. r \in Seq(S) /\ Len(r) = k /\ \A i \in 1 .. k : r[i] = s[j + i]
  <2>1. \A i \in j + 1 .. j + k : s[i] \in S
    BY <1>1 DEF n
  <2>2. /\ r \in Seq(S)
        /\ Len(r) = IF j + 1 <= j + k THEN j + k - (j + 1) + 1 ELSE 0
        /\ \A i \in 1 .. j + k - (j + 1) + 1 : r[i] = s[j + 1 + i - 1]
    BY <2>1, SubSeqProperties
  <2> QED
    BY <2>2
<1> HIDE DEF a, b, r
<1>5. t \in Seq(S) /\ Len(t) = n - k
      /\ \A i \in 1 .. n - k : t[i] = IF i <= j THEN a[i] ELSE b[i - j]
  BY <1>1, <1>2, <1>3, ConcatProperties DEF n
<1> HIDE DEF t
<1>6. \A i \in 1 .. n - k : t[i] = IF i <= j THEN s[i] ELSE s[i + k]
  <2> SUFFICES ASSUME NEW i \in 1 .. n - k PROVE t[i] = IF i <= j THEN s[i] ELSE s[i + k]
    OBVIOUS
  <2>1. CASE i <= j
    BY <1>1, <1>2, <1>5, <2>1
  <2>2. CASE ~(i <= j)
    <3>1. i - j \in 1 .. n - (j + k) /\ (i - j) + j + k = i + k
      BY <1>1, <2>2
    <3>2. b[i - j] = s[i + k]
      BY <1>3, <3>1
    <3> QED
      BY <1>5, <2>2, <3>2
  <2> QED
    BY <2>1, <2>2
<1>7. Cuts(s, t, r, j, k)
  BY <1>1, <1>4, <1>5, <1>6 DEF Cuts, n
<1> QED
  BY <1>4, <1>5, <1>7 DEF n, t, a, b, r

(***************************************************************************)
(* Sorting.                                                                *)
(***************************************************************************)
LEMMA MaxExists ==
  ASSUME NEW N \in Nat, NEW M, M \subseteq 0 .. N, M # {}
  PROVE Max(M) \in M /\ \A j \in M : j <= Max(M)
<1> DEFINE T == {N - x : x \in M}
<1>0. \A x \in M : x \in 0 .. N /\ N - x \in Nat
  <2> SUFFICES ASSUME NEW x \in M PROVE x \in 0 .. N /\ N - x \in Nat
    OBVIOUS
  <2>1. x \in 0 .. N
    OBVIOUS
  <2> QED
    BY <2>1
<1>1. T \subseteq Nat /\ T # {}
  BY <1>0
<1>2. PICK m \in T : \A j \in T : m <= j
  <2> HIDE DEF T
  <2> QED
    BY <1>1, MinExists
<1>3. PICK k \in M : m = N - k
  OBVIOUS
<1>4. ASSUME NEW j \in M PROVE k >= j
  <2>1. N - j \in T
    OBVIOUS
  <2>2. N - k <= N - j
    BY <1>2, <1>3, <2>1
  <2>3. j \in Int /\ k \in Int
    BY <1>0
  <2> QED
    BY <2>2, <2>3
<1>5. Max(M) \in M /\ \A j \in M : Max(M) >= j
  BY <1>4, Zenon DEF Max
<1>6. \A j \in M : Max(M) >= j => j <= Max(M)
  <2>1. PICK x \in M : x = Max(M)
    BY <1>5
  <2> QED
    BY <1>0, <2>1
<1> QED
  BY <1>5, <1>6

Ascending(s) == \A i, j \in 1 .. Len(s) : i < j => s[i] <= s[j]

LEMMA PlacedFacts ==
  ASSUME NEW S, S \subseteq Int, NEW s \in Seq(S), NEW x \in S
  PROVE /\ Placed(s, x) \in Seq(S) /\ Len(Placed(s, x)) = Len(s) + 1
        /\ \E k : Cuts(Placed(s, x), s, <<x>>, k, 1)
        /\ Ascending(s) => Ascending(Placed(s, x))
<1> DEFINE n == Len(s)
           M == {0} \cup {i \in DOMAIN s : s[i] <= x}
<1>1. n \in Nat /\ DOMAIN s = 1 .. n /\ \A i \in 1 .. n : s[i] \in S /\ s[i] \in Int
  <2>1. n \in Nat /\ DOMAIN s = 1 .. n /\ \A i \in 1 .. n : s[i] \in S
    OBVIOUS
  <2> QED
    BY <2>1
<1>2. M \subseteq 0 .. n /\ M # {}
  BY <1>1
<1>3. PICK k : k = Max(M)
  OBVIOUS
<1>4. k \in M /\ \A j \in M : j <= k
  <2> HIDE DEF M, n
  <2> QED
    BY <1>1, <1>2, <1>3, MaxExists
<1>5. k \in 0 .. n /\ (k # 0 => s[k] <= x)
  BY <1>1, <1>4
<1>6. \A i \in 1 .. n : k < i => ~(s[i] <= x)
  BY <1>1, <1>4
<1>7. PICK t : t = Placed(s, x)
  OBVIOUS
<1>8. t = InsertAt(s, k + 1, x)
  BY <1>3, <1>7 DEF Placed
<1> HIDE DEF n, M
<1> DEFINE a == SubSeq(s, 1, k)
           b == SubSeq(s, k + 1, n)
           c == a \o <<x>>
<1>9. t = c \o b
  <2>1. PICK p : p = k + 1
    OBVIOUS
  <2>2. p - 1 = k
    BY <1>5, <2>1
  <2>3. t = SubSeq(s, 1, p - 1) \o <<x>> \o SubSeq(s, p, Len(s))
    BY <1>8, <2>1, Zenon DEF InsertAt
  <2> QED
    BY <2>1, <2>2, <2>3 DEF n
<1>10. a \in Seq(S) /\ Len(a) = k /\ \A i \in 1 .. k : a[i] = s[i]
  <2>1. \A i \in 1 .. k : s[i] \in S
    BY <1>1, <1>5
  <2> QED
    BY <1>5, <2>1, SubSeqProperties
<1>11. b \in Seq(S) /\ Len(b) = n - k /\ \A i \in 1 .. n - k : b[i] = s[k + i]
  <2>1. \A i \in k + 1 .. n : s[i] \in S
    BY <1>1, <1>5
  <2>2. /\ b \in Seq(S) /\ Len(b) = IF k + 1 <= n THEN n - (k + 1) + 1 ELSE 0
        /\ \A i \in 1 .. n - (k + 1) + 1 : b[i] = s[k + 1 + i - 1]
    BY <1>1, <1>5, <2>1, SubSeqProperties
  <2> QED
    BY <1>1, <1>5, <2>2
<1>12. <<x>> \in Seq(S) /\ Len(<<x>>) = 1 /\ <<x>>[1] = x
  OBVIOUS
<1> HIDE DEF a, b
<1>13. /\ c \in Seq(S) /\ Len(c) = k + 1
       /\ \A i \in 1 .. k + 1 : c[i] = IF i <= k THEN s[i] ELSE x
  <2>1. c \in Seq(S) /\ Len(c) = k + 1
        /\ \A i \in 1 .. k + 1 : c[i] = IF i <= k THEN a[i] ELSE <<x>>[i - k]
    BY <1>5, <1>10, <1>12, ConcatProperties
  <2>2. \A i \in 1 .. k + 1 : i <= k \/ i - k = 1
    BY <1>5
  <2> HIDE DEF c
  <2> QED
    BY <1>5, <1>10, <1>12, <2>1, <2>2
<1> HIDE DEF c
<1>14. /\ t \in Seq(S) /\ Len(t) = n + 1
       /\ \A i \in 1 .. n + 1 : t[i] = IF i <= k THEN s[i] ELSE IF i = k + 1 THEN x ELSE s[i - 1]
  <2>0. /\ c \o b \in Seq(S) /\ Len(c \o b) = Len(c) + Len(b)
        /\ \A i \in 1 .. Len(c) + Len(b) :
               (c \o b)[i] = IF i <= Len(c) THEN c[i] ELSE b[i - Len(c)]
    BY <1>11, <1>13, ConcatProperties
  <2>1. t \in Seq(S) /\ Len(t) = k + 1 + (n - k)
        /\ \A i \in 1 .. k + 1 + (n - k) : t[i] = IF i <= k + 1 THEN c[i] ELSE b[i - (k + 1)]
    BY <1>9, <1>11, <1>13, <2>0
  <2>2. k + 1 + (n - k) = n + 1
    BY <1>1, <1>5
  <2>3. ASSUME NEW i \in 1 .. n + 1
        PROVE t[i] = IF i <= k THEN s[i] ELSE IF i = k + 1 THEN x ELSE s[i - 1]
    <3>1. CASE i <= k + 1
      <4>1. i \in 1 .. k + 1 /\ t[i] = c[i]
        BY <1>5, <2>1, <2>2, <3>1
      <4>2. i <= k \/ i = k + 1
        BY <1>5, <3>1
      <4> QED
        BY <1>5, <1>13, <4>1, <4>2
    <3>2. CASE ~(i <= k + 1)
      <4>1. i - (k + 1) \in 1 .. n - k /\ k + (i - (k + 1)) = i - 1 /\ ~(i <= k) /\ i # k + 1
        BY <1>1, <1>5, <3>2
      <4>2. b[i - (k + 1)] = s[i - 1]
        BY <1>11, <4>1
      <4> QED
        BY <2>1, <2>2, <3>2, <4>1, <4>2
    <3> QED
      BY <3>1, <3>2
  <2> QED
    BY <2>1, <2>2, <2>3
<1>15. Cuts(t, s, <<x>>, k, 1)
  <2>1. k \in Nat /\ 1 \in Nat /\ k + 1 <= Len(t) /\ n = Len(t) - 1
    BY <1>1, <1>5, <1>14
  <2>2. ASSUME NEW i \in 1 .. n PROVE s[i] = IF i <= k THEN t[i] ELSE t[i + 1]
    <3>1. i \in 1 .. n + 1 /\ i + 1 \in 1 .. n + 1 /\ i + 1 - 1 = i
      BY <1>1
    <3>2. CASE i <= k
      BY <1>14, <3>1, <3>2
    <3>3. CASE ~(i <= k)
      <4>1. ~(i + 1 <= k) /\ i + 1 # k + 1
        BY <1>5, <3>3
      <4> QED
        BY <1>14, <3>1, <3>3, <4>1
    <3> QED
      BY <3>2, <3>3
  <2>3. ASSUME NEW i \in 1 .. 1 PROVE <<x>>[i] = t[k + i]
    <3>1. i = 1 /\ k + 1 \in 1 .. n + 1 /\ ~(k + 1 <= k)
      BY <1>1, <1>5
    <3> QED
      BY <1>12, <1>14, <3>1
  <2> QED
    BY <1>12, <2>1, <2>2, <2>3 DEF Cuts, n
<1>16. ASSUME Ascending(s) PROVE Ascending(t)
  <2>1. \A i, j \in 1 .. n : i < j => s[i] <= s[j]
    BY <1>16 DEF Ascending, n
  <2>2. \A i \in 1 .. n : i <= k => s[i] <= x
    <3> SUFFICES ASSUME NEW i \in 1 .. n, i <= k PROVE s[i] <= x
      OBVIOUS
    <3>1. k \in 1 .. n /\ s[k] <= x /\ (i = k \/ i < k)
      BY <1>1, <1>5
    <3>2. s[i] <= s[k] \/ i = k
      BY <2>1, <3>1
    <3> QED
      BY <1>1, <3>1, <3>2
  <2>3. \A i \in 1 .. n : k < i => x <= s[i]
    BY <1>1, <1>6
  <2> SUFFICES ASSUME NEW i \in 1 .. n + 1, NEW j \in 1 .. n + 1, i < j PROVE t[i] <= t[j]
    BY <1>14 DEF Ascending
  <2>4. CASE i <= k
    <3>1. i \in 1 .. n /\ t[i] = s[i]
      BY <1>1, <1>5, <1>14, <2>4
    <3>2. CASE j <= k
      <4>1. j \in 1 .. n /\ t[j] = s[j]
        BY <1>1, <1>5, <1>14, <3>2
      <4> QED
        BY <2>1, <3>1, <4>1
    <3>3. CASE j = k + 1
      <4>1. t[j] = x
        BY <1>5, <1>14, <3>3
      <4> QED
        BY <2>2, <2>4, <3>1, <4>1
    <3>4. CASE k + 1 < j
      <4>1. j - 1 \in 1 .. n /\ k < j - 1 /\ ~(j <= k) /\ j # k + 1
        BY <1>1, <1>5, <3>4
      <4>2. t[j] = s[j - 1] /\ s[i] <= x /\ x <= s[j - 1]
        BY <1>14, <2>2, <2>3, <2>4, <3>1, <4>1
      <4> QED
        BY <1>1, <3>1, <4>1, <4>2
    <3> QED
      BY <1>1, <1>5, <3>2, <3>3, <3>4
  <2>5. CASE k < i
    <3>1. j - 1 \in 1 .. n /\ k < j - 1 /\ ~(j <= k) /\ j # k + 1
      BY <1>1, <1>5, <2>5
    <3>2. t[j] = s[j - 1] /\ x <= s[j - 1]
      BY <1>14, <2>3, <3>1
    <3>3. CASE i = k + 1
      <4>1. t[i] = x
        BY <1>5, <1>14, <3>3
      <4> QED
        BY <3>2, <4>1
    <3>4. CASE i # k + 1
      <4>1. i - 1 \in 1 .. n /\ i - 1 < j - 1 /\ ~(i <= k)
        BY <1>1, <1>5, <2>5, <3>4
      <4>2. t[i] = s[i - 1] /\ s[i - 1] <= s[j - 1]
        BY <1>14, <2>1, <3>1, <3>4, <4>1
      <4> QED
        BY <3>2, <4>2
    <3> QED
      BY <3>3, <3>4
  <2> QED
    BY <1>1, <1>5, <2>4, <2>5
<1> QED
  BY <1>7, <1>14, <1>15, <1>16 DEF n

Sorts(f, S, s) ==
  /\ f \in [0 .. Len(s) -> Seq(S)] /\ f[Len(s)] = Sorted(s) /\ f[0] = <<>>
  /\ \A n \in 1 .. Len(s) : f[n] = Placed(f[n - 1], s[n])

LEMMA SortedSteps ==
  ASSUME NEW S, S \subseteq Int, NEW s \in Seq(S)
  PROVE \E f : Sorts(f, S, s)
<1> DEFINE N == Len(s)
           Q == Seq(S)
           step == [n \in 1 .. N |-> [u \in Q |-> Placed(u, s[n])]]
           Def(f) == f = [n \in 0 .. N |-> IF n = 0 THEN <<>>
                             ELSE Placed(f[n - 1], s[n])]
           sorted == CHOOSE f : Def(f)
<1>1. N \in Nat /\ \A n \in 1 .. N : s[n] \in S
  OBVIOUS
<1>2. \A n \in 1 .. N : \A u \in Q : (Placed(u, s[n])) \in Q
  BY <1>1, PlacedFacts
<1>3. step \in [1 .. N -> [Q -> Q]]
  BY <1>2
<1>4. \A n \in 1 .. N : \A u \in Q : step[n][u] = Placed(u, s[n])
  OBVIOUS
<1>5. Sorted(s) = sorted[N]
  BY Zenon DEF Sorted
<1> HIDE DEF step, N
<1>6. PICK f \in [0 .. N -> Q] : Iterates(f, N, <<>>, step)
  <2>1. <<>> \in Q
    OBVIOUS
  <2> HIDE DEF Q
  <2> QED
    BY <1>1, <1>3, <2>1, Recursion
<1>7. Def(f)
  <2>1. ASSUME NEW n \in 0 .. N
        PROVE f[n] = IF n = 0 THEN <<>>
                     ELSE Placed(f[n - 1], s[n])
    <3>1. CASE n = 0
      BY <1>6, <3>1 DEF Iterates
    <3>2. CASE n # 0
      <4>1. n \in 1 .. N /\ n - 1 \in 0 .. N
        BY <1>1, <3>2
      <4>2. f[n] = step[n][f[n - 1]] /\ f[n - 1] \in Q
        BY <1>6, <4>1 DEF Iterates
      <4> HIDE DEF Q
      <4>3. step[n][f[n - 1]] = Placed(f[n - 1], s[n])
        BY <1>4, <4>1, <4>2
      <4> QED
        BY <3>2, <4>2, <4>3
    <3> QED
      BY <3>1, <3>2
  <2> QED
    BY <2>1
<1> HIDE DEF Def
<1>8. Def(sorted)
  BY <1>7, Zenon
<1> HIDE DEF sorted
<1>9. sorted = [n \in 0 .. N |-> IF n = 0 THEN <<>> ELSE Placed(sorted[n - 1], s[n])]
  BY <1>8 DEF Def
<1>10. \A n \in 0 .. N : sorted[n] = f[n]
  <2> DEFINE T == {n \in 0 .. N : sorted[n] = f[n]}
  <2>1. 0 \in T
    BY <1>1, <1>6, <1>9 DEF Iterates
  <2>2. ASSUME NEW n \in 1 .. N, n - 1 \in T PROVE n \in T
    <3>1. n \in 0 .. N /\ n - 1 \in 0 .. N /\ n # 0 /\ sorted[n - 1] = f[n - 1]
      BY <1>1, <2>2
    <3>2. sorted[n] = Placed(sorted[n - 1], s[n])
      BY <1>9, <3>1
    <3>3. f[n] = step[n][f[n - 1]] /\ f[n - 1] \in Q
      BY <1>6, <3>1 DEF Iterates
    <3> HIDE DEF Q
    <3>4. f[n] = Placed(f[n - 1], s[n])
      BY <1>4, <3>3
    <3>5. sorted[n] = f[n]
      BY <3>1, <3>2, <3>4
    <3> QED
      BY <3>1, <3>5
  <2> HIDE DEF T
  <2>3. \A n \in 0 .. N : n \in T
    BY <1>1, <2>1, <2>2, UpTo
  <2> QED
    BY <2>3 DEF T
<1>11. \A n \in 1 .. N : f[n] = Placed(f[n - 1], s[n])
  <2> SUFFICES ASSUME NEW n \in 1 .. N PROVE f[n] = Placed(f[n - 1], s[n])
    OBVIOUS
  <2>1. n \in 0 .. N /\ n # 0
    BY <1>1
  <2> QED
    BY <1>7, <2>1 DEF Def
<1>12. f[0] = <<>> /\ N \in 0 .. N
  BY <1>1, <1>6 DEF Iterates
<1>13. Sorts(f, S, s)
  BY <1>5, <1>6, <1>10, <1>11, <1>12 DEF N, Sorts
<1> QED
  BY <1>13

LEMMA SortedFacts ==
  ASSUME NEW S, S \subseteq Int, NEW s \in Seq(S)
  PROVE /\ Sorted(s) \in Seq(S) /\ Len(Sorted(s)) = Len(s)
        /\ \A v : Count(Sorted(s), v) = Count(s, v)
        /\ Ascending(Sorted(s))
<1>1. PICK f : Sorts(f, S, s)
  BY SortedSteps
<1>2. /\ f \in [0 .. Len(s) -> Seq(S)] /\ f[Len(s)] = Sorted(s) /\ f[0] = <<>>
      /\ \A n \in 1 .. Len(s) : f[n] = Placed(f[n - 1], s[n])
  BY <1>1 DEF Sorts
<1>3. Len(s) \in Nat /\ \A i \in 1 .. Len(s) : s[i] \in S
  OBVIOUS
<1>4. \A n \in 0 .. Len(s) : /\ SubSeq(s, 1, n) \in Seq(S) /\ Len(SubSeq(s, 1, n)) = n
                             /\ \A i \in 1 .. n : SubSeq(s, 1, n)[i] = s[i]
  <2> SUFFICES ASSUME NEW n \in 0 .. Len(s)
               PROVE /\ SubSeq(s, 1, n) \in Seq(S) /\ Len(SubSeq(s, 1, n)) = n
                     /\ \A i \in 1 .. n : SubSeq(s, 1, n)[i] = s[i]
    OBVIOUS
  <2>1. \A i \in 1 .. n : s[i] \in S
    BY <1>3
  <2> QED
    BY <2>1, SubSeqProperties
<1> DEFINE Good(n) == /\ Len(f[n]) = n /\ Ascending(f[n])
                      /\ \A v : Count(f[n], v) = Count(SubSeq(s, 1, n), v)
           T == {n \in 0 .. Len(s) : Good(n)}
<1>5. 0 \in T
  <2>1. SubSeq(s, 1, 0) = <<>> /\ Len(<<>>) = 0 /\ 1 .. 0 = {}
    <3>1. Len(SubSeq(s, 1, 0)) = 0 /\ SubSeq(s, 1, 0) \in Seq(S)
      BY <1>3, <1>4
    <3> QED
      BY <3>1
  <2>2. Ascending(<<>>)
    BY <2>1 DEF Ascending
  <2>3. 0 \in 0 .. Len(s)
    BY <1>3
  <2>4. Len(f[0]) = 0 /\ Ascending(f[0]) /\ \A v : Count(f[0], v) = Count(SubSeq(s, 1, 0), v)
    BY <1>2, <2>1, <2>2
  <2> QED
    BY <2>3, <2>4
<1>6. ASSUME NEW n \in 1 .. Len(s), n - 1 \in T PROVE n \in T
  <2>1. /\ Len(f[n - 1]) = n - 1 /\ Ascending(f[n - 1])
        /\ \A v : Count(f[n - 1], v) = Count(SubSeq(s, 1, n - 1), v)
    BY <1>6
  <2>2. n - 1 \in 0 .. Len(s) /\ n \in 0 .. Len(s) /\ n \in Nat
    BY <1>3
  <2> HIDE DEF T
  <2>3. PICK u, w, x : u = f[n - 1] /\ w = f[n] /\ x = s[n]
    OBVIOUS
  <2>4. u \in Seq(S) /\ w = Placed(u, x) /\ w \in Seq(S) /\ x \in S
    BY <1>2, <1>3, <2>2, <2>3
  <2>5. PICK p, q : p = SubSeq(s, 1, n - 1) /\ q = SubSeq(s, 1, n)
    OBVIOUS
  <2>6. /\ p \in Seq(S) /\ Len(p) = n - 1 /\ \A i \in 1 .. n - 1 : p[i] = s[i]
        /\ q \in Seq(S) /\ Len(q) = n /\ \A i \in 1 .. n : q[i] = s[i]
    BY <1>4, <2>2, <2>5
  <2>7. Len(u) = n - 1 /\ Ascending(u) /\ \A v : Count(u, v) = Count(p, v)
    BY <2>1, <2>3, <2>5
  <2>8. PICK k : Cuts(w, u, <<x>>, k, 1)
    BY <2>4, PlacedFacts
  <2>9. Len(w) = n /\ Ascending(w)
    <3>1. Len(w) = Len(u) + 1 /\ Ascending(w)
      BY <2>4, <2>7, PlacedFacts
    <3> QED
      BY <2>2, <2>7, <3>1
  <2>10. Cuts(q, p, <<x>>, n - 1, 1)
    <3>1. \A i \in 1 .. n - 1 : i \in 1 .. n /\ i <= n - 1
      BY <2>2
    <3>2. n \in 1 .. n /\ n - 1 + 1 = n /\ n - 1 \in Nat /\ 1 .. 1 = {1} /\ 1 \in Nat /\ n <= n
      BY <2>2
    <3>3. Len(<<x>>) = 1 /\ <<x>>[1] = x
      OBVIOUS
    <3>4. \A i \in 1 .. Len(p) : p[i] = IF i <= n - 1 THEN q[i] ELSE q[i + 1]
      BY <2>6, <3>1
    <3>5. \A i \in 1 .. 1 : <<x>>[i] = q[n - 1 + i]
      BY <2>3, <2>6, <3>2, <3>3
    <3> QED
      BY <2>6, <3>2, <3>3, <3>4, <3>5 DEF Cuts
  <2>11. ASSUME NEW v PROVE Count(w, v) = Count(q, v)
    <3>1. PICK z, m, one : z = <<x>> /\ m = n - 1 /\ one = 1
      OBVIOUS
    <3>2. z \in Seq(S) /\ Cuts(w, u, z, k, one) /\ Cuts(q, p, z, m, one)
      BY <2>4, <2>8, <2>10, <3>1
    <3>3. w \in Seq(S) /\ u \in Seq(S) /\ p \in Seq(S) /\ q \in Seq(S)
      BY <2>4, <2>6
    <3>4. Count(u, v) + Count(z, v) = Count(w, v)
      BY <3>2, <3>3, CutCount
    <3>5. Count(p, v) + Count(z, v) = Count(q, v)
      BY <3>2, <3>3, CutCount
    <3> QED
      BY <2>7, <3>4, <3>5
  <2>12. Len(f[n]) = n /\ Ascending(f[n]) /\ \A v : Count(f[n], v) = Count(SubSeq(s, 1, n), v)
    BY <2>3, <2>5, <2>9, <2>11
  <2> QED
    BY <2>2, <2>12 DEF T
<1> HIDE DEF T
<1>7. \A n \in 0 .. Len(s) : n \in T
  BY <1>3, <1>5, <1>6, UpTo
<1>8. Len(s) \in T /\ Len(s) \in 0 .. Len(s)
  BY <1>3, <1>7
<1>9. Good(Len(s))
  BY <1>8 DEF T
<1>10. SubSeq(s, 1, Len(s)) = s
  BY SubSeqFull
<1> QED
  BY <1>2, <1>8, <1>9, <1>10

(***************************************************************************)
(* Pieces put together.                                                    *)
(***************************************************************************)
LEMMA JoinFacts ==
  ASSUME NEW S, NEW a \in Seq(S), NEW b \in Seq(S)
  PROVE /\ a \o b \in Seq(S) /\ Len(a \o b) = Len(a) + Len(b)
        /\ Cuts(a \o b, a, b, Len(a), Len(b))
        /\ Cuts(a \o b, b, a, 0, Len(a))
<1>1. PICK t : t = a \o b
  OBVIOUS
<1>2. /\ t \in Seq(S) /\ Len(t) = Len(a) + Len(b) /\ Len(a) \in Nat /\ Len(b) \in Nat
      /\ \A i \in 1 .. Len(a) + Len(b) : t[i] = IF i <= Len(a) THEN a[i] ELSE b[i - Len(a)]
  BY <1>1, ConcatProperties
<1>3. \A i \in 1 .. Len(a) : t[i] = a[i]
  BY <1>2
<1>4. ASSUME NEW i \in 1 .. Len(b) PROVE t[Len(a) + i] = b[i]
  <2>1. Len(a) + i \in 1 .. Len(a) + Len(b) /\ ~(Len(a) + i <= Len(a)) /\ Len(a) + i - Len(a) = i
    BY <1>2
  <2> QED
    BY <1>2, <2>1
<1>5. Cuts(t, a, b, Len(a), Len(b))
  BY <1>2, <1>3, <1>4 DEF Cuts
<1>6. Cuts(t, b, a, 0, Len(a))
  <2>1. \A i \in 1 .. Len(b) : ~(i <= 0) /\ i + Len(a) = Len(a) + i
    BY <1>2
  <2>2. \A i \in 1 .. Len(b) : b[i] = IF i <= 0 THEN t[i] ELSE t[i + Len(a)]
    BY <1>4, <2>1
  <2>3. \A i \in 1 .. Len(a) : a[i] = t[0 + i]
    BY <1>3
  <2> QED
    BY <1>2, <2>2, <2>3 DEF Cuts
<1> QED
  BY <1>1, <1>2, <1>5, <1>6

LEMMA JoinSubsequence ==
  ASSUME NEW S, NEW a \in Seq(S), NEW b \in Seq(S)
  PROVE a \o b \in Seq(S) /\ IsSubsequence(a, a \o b) /\ IsSubsequence(b, a \o b)
<1>1. PICK t, n, m, z : t = a \o b /\ n = Len(a) /\ m = Len(b) /\ z = 0
  OBVIOUS
<1>2. t \in Seq(S) /\ Cuts(t, a, b, n, m) /\ Cuts(t, b, a, z, n)
  BY <1>1, JoinFacts
<1>3. t \in Seq(S)
  BY <1>2
<1>4. IsSubsequence(a, t) /\ IsSubsequence(b, t)
  BY <1>2, <1>3, CutSubsequence
<1> QED
  BY <1>1, <1>3, <1>4

\* r put behind the first j elements of s.
Spliced(s, j, r) == SubSeq(s, 1, j) \o r \o SubSeq(s, j + 1, Len(s))

LEMMA SpliceFacts ==
  ASSUME NEW S, NEW s \in Seq(S), NEW r \in Seq(S), NEW j \in 0 .. Len(s)
  PROVE /\ Spliced(s, j, r) \in Seq(S) /\ Len(Spliced(s, j, r)) = Len(s) + Len(r)
        /\ Cuts(Spliced(s, j, r), s, r, j, Len(r))
<1>1. PICK a, b : a = SubSeq(s, 1, j) /\ b = SubSeq(s, j + 1, Len(s))
  OBVIOUS
<1>2. /\ a \in Seq(S) /\ Len(a) = j /\ \A i \in 1 .. j : a[i] = s[i]
      /\ b \in Seq(S) /\ Len(b) = Len(s) - j /\ \A i \in 1 .. Len(s) - j : b[i] = s[j + i]
  BY <1>1, PrefixFacts, SuffixFacts
<1>3. PICK n, m : n = Len(s) /\ m = Len(r)
  OBVIOUS
<1>4. n \in Nat /\ m \in Nat /\ j \in 0 .. n
  BY <1>3
<1>5. PICK c : c = a \o r
  OBVIOUS
<1>6. /\ c \in Seq(S) /\ Len(c) = j + m
      /\ \A i \in 1 .. j + m : c[i] = IF i <= j THEN a[i] ELSE r[i - j]
  <2>1. /\ c \in Seq(S) /\ Len(c) = Len(a) + Len(r)
        /\ \A i \in 1 .. Len(a) + Len(r) : c[i] = IF i <= Len(a) THEN a[i] ELSE r[i - Len(a)]
    BY <1>2, <1>5, ConcatProperties
  <2> QED
    BY <1>2, <1>3, <2>1
<1>7. PICK t : t = c \o b
  OBVIOUS
<1>8. /\ t \in Seq(S) /\ Len(t) = Len(c) + Len(b)
      /\ \A i \in 1 .. Len(c) + Len(b) : t[i] = IF i <= Len(c) THEN c[i] ELSE b[i - Len(c)]
  <2>1. c \in Seq(S) /\ b \in Seq(S)
    BY <1>2, <1>6
  <2> QED
    BY <1>7, <2>1, ConcatProperties
<1>9. Len(t) = n + m /\ Len(c) + Len(b) = n + m
  BY <1>2, <1>3, <1>4, <1>6, <1>8
<1>10. ASSUME NEW i \in 1 .. n PROVE s[i] = IF i <= j THEN t[i] ELSE t[i + m]
  <2>1. CASE i <= j
    <3>1. i \in 1 .. j /\ i \in 1 .. j + m /\ i \in 1 .. n + m /\ i <= j + m
      BY <1>4, <2>1
    <3> QED
      BY <1>2, <1>6, <1>8, <1>9, <2>1, <3>1
  <2>2. CASE ~(i <= j)
    <3>1. /\ i + m \in 1 .. n + m /\ ~(i + m <= j + m) /\ i + m - (j + m) = i - j
          /\ i - j \in 1 .. n - j /\ j + (i - j) = i
      BY <1>4, <2>2
    <3>2. t[i + m] = b[i - j]
      <4>1. PICK x, y : x = i + m /\ y = i - j
        OBVIOUS
      <4>2. x \in 1 .. Len(c) + Len(b) /\ ~(x <= Len(c)) /\ x - Len(c) = y
        BY <1>4, <1>6, <1>9, <3>1, <4>1
      <4>3. t[x] = b[x - Len(c)]
        BY <1>8, <4>2
      <4> QED
        BY <4>1, <4>2, <4>3
    <3>3. b[i - j] = s[i]
      BY <1>2, <1>3, <3>1
    <3> QED
      BY <2>2, <3>2, <3>3
  <2> QED
    BY <2>1, <2>2
<1>11. ASSUME NEW i \in 1 .. m PROVE r[i] = t[j + i]
  <2>1. /\ j + i \in 1 .. j + m /\ j + i \in 1 .. n + m /\ ~(j + i <= j) /\ j + i - j = i
        /\ j + i <= j + m
    BY <1>4
  <2> QED
    BY <1>6, <1>8, <1>9, <2>1
<1>12. Cuts(t, s, r, j, m)
  <2>1. Len(t) = Len(s) + m /\ j \in 0 .. Len(s) /\ Len(r) = m
    BY <1>3, <1>4, <1>9
  <2>2. /\ \A i \in 1 .. Len(s) : s[i] = IF i <= j THEN t[i] ELSE t[i + m]
        /\ \A i \in 1 .. m : r[i] = t[j + i]
    BY <1>3, <1>10, <1>11
  <2> QED
    BY <1>4, <2>1, <2>2 DEF Cuts
<1>13. Spliced(s, j, r) = t
  BY <1>1, <1>5, <1>7 DEF Spliced
<1> QED
  BY <1>3, <1>8, <1>9, <1>12, <1>13

LEMMA SubsequenceTrans ==
  ASSUME NEW S, NEW a \in Seq(S), NEW b \in Seq(S), NEW c \in Seq(S),
         IsSubsequence(a, b), IsSubsequence(b, c)
  PROVE IsSubsequence(a, c)
<1>1. PICK f \in [DOMAIN a -> DOMAIN b] :
        /\ \A i, j \in DOMAIN a : i < j => f[i] < f[j]
        /\ \A i \in DOMAIN a : a[i] = b[f[i]]
  BY DEF IsSubsequence
<1>2. PICK g \in [DOMAIN b -> DOMAIN c] :
        /\ \A i, j \in DOMAIN b : i < j => g[i] < g[j]
        /\ \A i \in DOMAIN b : b[i] = c[g[i]]
  BY DEF IsSubsequence
<1> DEFINE h == [i \in DOMAIN a |-> g[f[i]]]
<1>3. h \in [DOMAIN a -> DOMAIN c]
  BY <1>1, <1>2
<1>4. \A i, j \in DOMAIN a : i < j => h[i] < h[j]
  BY <1>1, <1>2
<1>5. \A i \in DOMAIN a : a[i] = c[h[i]]
  BY <1>1, <1>2
<1> HIDE DEF h
<1> QED
  BY <1>3, <1>4, <1>5 DEF IsSubsequence

(***************************************************************************)
(* Elements put in another order.                                          *)
(***************************************************************************)
LEMMA Division ==
  ASSUME NEW n \in Nat, n > 0, NEW a \in Int
  PROVE \E q \in Int, r \in 0 .. n - 1 : r = a % n /\ a = n * q + r
<1>1. PICK q \in Int, r \in 0 .. n - 1 : q = a \div n /\ r = a % n /\ a = n * q + r
  OBVIOUS
<1> QED
  BY <1>1

LEMMA Multiple ==
  ASSUME NEW n \in Nat, n > 0, NEW q \in Int, NEW p \in Int, n * q < n * p + n, n * p < n * q + n
  PROVE p = q
<1>1. ASSUME p < q PROVE FALSE
  <2>1. PICK d \in Nat : q = p + 1 + d
    <3>1. q - p - 1 \in Nat /\ q = p + 1 + (q - p - 1)
      BY <1>1
    <3> QED
      BY <3>1
  <2>2. n * q = n * p + n + n * d /\ n * d \in Nat
    BY <2>1
  <2> QED
    BY <2>2
<1>2. ASSUME q < p PROVE FALSE
  <2>1. PICK d \in Nat : p = q + 1 + d
    <3>1. p - q - 1 \in Nat /\ p = q + 1 + (p - q - 1)
      BY <1>2
    <3> QED
      BY <3>1
  <2>2. n * p = n * q + n + n * d /\ n * d \in Nat
    BY <2>1
  <2> QED
    BY <2>2
<1> QED
  BY <1>1, <1>2

LEMMA Turned ==
  ASSUME NEW n \in Nat, n > 0, NEW i \in 1 .. n, NEW j \in 1 .. n, NEW b \in Int,
         (i - 1 + b) % n = (j - 1 + b) % n
  PROVE i = j
<1>1. PICK a, c : a = i - 1 + b /\ c = j - 1 + b
  OBVIOUS
<1>2. a \in Int /\ c \in Int /\ c % n = a % n
  BY <1>1
<1>3. PICK q \in Int, r \in 0 .. n - 1 : r = a % n /\ a = n * q + r
  BY <1>2, Division
<1>4. PICK p \in Int, m \in 0 .. n - 1 : m = c % n /\ c = n * p + m
  BY <1>2, Division
<1>5. a = n * q + r /\ c = n * p + r
  BY <1>2, <1>3, <1>4
<1>6. n * q \in Int /\ n * p \in Int
  BY <1>5
<1>7. n * q < n * p + n /\ n * p < n * q + n
  BY <1>1, <1>2, <1>5, <1>6
<1>8. p = q
  BY <1>5, <1>7, Multiple
<1> QED
  BY <1>1, <1>5, <1>8

Moved(s, p) == [i \in 1 .. Len(s) |-> s[p[i]]]

LEMMA MovedFacts ==
  ASSUME NEW S, NEW s \in Seq(S), NEW p \in [1 .. Len(s) -> 1 .. Len(s)],
         \A i, j \in 1 .. Len(s) : p[i] = p[j] => i = j
  PROVE /\ Moved(s, p) \in Seq(S) /\ Len(Moved(s, p)) = Len(s)
        /\ \A v : Count(Moved(s, p), v) = Count(s, v)
<1>1. PICK t, n : t = Moved(s, p) /\ n = Len(s)
  OBVIOUS
<1>2. n \in Nat /\ \A i \in 1 .. n : s[p[i]] \in S /\ p[i] \in 1 .. n
  BY <1>1
<1>3. t = [i \in 1 .. n |-> s[p[i]]]
  BY <1>1 DEF Moved
<1>4. t \in [1 .. n -> S]
  BY <1>2, <1>3
<1>5. t \in Seq(S) /\ Len(t) = n
  BY <1>2, <1>4
<1>6. Reorders(t, s, p)
  <2>1. Len(s) = Len(t) /\ \A i \in 1 .. Len(s) : t[i] = s[p[i]]
    BY <1>1, <1>3, <1>5
  <2> QED
    BY <2>1 DEF Reorders
<1>7. ASSUME NEW v PROVE Count(t, v) = Count(s, v)
  <2>1. t \in Seq(S)
    BY <1>5
  <2> QED
    BY <1>6, <2>1, ReorderedCount
<1> QED
  BY <1>1, <1>5, <1>7

LEMMA ReverseFacts ==
  ASSUME NEW S, NEW s \in Seq(S)
  PROVE /\ Reverse(s) \in Seq(S) /\ Len(Reverse(s)) = Len(s)
        /\ \A v : Count(Reverse(s), v) = Count(s, v)
<1> DEFINE p == [i \in 1 .. Len(s) |-> Len(s) - i + 1]
<1>1. p \in [1 .. Len(s) -> 1 .. Len(s)] /\ \A i, j \in 1 .. Len(s) : p[i] = p[j] => i = j
  <2>1. Len(s) \in Nat
    OBVIOUS
  <2> QED
    BY <2>1
<1>2. Reverse(s) = Moved(s, p)
  BY DEF Reverse, Moved
<1> HIDE DEF p
<1> QED
  BY <1>1, <1>2, MovedFacts

\* The n elements of s, turned.
Rotated(s, n, by) == [i \in 1 .. n |-> s[((i - 1 + by) % n) + 1]]

LEMMA RotateFacts ==
  ASSUME NEW S, NEW s \in Seq(S), NEW n, n = Len(s), NEW by \in Int
  PROVE /\ Rotated(s, n, by) \in Seq(S)
        /\ \A v : Count(Rotated(s, n, by), v) = Count(s, v)
<1> DEFINE p == [i \in 1 .. n |-> ((i - 1 + by) % n) + 1]
<1>1. n \in Nat
  OBVIOUS
<1>2. ASSUME NEW i \in 1 .. n PROVE p[i] \in 1 .. n /\ p[i] - 1 = (i - 1 + by) % n
  <2>1. PICK a : a = i - 1 + by
    OBVIOUS
  <2>2. a \in Int /\ n > 0
    BY <1>1, <2>1
  <2>3. a % n \in 0 .. n - 1
    BY <1>1, <2>2
  <2>4. p[i] = (a % n) + 1
    BY <2>1
  <2>5. PICK r : r = a % n
    OBVIOUS
  <2>6. p[i] \in 1 .. n /\ p[i] - 1 = r
    BY <1>1, <2>3, <2>4, <2>5
  <2> QED
    BY <2>1, <2>5, <2>6
<1>3. p \in [1 .. n -> 1 .. n]
  BY <1>2
<1>4. Rotated(s, n, by) = Moved(s, p)
  BY DEF Moved, Rotated
<1> HIDE DEF p
<1>5. ASSUME NEW i \in 1 .. n, NEW j \in 1 .. n, p[i] = p[j] PROVE i = j
  <2>1. (i - 1 + by) % n = (j - 1 + by) % n /\ n > 0
    BY <1>1, <1>2, <1>5
  <2> QED
    BY <1>1, <2>1, Turned
<1>6. /\ Moved(s, p) \in Seq(S)
      /\ \A v : Count(Moved(s, p), v) = Count(s, v)
  BY <1>3, <1>5, MovedFacts
<1> QED
  BY <1>4, <1>6

LEMMA ShuffleFacts ==
  ASSUME NEW S, NEW s \in Seq(S), NEW n, n = Len(s), NEW p \in Bijection(1 .. n, 1 .. n),
         NEW t, t = [i \in 1 .. n |-> s[p[i]]]
  PROVE t \in Seq(S) /\ Len(t) = n /\ \A v : Count(t, v) = Count(s, v)
<1>1. p \in [1 .. n -> 1 .. n] /\ \A i, j \in 1 .. n : p[i] = p[j] => i = j
  BY DEF Bijection, Injection, IsInjective
<1>2. t = Moved(s, p)
  BY DEF Moved
<1>3. Moved(s, p) \in Seq(S) /\ Len(Moved(s, p)) = Len(s)
      /\ \A v : Count(Moved(s, p), v) = Count(s, v)
  BY <1>1, MovedFacts
<1> QED
  BY <1>2, <1>3

(***************************************************************************)
(* What a block has let through.                                           *)
(***************************************************************************)
LEMMA ChosenNone ==
  ASSUME NEW S, NEW whole \in Seq(S), NEW K
  PROVE Chosen(SubSeq(whole, 1, 0), <<>>, K) = <<>>
<1>1. SubSeq(whole, 1, 0) = <<>>
  <2>1. 0 \in 0 .. Len(whole)
    OBVIOUS
  <2>2. SubSeq(whole, 1, 0) \in Seq(S) /\ Len(SubSeq(whole, 1, 0)) = 0
    BY <2>1, PrefixFacts
  <2> QED
    BY <2>2
<1>2. PICK e : e = <<>>
  OBVIOUS
<1>3. Chosen(e, e, K) = Picked(e, {i \in DOMAIN e : e[i] \in K})
  BY DEF Chosen
<1>4. Picked(e, {i \in DOMAIN e : e[i] \in K}) = e
  BY <1>2, PickedNone
<1> QED
  BY <1>1, <1>2, <1>3, <1>4

LEMMA ChosenNext ==
  ASSUME NEW S, NEW whole \in Seq(S), NEW R, NEW given \in Seq(R), NEW r \in R, NEW i \in Nat,
         Len(given) = i, i < Len(whole), NEW K
  PROVE Chosen(SubSeq(whole, 1, i + 1), Append(given, r), K) =
            IF r \in K THEN Append(Chosen(SubSeq(whole, 1, i), given, K), whole[i + 1])
            ELSE Chosen(SubSeq(whole, 1, i), given, K)
<1>1. PICK n, s, t, g : n = i + 1 /\ s = SubSeq(whole, 1, i) /\ t = SubSeq(whole, 1, n)
                        /\ g = Append(given, r)
  OBVIOUS
<1>2. i \in 0 .. Len(whole) /\ n \in 0 .. Len(whole) /\ n = i + 1 /\ n \in 1 .. n
  BY <1>1
<1>3. /\ s \in Seq(S) /\ Len(s) = i /\ \A k \in 1 .. i : s[k] = whole[k]
      /\ t \in Seq(S) /\ Len(t) = n /\ \A k \in 1 .. n : t[k] = whole[k]
  BY <1>1, <1>2, PrefixFacts
<1>4. g[n] = r /\ \A k \in 1 .. i : g[k] = given[k]
  BY <1>1, AppendProperties
<1> DEFINE P == {k \in DOMAIN s : given[k] \in K}
           Q == {k \in DOMAIN t : g[k] \in K}
<1>5. DOMAIN s = 1 .. i /\ DOMAIN t = 1 .. n
  BY <1>3
<1>6. \A k \in 1 .. Len(s) : t[k] = s[k] /\ (k \in Q <=> k \in P)
  <2> SUFFICES ASSUME NEW k \in 1 .. Len(s) PROVE t[k] = s[k] /\ (k \in Q <=> k \in P)
    OBVIOUS
  <2>1. k \in 1 .. i /\ k \in 1 .. n
    BY <1>2, <1>3
  <2>2. g[k] = given[k] /\ t[k] = whole[k] /\ s[k] = whole[k]
    BY <1>3, <1>4, <2>1
  <2> QED
    BY <1>5, <2>1, <2>2
<1>7. n \in Q <=> r \in K
  BY <1>2, <1>4, <1>5
<1> HIDE DEF P, Q
<1>8. Picked(t, Q) = IF Len(t) \in Q THEN Append(Picked(s, P), t[Len(t)]) ELSE Picked(s, P)
  <2>1. Longer(s, t, P, Q)
    BY <1>2, <1>3, <1>6 DEF Longer
  <2>2. s \in Seq(S) /\ t \in Seq(S)
    BY <1>3
  <2> QED
    BY <2>1, <2>2, PickedNext
<1>9. Picked(t, Q) = IF r \in K THEN Append(Picked(s, P), whole[n]) ELSE Picked(s, P)
  BY <1>2, <1>3, <1>7, <1>8
<1>10. Chosen(t, g, K) = Picked(t, Q) /\ Chosen(s, given, K) = Picked(s, P)
  BY DEF Chosen, P, Q
<1> QED
  BY <1>1, <1>9, <1>10

LEMMA ChosenFacts ==
  ASSUME NEW S, NEW s \in Seq(S), NEW given, NEW K
  PROVE /\ Chosen(s, given, K) \in Seq(S) /\ Len(Chosen(s, given, K)) <= Len(s)
        /\ Len(Chosen(s, given, K)) = Len(s) => Chosen(s, given, K) = s
<1> DEFINE P == {i \in DOMAIN s : given[i] \in K}
<1>1. Chosen(s, given, K) = Picked(s, P)
  BY DEF Chosen
<1> HIDE DEF P
<1> QED
  BY <1>1, PickedFacts

(***************************************************************************)
(* Conservation, by the kind of the method.                                *)
(***************************************************************************)
LEMMA ConservedOther ==
  ASSUME NEW op, NEW out, NEW s, NEW t, op \notin Reordering, op \notin Adding, op \notin Removing
  PROVE Conserved(op, out, s, t)
  BY DEF Conserved, Reordering, Adding, Removing, Cutting

LEMMA ConservedAdding ==
  ASSUME NEW op \in Adding, NEW out, NEW s, NEW t, IsSubsequence(s, t)
  PROVE Conserved(op, out, s, t)
  BY DEF Conserved, Reordering, Adding, Removing, Cutting

LEMMA ConservedRemoving ==
  ASSUME NEW op \in Removing, NEW out, NEW s, NEW t, IsSubsequence(t, s), op # "uniq!",
         op \in Cutting /\ out.k = "array" =>
             \A v \in Elems : Count(t, v) + Count(out.seq, v) = Count(s, v)
  PROVE Conserved(op, out, s, t)
  BY DEF Conserved, Reordering, Adding, Removing, Cutting

LEMMA ConservedUnique ==
  ASSUME NEW out, NEW s, NEW t, IsSubsequence(t, s), ToSet(t) = ToSet(s), IsInjective(t)
  PROVE Conserved("uniq!", out, s, t)
  BY DEF Conserved, Reordering, Adding, Removing, Cutting

LEMMA ConservedReordering ==
  ASSUME NEW op \in Reordering, NEW out, NEW s, NEW t, \A v : Count(t, v) = Count(s, v),
         op = "sort!" /\ ~Contains(s, Nil) => \A i, j \in DOMAIN t : i < j => t[i] <= t[j]
  PROVE Conserved(op, out, s, t)
  BY DEF Conserved, Reordering, Adding, Removing, Cutting

(***************************************************************************)
(* The inductive invariant.  Slots in use are never given back, so an      *)
(* iterator's position stays among them whatever its block does; what the  *)
(* iterator has done so far is known as long as its block left the array   *)
(* alone.                                                                  *)
(***************************************************************************)
Memory(m) ==
  /\ m \in [buf : Seq(Elems), len : Nat]
  /\ Len(m.buf) <= MaxLen /\ m.len <= Len(m.buf)

Iterators ==
  [op : LoopOps, i : Int, w : Nat, n : Nat, acc : Seq(Elems), elem : Elems, changes : Nat,
   given : Seq(Elems), whole : Seq(Elems)]

\* An iterator that no block has disturbed, before the element at i.
Apart(l, m, i) ==
  /\ l.op \in Backward => Len(l.given) = Len(l.whole) - 1 - i
  /\ l.op \in Forward =>
         /\ Len(l.given) = i /\ i <= m.len /\ m.len = Len(l.whole)
         /\ \A k \in i + 1 .. m.len : m.buf[k] = l.whole[k]
  /\ l.op = "map" => l.acc = l.given
  /\ l.op \in {"select", "reject"} =>
         l.acc = Chosen(SubSeq(l.whole, 1, i), l.given, Keeping(l.op))
  /\ l.op = "map!" => \A k \in 1 .. i : m.buf[k] = l.given[k]
  /\ l.op \in Filters =>
         /\ l.n = m.len
         /\ SubSeq(m.buf, 1, l.w) = Chosen(SubSeq(l.whole, 1, i), l.given, Keeping(l.op))
  /\ l.op \in {"find_index", "rindex"} => \A k \in 1 .. Len(l.given) : ~Truthy(l.given[k])

\* The iterator l is to look at the position i of m next.
Reaches(l, m, i) ==
  /\ Memory(m) /\ l \in Iterators
  /\ IF l.op \in Backward THEN i \in -1 .. Len(m.buf) - 1 ELSE i \in 0 .. Len(m.buf)
  /\ l.op \in Filters => l.w <= i
  /\ l.op \notin Filters => l.w = 0
  /\ l.op = "fill" => l.n <= Len(m.buf)
  /\ l.changes = 0 => Apart(l, m, i)

\* It stands inside its block.
Stands(l, m) ==
  /\ Reaches(l, m, l.i) /\ l.i \in 0 .. Len(m.buf) - 1
  /\ l.changes = 0 /\ l.op \in Forward => l.i < m.len /\ l.elem = l.whole[l.i + 1]

ArrayInv ==
  /\ Memory(mem) /\ frozen \in BOOLEAN
  /\ loop = NoLoop \/ Stands(loop, mem)

\* What the properties say of one step.
LiveStep ==
  (loop' # NoLoop /\ (loop = NoLoop \/ Stepped)) => (loop'.op \in Forward => loop'.i < mem'.len)
FrozenStep ==
  (frozen /\ Content' # Content) =>
      \/ last'.op \in {"uniq!", "rotate!", "shuffle!"}
      \/ Stepped /\ loop.op \in InPlace
MeantStep ==
  (loop' = NoLoop /\ "whole" \in DOMAIN last' /\ last'.clean) =>
      Meant(last'.op, last'.out, last'.whole, last'.given, Content')
ConservedStep ==
  (~Stepped /\ last'.out.k # "raised") => Conserved(last'.op, last'.out, Content, Content')
Right == ArrayInv' /\ LiveStep /\ FrozenStep /\ MeantStep /\ ConservedStep

LEMMA ContentFacts ==
  ASSUME ArrayInv
  PROVE Content \in Seq(Elems) /\ Len(Content) = mem.len /\ mem.len \in Nat /\ mem.len <= MaxLen
<1>1. PICK b, n : b = mem.buf /\ n = mem.len
  OBVIOUS
<1>2. b \in Seq(Elems) /\ n \in 0 .. Len(b) /\ Len(b) <= MaxLen /\ Len(b) \in Nat
  BY <1>1 DEF ArrayInv, Memory
<1>3. SubSeq(b, 1, n) \in Seq(Elems) /\ Len(SubSeq(b, 1, n)) = n
  BY <1>2, PrefixFacts
<1> QED
  BY <1>1, <1>2, <1>3, ArraysAssumption DEF Content

LEMMA RewriteFacts ==
  ASSUME ArrayInv, NEW s \in Seq(Elems), Len(s) <= MaxLen
  PROVE /\ Memory(Rewrite(s)) /\ Len(Rewrite(s).buf) >= Len(mem.buf) /\ Rewrite(s).len = Len(s)
        /\ SubSeq(Rewrite(s).buf, 1, Len(s)) = s
        /\ Len(s) <= Len(Rewrite(s).buf)
<1>1. PICK b, n, N : b = mem.buf /\ n = Len(b) /\ N = Len(s)
  OBVIOUS
<1>2. b \in Seq(Elems) /\ n \in Nat /\ n <= MaxLen /\ N \in Nat /\ N <= MaxLen /\ MaxLen \in Nat
  BY <1>1, ArraysAssumption DEF ArrayInv, Memory
<1>3. PICK c : c = SubSeq(b, N + 1, n)
  OBVIOUS
<1>4. c \in Seq(Elems) /\ Len(c) = IF N < n THEN n - N ELSE 0
  <2>1. \A i \in N + 1 .. n : b[i] \in Elems
    BY <1>1, <1>2
  <2>2. c \in Seq(Elems) /\ Len(c) = IF N + 1 <= n THEN n - (N + 1) + 1 ELSE 0
    BY <1>2, <1>3, <2>1, SubSeqProperties
  <2> QED
    BY <1>2, <2>2
<1>5. PICK t : t = s \o c
  OBVIOUS
<1>6. t \in Seq(Elems) /\ Len(t) = N + Len(c) /\ \A i \in 1 .. N : t[i] = s[i]
  <2>0. /\ t \in Seq(Elems) /\ Len(t) = Len(s) + Len(c) /\ Len(c) \in Nat
        /\ \A i \in 1 .. Len(s) + Len(c) : t[i] = IF i <= Len(s) THEN s[i] ELSE c[i - Len(s)]
    BY <1>4, <1>5, ConcatProperties
  <2>1. /\ t \in Seq(Elems) /\ Len(t) = N + Len(c) /\ Len(c) \in Nat
        /\ \A i \in 1 .. N + Len(c) : t[i] = IF i <= N THEN s[i] ELSE c[i - N]
    BY <1>1, <2>0
  <2>2. \A i \in 1 .. N : i \in 1 .. N + Len(c) /\ i <= N
    BY <1>2, <2>1
  <2> QED
    BY <2>1, <2>2
<1>7. Rewrite(s) = [buf |-> t, len |-> N]
  BY <1>1, <1>3, <1>5 DEF Rewrite
<1>8. Len(t) >= n /\ Len(t) <= MaxLen /\ N <= Len(t)
  BY <1>2, <1>4, <1>6
<1>9. Memory(Rewrite(s))
  BY <1>2, <1>6, <1>7, <1>8 DEF Memory
<1>10. SubSeq(t, 1, N) = s
  <2>1. N \in 0 .. Len(t)
    BY <1>2, <1>8
  <2>2. /\ SubSeq(t, 1, N) \in Seq(Elems) /\ Len(SubSeq(t, 1, N)) = N
        /\ \A i \in 1 .. N : SubSeq(t, 1, N)[i] = t[i]
    BY <1>6, <2>1, PrefixFacts
  <2>3. \A i \in 1 .. Len(s) : SubSeq(t, 1, N)[i] = s[i]
    BY <1>1, <1>6, <2>2
  <2> QED
    BY <1>1, <2>2, <2>3, SeqEqual
<1> QED
  BY <1>1, <1>2, <1>7, <1>8, <1>9, <1>10

LEMMA LoopDiffers ==
  ASSUME NEW l \in Iterators
  PROVE l # NoLoop
<1>1. l.op \in LoopOps
  BY DEF Iterators
<1>2. NoLoop.op = "none"
  BY DEF NoLoop
<1> QED
  BY <1>1, <1>2 DEF LoopOps, Forward, Backward

LEMMA DisturbedFacts ==
  ASSUME ArrayInv, loop # NoLoop, NEW m, Memory(m), Len(m.buf) >= Len(mem.buf)
  PROVE Stands(Disturbed, m) /\ Disturbed # NoLoop
<1>1. PICK l, d, b : l = loop /\ d = Disturbed /\ b = Len(mem.buf)
  OBVIOUS
<1>2. PICK c : c = Len(m.buf)
  OBVIOUS
<1>3. /\ l \in Iterators /\ l.i \in 0 .. b - 1 /\ l.op \in LoopOps
      /\ l.op \in Filters => l.w <= l.i
      /\ l.op \notin Filters => l.w = 0
      /\ l.op = "fill" => l.n <= b
      /\ b \in Nat /\ c \in Nat /\ c >= b
  <2>1. Stands(l, mem) /\ Memory(mem)
    BY <1>1 DEF ArrayInv
  <2>2. mem.buf \in Seq(Elems) /\ m.buf \in Seq(Elems)
    BY <2>1 DEF Memory
  <2> QED
    BY <1>1, <1>2, <2>1, <2>2 DEF Stands, Reaches, Iterators
<1>4. d = [l EXCEPT !.changes = @ + 1, !.given = <<>>, !.whole = <<>>]
  BY <1>1 DEF Disturbed
<1>5. /\ d \in Iterators /\ d.op = l.op /\ d.i = l.i /\ d.w = l.w /\ d.n = l.n /\ d.changes # 0
  <2>1. <<>> \in Seq(Elems)
    OBVIOUS
  <2>2. l.changes \in Nat /\ l.changes + 1 \in Nat /\ l.changes + 1 # 0
    BY <1>3 DEF Iterators
  <2> QED
    BY <1>3, <1>4, <2>1, <2>2 DEF Iterators
<1>6. IF d.op \in Backward THEN d.i \in -1 .. c - 1 ELSE d.i \in 0 .. c
  BY <1>3, <1>5
<1>7. d.i \in 0 .. c - 1 /\ (d.op = "fill" => d.n <= c)
  <2>1. l.n \in Nat
    BY <1>3 DEF Iterators
  <2> QED
    BY <1>3, <1>5, <2>1
<1>8. Reaches(d, m, d.i)
  BY <1>2, <1>3, <1>5, <1>6, <1>7 DEF Reaches
<1>9. Stands(d, m)
  BY <1>2, <1>5, <1>7, <1>8 DEF Stands
<1> QED
  BY <1>1, <1>5, <1>9, LoopDiffers

LEMMA WriteRight ==
  ASSUME ArrayInv, NEW op, NEW s \in Seq(Elems), NEW out, Conserved(op, out, Content, s),
         frozen => op \in {"uniq!", "rotate!", "shuffle!"}, Write(op, s, out)
  PROVE Right
<1>1. /\ Len(s) <= MaxLen /\ mem' = Rewrite(s) /\ loop' = Disturbed /\ frozen' = frozen
      /\ last' = [op |-> op, out |-> out]
  BY DEF Write
<1>2. PICK m : m = Rewrite(s)
  OBVIOUS
<1>3. Memory(m) /\ Len(m.buf) >= Len(mem.buf) /\ SubSeq(m.buf, 1, m.len) = s
  BY <1>1, <1>2, RewriteFacts
<1>4. Content' = s
  BY <1>1, <1>2, <1>3 DEF Content
<1>5. ~Stepped
  BY <1>1 DEF Stepped
<1>6. CASE loop = NoLoop
  <2>1. loop' = NoLoop
    BY <1>1, <1>6 DEF Disturbed
  <2>2. ArrayInv'
    BY <1>1, <1>2, <1>3, <2>1 DEF ArrayInv
  <2>3. LiveStep
    BY <2>1 DEF LiveStep
  <2>4. "whole" \notin DOMAIN last'
    BY <1>1
  <2>5. MeantStep
    BY <2>4 DEF MeantStep
  <2>6. FrozenStep
    BY <1>1 DEF FrozenStep
  <2>7. ConservedStep
    BY <1>1, <1>4 DEF ConservedStep
  <2> QED
    BY <2>2, <2>3, <2>5, <2>6, <2>7 DEF Right
<1>7. CASE loop # NoLoop
  <2>1. Stands(Disturbed, m) /\ Disturbed # NoLoop
    BY <1>3, <1>7, DisturbedFacts
  <2>2. ArrayInv'
    BY <1>1, <1>2, <1>3, <2>1 DEF ArrayInv
  <2>3. LiveStep
    BY <1>5, <1>7 DEF LiveStep
  <2>5. MeantStep
    BY <1>1, <2>1 DEF MeantStep
  <2>6. FrozenStep
    BY <1>1 DEF FrozenStep
  <2>7. ConservedStep
    BY <1>1, <1>4 DEF ConservedStep
  <2> QED
    BY <2>2, <2>3, <2>5, <2>6, <2>7 DEF Right
<1> QED
  BY <1>6, <1>7

LEMMA QuietRight ==
  ASSUME ArrayInv, NEW op, NEW out, mem' = mem, loop' = loop, frozen' \in BOOLEAN,
         last' = [op |-> op, out |-> out],
         out.k = "raised" \/ (op \notin Reordering /\ op \notin Adding /\ op \notin Removing)
  PROVE Right
<1>1. ArrayInv'
  BY DEF ArrayInv
<1>2. Content' = Content
  BY DEF Content
<1>3. ~Stepped
  BY DEF Stepped
<1>4. LiveStep
  BY <1>3 DEF LiveStep
<1>5. FrozenStep
  BY <1>2 DEF FrozenStep
<1>6. MeantStep
  <2>1. "whole" \notin DOMAIN last'
    OBVIOUS
  <2> QED
    BY <2>1 DEF MeantStep
<1>7. ConservedStep
  <2>1. last'.op = op /\ last'.out = out
    OBVIOUS
  <2>2. CASE out.k = "raised"
    BY <2>1, <2>2 DEF ConservedStep
  <2>3. CASE op \notin Reordering /\ op \notin Adding /\ op \notin Removing
    <3>1. Conserved(op, out, Content, Content')
      BY <2>3, ConservedOther
    <3> QED
      BY <2>1, <3>1 DEF ConservedStep
  <2> QED
    BY <2>2, <2>3
<1> QED
  BY <1>1, <1>4, <1>5, <1>6, <1>7 DEF Right

\* A method that looks at the flag.
LEMMA ChangeRight ==
  ASSUME ArrayInv, NEW op, NEW s \in Seq(Elems), NEW out, Conserved(op, out, Content, s),
         Change(op, s, out)
  PROVE Right
<1>1. CASE frozen
  <2>1. PICK e : e = Raised("FrozenError")
    OBVIOUS
  <2>2. mem' = mem /\ loop' = loop /\ frozen' = frozen /\ last' = [op |-> op, out |-> e]
    BY <1>1, <2>1 DEF Change, Answer
  <2>3. e.k = "raised" /\ frozen' \in BOOLEAN
    BY <2>1, <2>2 DEF Raised, ArrayInv
  <2> QED
    BY <2>2, <2>3, QuietRight
<1>2. CASE ~frozen
  <2>1. Write(op, s, out)
    BY <1>2 DEF Change
  <2> QED
    BY <1>2, <2>1, WriteRight
<1> QED
  BY <1>1, <1>2

LEMMA AnswerRight ==
  ASSUME ArrayInv, NEW op, NEW class, Answer(op, Raised(class))
  PROVE Right
<1>1. PICK e : e = Raised(class)
  OBVIOUS
<1>2. mem' = mem /\ loop' = loop /\ frozen' = frozen /\ last' = [op |-> op, out |-> e]
  BY <1>1 DEF Answer
<1>3. e.k = "raised" /\ frozen' \in BOOLEAN
  BY <1>1, <1>2 DEF Raised, ArrayInv
<1> QED
  BY <1>2, <1>3, QuietRight

(***************************************************************************)
(* The methods that call no block.                                         *)
(***************************************************************************)
LEMMA ElementFacts ==
  /\ Nil \in Elems /\ \A s \in Arguments : s \in Seq(Elems)
  /\ \A n \in Int : /\ [k \in 1 .. n |-> Nil] \in Seq(Elems)
                    /\ Len([k \in 1 .. n |-> Nil]) = IF n > 0 THEN n ELSE 0
<1>1. Nil \in Elems /\ MaxLen \in Nat
  BY ArraysAssumption DEF Elems
<1>2. \A s \in Arguments : s \in Seq(Elems)
  BY <1>1, ArraysAssumption, Bounded DEF Elems
<1>3. ASSUME NEW n \in Int
      PROVE /\ [k \in 1 .. n |-> Nil] \in Seq(Elems)
            /\ Len([k \in 1 .. n |-> Nil]) = IF n > 0 THEN n ELSE 0
  <2>1. PICK m \in Nat : 1 .. n = 1 .. m /\ m = IF n > 0 THEN n ELSE 0
    <3>1. CASE n > 0
      BY <3>1
    <3>2. CASE ~(n > 0)
      <4>1. 1 .. n = 1 .. 0
        BY <3>2
      <4> QED
        BY <3>2, <4>1
    <3> QED
      BY <3>1, <3>2
  <2>2. [k \in 1 .. m |-> Nil] \in Seq(Elems) /\ Len([k \in 1 .. m |-> Nil]) = m
    BY <1>1
  <2> QED
    BY <2>1, <2>2
<1> QED
  BY <1>1, <1>2, <1>3

LEMMA PushRight ==
  ASSUME ArrayInv, NEW v \in Elems, Push(v)
  PROVE Right
<1>1. PICK c, t, r : c = Content /\ t = Append(c, v) /\ r = <<v>>
  OBVIOUS
<1>2. c \in Seq(Elems) /\ r \in Seq(Elems)
  BY <1>1, ContentFacts
<1>3. t = c \o r
  BY <1>1, <1>2, AppendIsConcat
<1>4. t \in Seq(Elems) /\ IsSubsequence(c, t)
  BY <1>2, <1>3, JoinSubsequence
<1>5. Conserved("push", Self, c, t)
  BY <1>4, ConservedAdding DEF Adding
<1>6. Change("push", t, Self)
  BY <1>1 DEF Push
<1> QED
  BY <1>1, <1>4, <1>5, <1>6, ChangeRight

LEMMA ConcatRight ==
  ASSUME ArrayInv, NEW s \in Arguments, Concat(s) \/ Unshift(s)
  PROVE Right
<1>1. PICK c : c = Content
  OBVIOUS
<1>2. c \in Seq(Elems) /\ s \in Seq(Elems)
  BY <1>1, ContentFacts, ElementFacts
<1>3. CASE Concat(s)
  <2>1. PICK t : t = c \o s
    OBVIOUS
  <2>2. t \in Seq(Elems) /\ IsSubsequence(c, t)
    BY <1>2, <2>1, JoinSubsequence
  <2>3. Conserved("concat", Self, c, t)
    BY <2>2, ConservedAdding DEF Adding
  <2>4. Change("concat", t, Self)
    BY <1>1, <1>3, <2>1 DEF Concat
  <2> QED
    BY <1>1, <2>2, <2>3, <2>4, ChangeRight
<1>4. CASE Unshift(s)
  <2>1. PICK t : t = s \o c
    OBVIOUS
  <2>2. t \in Seq(Elems) /\ IsSubsequence(c, t)
    BY <1>2, <2>1, JoinSubsequence
  <2>3. Conserved("unshift", Self, c, t)
    BY <2>2, ConservedAdding DEF Adding
  <2>4. Change("unshift", t, Self)
    BY <1>1, <1>4, <2>1 DEF Unshift
  <2> QED
    BY <1>1, <2>2, <2>3, <2>4, ChangeRight
<1> QED
  BY <1>3, <1>4

LEMMA ReplaceRight ==
  ASSUME ArrayInv
  PROVE /\ \A s \in Arguments : Replace(s) => Right
        /\ Clear => Right
<1>1. ASSUME NEW s \in Arguments, Replace(s) PROVE Right
  <2>1. Conserved("replace", Self, Content, s)
    BY ConservedOther DEF Reordering, Adding, Removing, Cutting
  <2>2. s \in Seq(Elems) /\ Change("replace", s, Self)
    BY <1>1, ElementFacts DEF Replace
  <2> QED
    BY <2>1, <2>2, ChangeRight
<1>2. ASSUME Clear PROVE Right
  <2>1. PICK s : s = <<>>
    OBVIOUS
  <2>2. Conserved("clear", Self, Content, s)
    BY ConservedOther DEF Reordering, Adding, Removing, Cutting
  <2>3. s \in Seq(Elems) /\ Change("clear", s, Self)
    BY <1>2, <2>1 DEF Clear
  <2> QED
    BY <2>2, <2>3, ChangeRight
<1> QED
  BY <1>1, <1>2

\* A method that takes some elements away.
LEMMA TakeRight ==
  ASSUME ArrayInv, NEW op \in Removing, op # "uniq!", NEW t \in Seq(Elems), NEW r, NEW j, NEW k, NEW out,
         Cuts(Content, t, r, j, k), r \in Seq(Elems),
         op \in Cutting /\ out.k = "array" => out.seq = r,
         Change(op, t, out)
  PROVE Right
<1>1. PICK c : c = Content
  OBVIOUS
<1>2. c \in Seq(Elems) /\ Cuts(c, t, r, j, k)
  BY <1>1, ContentFacts
<1>3. IsSubsequence(t, c)
  BY <1>2, CutSubsequence
<1>4. \A v \in Elems : Count(t, v) + Count(r, v) = Count(c, v)
  BY <1>2, CutCount
<1>5. Conserved(op, out, c, t)
  BY <1>3, <1>4, ConservedRemoving
<1> QED
  BY <1>1, <1>5, ChangeRight

LEMMA DropRight ==
  ASSUME ArrayInv, NEW op \in Removing, op # "uniq!", op \notin Cutting, NEW t \in Seq(Elems), NEW out,
         IsSubsequence(t, Content), Change(op, t, out)
  PROVE Right
<1>1. PICK c : c = Content
  OBVIOUS
<1>2. Conserved(op, out, c, t)
  BY <1>1, ConservedRemoving
<1> QED
  BY <1>1, <1>2, ChangeRight

LEMMA OtherRight ==
  ASSUME ArrayInv, NEW op, op \notin Reordering, op \notin Adding, op \notin Removing,
         NEW t \in Seq(Elems), NEW out, Change(op, t, out)
  PROVE Right
<1>1. PICK c : c = Content
  OBVIOUS
<1>2. Conserved(op, out, c, t)
  BY ConservedOther
<1> QED
  BY <1>1, <1>2, ChangeRight

LEMMA FrozenRight ==
  ASSUME ArrayInv, frozen, NEW op, NEW t, NEW out, Change(op, t, out)
  PROVE Right
<1>1. Answer(op, Raised("FrozenError"))
  BY DEF Change
<1> QED
  BY <1>1, AnswerRight

LEMMA SplitFacts ==
  ASSUME NEW S, NEW s \in Seq(S), NEW n \in 0 .. Len(s), NEW N, N = Len(s)
  PROVE /\ SubSeq(s, 1, n) \in Seq(S) /\ SubSeq(s, n + 1, N) \in Seq(S)
        /\ Cuts(s, SubSeq(s, 1, n), SubSeq(s, n + 1, N), n, N - n)
        /\ Cuts(s, SubSeq(s, n + 1, N), SubSeq(s, 1, n), 0, n)
<1>1. PICK a, b : a = SubSeq(s, 1, n) /\ b = SubSeq(s, n + 1, N)
  OBVIOUS
<1>2. /\ a \in Seq(S) /\ Len(a) = n /\ \A i \in 1 .. n : a[i] = s[i]
      /\ b \in Seq(S) /\ Len(b) = N - n /\ \A i \in 1 .. N - n : b[i] = s[n + i]
  BY <1>1, PrefixFacts, SuffixFacts
<1>3. n \in Nat /\ N \in Nat /\ N - n \in Nat /\ n <= N
  OBVIOUS
<1>4. Cuts(s, a, b, n, N - n)
  BY <1>2, <1>3 DEF Cuts
<1>5. Cuts(s, b, a, 0, n)
  <2>1. \A i \in 1 .. N - n : ~(i <= 0) /\ i + n = n + i
    BY <1>3
  <2>2. \A i \in 1 .. Len(b) : b[i] = IF i <= 0 THEN s[i] ELSE s[i + n]
    BY <1>2, <2>1
  <2>3. \A i \in 1 .. n : a[i] = s[0 + i]
    BY <1>2
  <2> QED
    BY <1>2, <1>3, <2>2, <2>3 DEF Cuts
<1> QED
  BY <1>1, <1>2, <1>4, <1>5

LEMMA PopRight ==
  ASSUME ArrayInv, Pop
  PROVE Right
<1>1. PICK c, N : c = Content /\ N = mem.len
  OBVIOUS
<1>2. c \in Seq(Elems) /\ Len(c) = N /\ N \in Nat
  BY <1>1, ContentFacts
<1>3. CASE N = 0
  <2>1. PICK out : out = Elem(Nil)
    OBVIOUS
  <2>2. c = <<>>
    BY <1>2, <1>3
  <2>3. Change("pop", c, out)
    BY <1>1, <1>3, <2>1, <2>2 DEF Pop
  <2>4. Cuts(c, c, c, 0, 0)
    BY <1>2, <1>3 DEF Cuts
  <2>5. out.k # "array"
    BY <2>1 DEF Elem
  <2> QED
    BY <1>1, <1>2, <2>3, <2>4, <2>5, TakeRight DEF Removing, Cutting
<1>4. CASE N # 0
  <2>1. PICK out, n, t, r : /\ out = Elem(Last(c)) /\ n = N - 1
                            /\ t = SubSeq(c, 1, n) /\ r = SubSeq(c, n + 1, N)
    OBVIOUS
  <2>2. n \in 0 .. Len(c)
    BY <1>2, <1>4, <2>1
  <2>3. t \in Seq(Elems) /\ r \in Seq(Elems) /\ Cuts(c, t, r, n, N - n)
    BY <1>2, <2>1, <2>2, SplitFacts
  <2>4. t = Front(c)
    BY <1>2, <2>1 DEF Front
  <2>5. Change("pop", t, out)
    BY <1>1, <1>4, <2>1, <2>4 DEF Pop
  <2>6. out.k # "array"
    BY <2>1 DEF Elem
  <2> QED
    BY <1>1, <2>3, <2>5, <2>6, TakeRight DEF Removing, Cutting
<1> QED
  BY <1>3, <1>4

LEMMA ShiftRight ==
  ASSUME ArrayInv, Shift
  PROVE Right
<1>1. PICK c, N : c = Content /\ N = mem.len
  OBVIOUS
<1>2. c \in Seq(Elems) /\ Len(c) = N /\ N \in Nat
  BY <1>1, ContentFacts
<1>3. CASE N = 0
  <2>1. PICK out : out = Elem(Nil)
    OBVIOUS
  <2>2. c = <<>>
    BY <1>2, <1>3
  <2>3. Change("shift", c, out)
    BY <1>1, <1>3, <2>1, <2>2 DEF Shift
  <2>4. Cuts(c, c, c, 0, 0)
    BY <1>2, <1>3 DEF Cuts
  <2>5. out.k # "array"
    BY <2>1 DEF Elem
  <2> QED
    BY <1>1, <1>2, <2>3, <2>4, <2>5, TakeRight DEF Removing, Cutting
<1>4. CASE N # 0
  <2>1. PICK out, n, t, r : /\ out = Elem(Head(c)) /\ n = 1
                            /\ t = SubSeq(c, n + 1, N) /\ r = SubSeq(c, 1, n)
    OBVIOUS
  <2>2. n \in 0 .. Len(c) /\ n + 1 = 2 /\ c # <<>>
    BY <1>2, <1>4, <2>1
  <2>3. t \in Seq(Elems) /\ r \in Seq(Elems) /\ Cuts(c, t, r, 0, n)
    BY <1>2, <2>1, <2>2, SplitFacts
  <2>4. t = Tail(c)
    BY <1>2, <2>1, <2>2, TailIsSubSeq
  <2>5. Change("shift", t, out)
    BY <1>1, <1>4, <2>1, <2>4 DEF Shift
  <2>6. out.k # "array"
    BY <2>1 DEF Elem
  <2> QED
    BY <1>1, <2>3, <2>5, <2>6, TakeRight DEF Removing, Cutting
<1> QED
  BY <1>3, <1>4

LEMMA PopManyRight ==
  ASSUME ArrayInv, NEW n \in Int, PopMany(n)
  PROVE Right
<1>1. PICK c, N, k : c = Content /\ N = mem.len /\ k = IF n > N THEN 0 ELSE N - n
  OBVIOUS
<1>2. c \in Seq(Elems) /\ Len(c) = N /\ N \in Nat
  BY <1>1, ContentFacts
<1>3. PICK t, r, out : t = SubSeq(c, 1, k) /\ r = SubSeq(c, k + 1, N) /\ out = Arr(r)
  OBVIOUS
<1>4. CASE n < 0 /\ ~frozen
  BY <1>4, AnswerRight DEF PopMany
<1>5. CASE ~(n < 0 /\ ~frozen)
  <2>1. Change("pop", t, out)
    BY <1>1, <1>3, <1>5 DEF PopMany
  <2>2. CASE frozen
    BY <2>1, <2>2, FrozenRight
  <2>3. CASE ~frozen
    <3>1. k \in 0 .. Len(c)
      BY <1>1, <1>2, <1>5, <2>3
    <3>2. t \in Seq(Elems) /\ r \in Seq(Elems) /\ Cuts(c, t, r, k, N - k)
      BY <1>2, <1>3, <3>1, SplitFacts
    <3>3. out.seq = r
      BY <1>3 DEF Arr
    <3> QED
      BY <1>1, <2>1, <3>2, <3>3, TakeRight DEF Removing, Cutting
  <2> QED
    BY <2>2, <2>3
<1> QED
  BY <1>4, <1>5

LEMMA ShiftManyRight ==
  ASSUME ArrayInv, NEW n \in Int, ShiftMany(n)
  PROVE Right
<1>1. PICK c, N, k : c = Content /\ N = mem.len /\ k = IF n > N THEN N ELSE n
  OBVIOUS
<1>2. c \in Seq(Elems) /\ Len(c) = N /\ N \in Nat
  BY <1>1, ContentFacts
<1>3. PICK t, r, out : t = SubSeq(c, k + 1, N) /\ r = SubSeq(c, 1, k) /\ out = Arr(r)
  OBVIOUS
<1>4. CASE n < 0 /\ ~frozen
  BY <1>4, AnswerRight DEF ShiftMany
<1>5. CASE ~(n < 0 /\ ~frozen)
  <2>1. Change("shift", t, out)
    BY <1>1, <1>3, <1>5 DEF ShiftMany
  <2>2. CASE frozen
    BY <2>1, <2>2, FrozenRight
  <2>3. CASE ~frozen
    <3>1. k \in 0 .. Len(c)
      BY <1>1, <1>2, <1>5, <2>3
    <3>2. t \in Seq(Elems) /\ r \in Seq(Elems) /\ Cuts(c, t, r, 0, k)
      BY <1>2, <1>3, <3>1, SplitFacts
    <3>3. out.seq = r
      BY <1>3 DEF Arr
    <3> QED
      BY <1>1, <2>1, <3>2, <3>3, TakeRight DEF Removing, Cutting
  <2> QED
    BY <2>2, <2>3
<1> QED
  BY <1>4, <1>5

LEMMA WithoutFacts ==
  ASSUME NEW S, NEW s \in Seq(S), NEW v
  PROVE Without(s, v) \in Seq(S) /\ IsSubsequence(Without(s, v), s)
<1>1. PICK P : P = {i \in DOMAIN s : s[i] # v}
  OBVIOUS
<1>2. Without(s, v) = Picked(s, P)
  BY <1>1 DEF Without
<1> QED
  BY <1>2, PickedFacts, PickedSubsequence

LEMMA DeleteRight ==
  ASSUME ArrayInv
  PROVE (\A v \in Elems : Delete(v) => Right) /\ (CompactBang => Right)
<1>1. PICK c : c = Content
  OBVIOUS
<1>2. c \in Seq(Elems)
  BY <1>1, ContentFacts
<1>3. ASSUME NEW v \in Elems, Delete(v) PROVE Right
  <2>1. PICK t, out : t = Without(c, v) /\ out = Elem(IF Contains(c, v) THEN v ELSE Nil)
    OBVIOUS
  <2>2. Change("delete", t, out)
    BY <1>1, <1>3, <2>1 DEF Delete
  <2>3. t \in Seq(Elems) /\ IsSubsequence(t, c)
    BY <1>2, <2>1, WithoutFacts
  <2> QED
    BY <1>1, <2>2, <2>3, DropRight DEF Removing, Cutting
<1>4. ASSUME CompactBang PROVE Right
  <2>1. PICK t, out : t = Without(c, Nil) /\ out = SelfIf(Len(t) # mem.len)
    OBVIOUS
  <2>2. Change("compact!", t, out)
    BY <1>1, <1>4, <2>1 DEF CompactBang
  <2>3. t \in Seq(Elems) /\ IsSubsequence(t, c)
    BY <1>2, <2>1, WithoutFacts
  <2> QED
    BY <1>1, <2>2, <2>3, DropRight DEF Removing, Cutting
<1> QED
  BY <1>3, <1>4

LEMMA PositionFacts ==
  ASSUME ArrayInv
  PROVE /\ \A i \in Int : FromEnd(i) \in Int
        /\ \A r \in Ranges : RangeStart(r) \in Int /\ RangeStop(r) \in Int
<1>1. PICK N : N = mem.len
  OBVIOUS
<1>2. N \in Int
  BY <1>1, ContentFacts
<1>3. \A i \in Int : FromEnd(i) \in Int
  BY <1>1, <1>2 DEF FromEnd
<1>4. ASSUME NEW r \in Ranges PROVE RangeStart(r) \in Int /\ RangeStop(r) \in Int
  <2>1. r.from \in Int /\ (r.to = Nil \/ r.to \in Int)
    BY ArraysAssumption DEF Ranges
  <2>2. PICK e : e = IF r.to = Nil THEN N ELSE FromEnd(r.to)
    OBVIOUS
  <2>3. e \in Int
    BY <1>2, <1>3, <2>1, <2>2
  <2>4. RangeStop(r) = e + (IF r.exclusive THEN 0 ELSE 1)
    BY <1>1, <2>2 DEF RangeStop
  <2> QED
    BY <1>3, <2>1, <2>3, <2>4 DEF RangeStart
<1> QED
  BY <1>3, <1>4

LEMMA DeleteAtRight ==
  ASSUME ArrayInv, NEW i \in Int, DeleteAt(i)
  PROVE Right
<1>1. PICK c, N, j : c = Content /\ N = mem.len /\ j = FromEnd(i)
  OBVIOUS
<1>2. c \in Seq(Elems) /\ Len(c) = N /\ N \in Nat
  BY <1>1, ContentFacts
<1>3. CASE j \in 0 .. N - 1
  <2>1. PICK t, r, out : /\ t = SubSeq(c, 1, j) \o SubSeq(c, j + 1 + 1, Len(c))
                         /\ r = SubSeq(c, j + 1, j + 1) /\ out = Elem(c[j + 1])
    OBVIOUS
  <2>2. t \in Seq(Elems) /\ r \in Seq(Elems) /\ Cuts(c, t, r, j, 1)
    <3>1. j \in Nat /\ 1 \in Nat /\ j + 1 <= Len(c)
      BY <1>2, <1>3
    <3> QED
      BY <1>2, <2>1, <3>1, CutMiddle
  <2>3. t = RemoveAt(c, j + 1)
    <3>1. PICK p : p = j + 1
      OBVIOUS
    <3>2. p - 1 = j /\ p + 1 = j + 1 + 1
      BY <1>3, <3>1
    <3>3. RemoveAt(c, p) = SubSeq(c, 1, p - 1) \o SubSeq(c, p + 1, Len(c))
      BY DEF RemoveAt
    <3> QED
      BY <2>1, <3>1, <3>2, <3>3
  <2>4. Change("delete_at", t, out)
    BY <1>1, <1>3, <2>1, <2>3 DEF DeleteAt
  <2>5. PICK one : one = 1
    OBVIOUS
  <2>6. IsSubsequence(t, c)
    BY <1>2, <2>2, <2>5, CutSubsequence
  <2> QED
    BY <1>1, <2>2, <2>4, <2>6, DropRight DEF Removing, Cutting
<1>4. CASE j \notin 0 .. N - 1
  <2>1. PICK out : out = Elem(Nil)
    OBVIOUS
  <2>2. Change("delete_at", c, out)
    BY <1>1, <1>4, <2>1 DEF DeleteAt
  <2>3. IsSubsequence(c, c)
    BY <1>2, SelfSubsequence
  <2> QED
    BY <1>1, <1>2, <2>2, <2>3, DropRight DEF Removing, Cutting
<1> QED
  BY <1>3, <1>4

LEMMA InsertRight ==
  ASSUME ArrayInv, NEW i \in Int, NEW s \in Arguments, Insert(i, s)
  PROVE Right
<1>1. PICK c, N : c = Content /\ N = mem.len
  OBVIOUS
<1>2. c \in Seq(Elems) /\ Len(c) = N /\ N \in Nat /\ s \in Seq(Elems)
  BY <1>1, ContentFacts, ElementFacts
<1>3. PICK p : p = IF i < 0 THEN N + i + 1 ELSE i
  OBVIOUS
<1>4. PICK j : j = IF p < 0 THEN 0 ELSE p
  OBVIOUS
<1>5. j \in Nat /\ j - N \in Int
  BY <1>2, <1>3, <1>4
<1>6. PICK d : d = j - N
  OBVIOUS
<1>7. PICK e : e = [k \in 1 .. d |-> Nil]
  OBVIOUS
<1>8. e \in Seq(Elems) /\ Len(e) = IF d > 0 THEN d ELSE 0
  BY <1>5, <1>6, <1>7, ElementFacts
<1>9. PICK q : q = c \o e
  OBVIOUS
<1>10. q \in Seq(Elems) /\ IsSubsequence(c, q) /\ Len(q) = Len(c) + Len(e)
  BY <1>2, <1>8, <1>9, JoinSubsequence, ConcatProperties
<1>11. j \in 0 .. Len(q)
  BY <1>2, <1>5, <1>6, <1>8, <1>10
<1>12. PICK t, m : t = Spliced(q, j, s) /\ m = Len(s)
  OBVIOUS
<1>13. t \in Seq(Elems) /\ Cuts(t, q, s, j, m)
  BY <1>2, <1>10, <1>11, <1>12, SpliceFacts
<1>14. IsSubsequence(q, t)
  BY <1>10, <1>13, CutSubsequence
<1>15. IsSubsequence(c, t)
  BY <1>2, <1>10, <1>13, <1>14, SubsequenceTrans
<1>16. Conserved("insert", Self, c, t)
  BY <1>15, ConservedAdding DEF Adding
<1>17. Change("insert", t, Self)
  BY <1>1, <1>3, <1>4, <1>6, <1>7, <1>9, <1>12 DEF Insert, Spliced
<1> QED
  BY <1>1, <1>13, <1>16, <1>17, ChangeRight

LEMMA StoreRight ==
  ASSUME ArrayInv, NEW i \in Int, NEW v \in Elems, Store(i, v)
  PROVE Right
<1>1. PICK c, N, j : c = Content /\ N = mem.len /\ j = FromEnd(i)
  OBVIOUS
<1>2. c \in Seq(Elems) /\ Len(c) = N /\ N \in Nat /\ j \in Int
  BY <1>1, ContentFacts, PositionFacts
<1>3. PICK d : d = j + 1 - N
  OBVIOUS
<1>4. PICK e : e = [k \in 1 .. d |-> Nil]
  OBVIOUS
<1>5. e \in Seq(Elems) /\ Len(e) = IF d > 0 THEN d ELSE 0
  <2>1. d \in Int
    BY <1>2, <1>3
  <2> QED
    BY <1>4, <2>1, ElementFacts
<1>6. PICK q : q = c \o e
  OBVIOUS
<1>7. q \in Seq(Elems) /\ Len(q) = Len(c) + Len(e)
  BY <1>2, <1>5, <1>6, ConcatProperties
<1>8. PICK t : t = IF j < 0 THEN c ELSE [q EXCEPT ![j + 1] = v]
  OBVIOUS
<1>9. t \in Seq(Elems)
  <2>1. CASE j < 0
    BY <1>2, <1>8, <2>1
  <2>2. CASE ~(j < 0)
    <3>1. PICK k : k = j + 1
      OBVIOUS
    <3>2. k \in 1 .. Len(q)
      BY <1>2, <1>3, <1>5, <1>7, <2>2, <3>1
    <3>3. t = [q EXCEPT ![k] = v]
      BY <1>8, <2>2, <3>1
    <3> QED
      BY <1>7, <3>2, <3>3, ExceptSeq
  <2> QED
    BY <2>1, <2>2
<1>10. PICK out : out = Elem(v)
  OBVIOUS
<1>11. Change("[]=", t, out)
  BY <1>1, <1>3, <1>4, <1>6, <1>8, <1>10 DEF Store
<1> QED
  BY <1>9, <1>11, OtherRight DEF Reordering, Adding, Removing, Cutting

LEMMA StoreRangeRight ==
  ASSUME ArrayInv, NEW r \in Ranges, NEW s \in Arguments, StoreRange(r, s)
  PROVE Right
<1>1. PICK c, N, a, b : c = Content /\ N = mem.len /\ a = RangeStart(r) /\ b = RangeStop(r)
  OBVIOUS
<1>2. /\ c \in Seq(Elems) /\ Len(c) = N /\ N \in Nat /\ a \in Int /\ b \in Int
      /\ s \in Seq(Elems)
  BY <1>1, ContentFacts, PositionFacts, ElementFacts
<1>3. PICK from, to : from = (IF a < 0 THEN 0 ELSE a) /\ to = (IF b > N THEN N ELSE b)
  OBVIOUS
<1>4. PICK p, q, t, out : /\ p = SubSeq(c, 1, from) /\ q = SubSeq(c, to + 1, N)
                          /\ t = p \o s \o q /\ out = Arr(s)
  OBVIOUS
<1>5. from <= N /\ to >= 0 /\ Change("[]=range", t, out)
  BY <1>1, <1>3, <1>4 DEF StoreRange
<1>6. from \in 0 .. Len(c) /\ to \in 0 .. Len(c)
  BY <1>2, <1>3, <1>5
<1>7. p \in Seq(Elems) /\ q \in Seq(Elems)
  BY <1>2, <1>4, <1>6, SplitFacts
<1>8. t \in Seq(Elems)
  <2>1. p \o s \in Seq(Elems)
    BY <1>2, <1>7
  <2> QED
    BY <1>4, <1>7, <2>1, ConcatProperties
<1> QED
  BY <1>5, <1>8, OtherRight DEF Reordering, Adding, Removing, Cutting

LEMMA CutRight ==
  ASSUME ArrayInv, NEW j \in Int, NEW n \in Int, NEW single, Cut(j, n, single)
  PROVE Right
<1>1. PICK c, N, k : c = Content /\ N = mem.len /\ k = IF j + n > N THEN N - j ELSE n
  OBVIOUS
<1>2. c \in Seq(Elems) /\ Len(c) = N /\ N \in Nat
  BY <1>1, ContentFacts
<1>3. CASE j < 0 \/ j > N \/ n < 0
  <2>1. PICK out : out = Elem(Nil)
    OBVIOUS
  <2>2. Change("slice!", c, out)
    BY <1>1, <1>3, <2>1 DEF Cut
  <2>3. PICK z : z = 0
    OBVIOUS
  <2>4. <<>> \in Seq(Elems) /\ Cuts(c, c, <<>>, z, z)
    BY <1>2, <2>3 DEF Cuts
  <2>5. out.k # "array"
    BY <2>1 DEF Elem
  <2> QED
    BY <1>1, <1>2, <2>2, <2>4, <2>5, TakeRight DEF Removing, Cutting
<1>4. CASE ~(j < 0 \/ j > N \/ n < 0)
  <2>1. PICK t, r : /\ t = SubSeq(c, 1, j) \o SubSeq(c, j + k + 1, N)
                    /\ r = SubSeq(c, j + 1, j + k)
    OBVIOUS
  <2>2. PICK out : out = IF single /\ k = 1 THEN Elem(r[1]) ELSE Arr(r)
    OBVIOUS
  <2>3. Change("slice!", t, out)
    BY <1>1, <1>4, <2>1, <2>2 DEF Cut
  <2>4. j \in Nat /\ k \in Nat /\ j + k <= Len(c)
    BY <1>1, <1>2, <1>4
  <2>5. t \in Seq(Elems) /\ r \in Seq(Elems) /\ Cuts(c, t, r, j, k)
    BY <1>2, <2>1, <2>4, CutMiddle
  <2>6. out.k = "array" => out.seq = r
    BY <2>2 DEF Elem, Arr
  <2> QED
    BY <1>1, <2>3, <2>5, <2>6, TakeRight DEF Removing, Cutting
<1> QED
  BY <1>3, <1>4

LEMMA SliceRight ==
  ASSUME ArrayInv
  PROVE /\ \A i \in Int : SliceBang(i) => Right
        /\ \A i, n \in Int : SliceBangMany(i, n) => Right
        /\ \A r \in Ranges : SliceBangRange(r) => Right
<1>1. ASSUME NEW i \in Int, NEW n \in Int, SliceBang(i) \/ SliceBangMany(i, n) PROVE Right
  <2>1. PICK j, one, yes, no : j = FromEnd(i) /\ one = 1 /\ yes = TRUE /\ no = FALSE
    OBVIOUS
  <2>2. j \in Int /\ one \in Int
    BY <2>1, PositionFacts
  <2>3. Cut(j, one, yes) \/ Cut(j, n, no)
    BY <1>1, <2>1 DEF SliceBang, SliceBangMany
  <2> QED
    BY <2>2, <2>3, CutRight
<1>2. ASSUME NEW r \in Ranges, SliceBangRange(r) PROVE Right
  <2>1. PICK j, b, n, no : j = RangeStart(r) /\ b = RangeStop(r) /\ n = b - j /\ no = FALSE
    OBVIOUS
  <2>2. j \in Int /\ n \in Int
    BY <2>1, PositionFacts
  <2>3. Cut(j, n, no)
    BY <1>2, <2>1 DEF SliceBangRange
  <2> QED
    BY <2>2, <2>3, CutRight
<1> QED
  BY <1>1, <1>2

LEMMA ReverseRight ==
  ASSUME ArrayInv, ReverseBang
  PROVE Right
<1>1. PICK c, t : c = Content /\ t = Reverse(c)
  OBVIOUS
<1>2. c \in Seq(Elems)
  BY <1>1, ContentFacts
<1>3. t \in Seq(Elems) /\ \A v : Count(t, v) = Count(c, v)
  BY <1>1, <1>2, ReverseFacts
<1>4. Conserved("reverse!", Self, c, t)
  BY <1>3, ConservedReordering DEF Reordering
<1>5. Change("reverse!", t, Self)
  BY <1>1 DEF ReverseBang
<1> QED
  BY <1>1, <1>3, <1>4, <1>5, ChangeRight

LEMMA SortRight ==
  ASSUME ArrayInv, SortBang
  PROVE Right
<1>1. PICK c : c = Content
  OBVIOUS
<1>2. c \in Seq(Elems)
  BY <1>1, ContentFacts
<1>3. CASE Contains(c, Nil)
  <2>1. Conserved("sort!", Self, c, c)
    BY <1>3, ConservedReordering DEF Reordering
  <2>2. Change("sort!", c, Self)
    BY <1>1, <1>3 DEF SortBang
  <2> QED
    BY <1>1, <1>2, <2>1, <2>2, ChangeRight
<1>4. CASE ~Contains(c, Nil)
  <2>1. PICK t : t = Sorted(c)
    OBVIOUS
  <2>2. c \in Seq(Vals)
    <3>1. \A i \in 1 .. Len(c) : c[i] \in Elems /\ c[i] # Nil
      BY <1>2, <1>4 DEF Contains
    <3>2. \A i \in 1 .. Len(c) : c[i] \in Vals
      BY <3>1 DEF Elems
    <3> QED
      BY <1>2, <3>2
  <2>3. t \in Seq(Vals) /\ Ascending(t) /\ \A v : Count(t, v) = Count(c, v)
    BY <2>1, <2>2, SortedFacts, ArraysAssumption
  <2>4. t \in Seq(Elems)
    BY <2>3, SeqMonotonic DEF Elems
  <2>5. \A i, j \in DOMAIN t : i < j => t[i] <= t[j]
    BY <2>3, <2>4 DEF Ascending
  <2>6. Conserved("sort!", Self, c, t)
    BY <2>3, <2>5, ConservedReordering DEF Reordering
  <2>7. Change("sort!", t, Self)
    BY <1>1, <1>4, <2>1 DEF SortBang
  <2> QED
    BY <1>1, <2>4, <2>6, <2>7, ChangeRight
<1> QED
  BY <1>3, <1>4

LEMMA UniqRight ==
  ASSUME ArrayInv, UniqBang
  PROVE Right
<1>1. PICK c : c = Content
  OBVIOUS
<1>2. c \in Seq(Elems)
  BY <1>1, ContentFacts
<1>3. PICK t, out : t = Unique(c) /\ out = SelfIf(Len(t) # mem.len)
  OBVIOUS
<1>4. t \in Seq(Elems) /\ IsSubsequence(t, c) /\ ToSet(t) = ToSet(c) /\ IsInjective(t)
  BY <1>2, <1>3, UniqueFacts
<1>5. Conserved("uniq!", out, c, t)
  BY <1>4, ConservedUnique
<1>6. Write("uniq!", t, out)
  BY <1>1, <1>3 DEF UniqBang
<1> QED
  BY <1>1, <1>4, <1>5, <1>6, WriteRight

LEMMA RotateRight ==
  ASSUME ArrayInv
  PROVE (\A by \in Int : RotateBang(by) => Right) /\ (ShuffleBang => Right)
<1>1. PICK c, N : c = Content /\ N = mem.len
  OBVIOUS
<1>2. c \in Seq(Elems) /\ N = Len(c)
  BY <1>1, ContentFacts
<1>3. ASSUME NEW by \in Int, RotateBang(by) PROVE Right
  <2>1. PICK t : t = Rotated(c, N, by)
    OBVIOUS
  <2>2. t \in Seq(Elems) /\ \A v : Count(t, v) = Count(c, v)
    BY <1>2, <2>1, RotateFacts
  <2>3. Conserved("rotate!", Self, c, t)
    BY <2>2, ConservedReordering DEF Reordering
  <2>4. Write("rotate!", t, Self)
    BY <1>1, <1>3, <2>1 DEF RotateBang, Rotated
  <2> QED
    BY <1>1, <2>2, <2>3, <2>4, WriteRight
<1>4. ASSUME ShuffleBang PROVE Right
  <2>1. PICK p \in Bijection(1 .. N, 1 .. N) : Write("shuffle!", [i \in 1 .. N |-> c[p[i]]], Self)
    BY <1>1, <1>4 DEF ShuffleBang
  <2>2. PICK t : t = [i \in 1 .. N |-> c[p[i]]]
    OBVIOUS
  <2>3. t \in Seq(Elems) /\ \A v : Count(t, v) = Count(c, v)
    BY <1>2, <2>2, ShuffleFacts
  <2>4. Conserved("shuffle!", Self, c, t)
    BY <2>3, ConservedReordering DEF Reordering
  <2>5. Write("shuffle!", t, Self)
    BY <2>1, <2>2
  <2> QED
    BY <1>1, <2>3, <2>4, <2>5, WriteRight
<1> QED
  BY <1>3, <1>4

LEMMA FreezeRight ==
  ASSUME ArrayInv, Freeze
  PROVE Right
<1>1. PICK op : op = "freeze"
  OBVIOUS
<1>2. /\ mem' = mem /\ loop' = loop /\ frozen' \in BOOLEAN /\ last' = [op |-> op, out |-> Self]
  BY <1>1 DEF Freeze
<1>3. op \notin Reordering /\ op \notin Adding /\ op \notin Removing
  BY <1>1 DEF Reordering, Adding, Removing, Cutting
<1> QED
  BY <1>2, <1>3, QuietRight

LEMMA MutateRight ==
  ASSUME ArrayInv, Mutate
  PROVE Right
<1>1. MaxLen \in Nat
  BY ArraysAssumption
<1>2. Indices \subseteq Int /\ -1 .. MaxLen + 1 \subseteq Int /\ {-1, 2} \subseteq Int
  BY <1>1 DEF Indices
<1>3. CASE \E v \in Elems : Push(v) \/ Delete(v)
  BY <1>3, PushRight, DeleteRight
<1>4. CASE \E s \in Arguments : Concat(s) \/ Unshift(s) \/ Replace(s)
  BY <1>4, ConcatRight, ReplaceRight
<1>5. CASE Pop \/ Shift \/ Clear
  BY <1>5, PopRight, ShiftRight, ReplaceRight
<1>6. CASE \E n \in -1 .. MaxLen + 1 : PopMany(n) \/ ShiftMany(n) \/ RotateBang(n)
  <2>1. PICK n \in Int : PopMany(n) \/ ShiftMany(n) \/ RotateBang(n)
    BY <1>2, <1>6
  <2> QED
    BY <2>1, PopManyRight, ShiftManyRight, RotateRight
<1>7. ASSUME NEW i \in Indices,
             \/ DeleteAt(i) \/ SliceBang(i)
             \/ \E v \in Elems : Store(i, v)
             \/ \E s \in Arguments : Insert(i, s)
             \/ \E n \in {-1, 2} : SliceBangMany(i, n)
      PROVE Right
  <2>1. i \in Int
    BY <1>2
  <2>2. CASE DeleteAt(i) \/ SliceBang(i)
    BY <2>1, <2>2, DeleteAtRight, SliceRight
  <2>3. CASE \E v \in Elems : Store(i, v)
    BY <2>1, <2>3, StoreRight
  <2>4. CASE \E s \in Arguments : Insert(i, s)
    BY <2>1, <2>4, InsertRight
  <2>5. CASE \E n \in {-1, 2} : SliceBangMany(i, n)
    <3>1. PICK n \in Int : SliceBangMany(i, n)
      BY <1>2, <2>5
    <3> QED
      BY <2>1, <3>1, SliceRight
  <2> QED
    BY <1>7, <2>2, <2>3, <2>4, <2>5
<1>8. CASE \E r \in Ranges : SliceBangRange(r) \/ \E s \in Arguments : StoreRange(r, s)
  BY <1>8, SliceRight, StoreRangeRight
<1>9. CASE CompactBang \/ ReverseBang \/ SortBang \/ UniqBang \/ ShuffleBang
  BY <1>9, DeleteRight, ReverseRight, SortRight, UniqRight, RotateRight
<1>10. CASE Freeze
  BY <1>10, FreezeRight
<1> QED
  BY <1>3, <1>4, <1>5, <1>6, <1>7, <1>8, <1>9, <1>10 DEF Mutate

(***************************************************************************)
(* An iterator goes on, or ends.                                           *)
(***************************************************************************)
LEMMA OpFacts ==
  /\ \A op \in LoopOps : op \in Forward \/ op \in Backward \/ op = "fill"
  /\ \A op \in Forward : op \notin Backward /\ op # "fill" /\ op \in LoopOps
  /\ \A op \in Backward : op \notin Forward /\ op # "fill" /\ op \in LoopOps
  /\ "fill" \in LoopOps /\ "fill" \notin Forward /\ "fill" \notin Backward
  /\ \A op \in Filters : op \in Forward /\ op \in InPlace
  /\ \A op \in LoopOps : op \notin Reordering /\ op \notin Adding /\ op \notin Removing
  /\ "block" \notin Reordering /\ "block" \notin Adding /\ "block" \notin Removing
  BY DEF LoopOps, Forward, Backward, Filters, InPlace, Reordering, Adding, Removing, Cutting

\* The iterators l and d agree on what Apart looks at.
Alike(l, d) ==
  /\ d.op = l.op /\ d.w = l.w /\ d.n = l.n /\ d.acc = l.acc /\ d.changes = l.changes
  /\ d.given = l.given /\ d.whole = l.whole

\* The iterator l inside its block for the element at i.
Onward(l, m, i) == [l EXCEPT !.i = i, !.elem = SlotAt(m, i)]

LEMMA GoesOn ==
  ASSUME NEW l, NEW m, NEW i, Reaches(l, m, i), HasMore(l, m, i),
         NEW d, d = Onward(l, m, i)
  PROVE Stands(d, m) /\ d # NoLoop /\ d.op = l.op /\ d.i = i /\ (d.op \in Forward => i < m.len)
<1>1. PICK b, n : b = m.buf /\ n = Len(b)
  OBVIOUS
<1>2. /\ b \in Seq(Elems) /\ n \in Nat /\ m.len \in Nat /\ m.len <= n /\ l \in Iterators
      /\ Memory(m) /\ l.op \in LoopOps /\ l.n \in Nat
      /\ IF l.op \in Backward THEN i \in -1 .. n - 1 ELSE i \in 0 .. n
      /\ l.op = "fill" => l.n <= n
  BY <1>1 DEF Reaches, Memory, Iterators
<1>3. /\ l.op \in Forward => i < m.len
      /\ l.op \in Backward => i >= 0
      /\ l.op = "fill" => i < l.n
  BY <1>2, OpFacts DEF HasMore
<1>4. i \in 0 .. n - 1
  BY <1>2, <1>3, OpFacts
<1>5. PICK v : v = b[i + 1]
  OBVIOUS
<1>6. v \in Elems
  <2>1. i + 1 \in 1 .. Len(b)
    BY <1>1, <1>4
  <2> QED
    BY <1>2, <1>5, <2>1
<1>7. d = [l EXCEPT !.i = i, !.elem = v]
  BY <1>1, <1>5 DEF SlotAt, Onward
<1>8. d \in Iterators /\ d.i = i /\ d.elem = v /\ Alike(l, d)
  <2>1. l \in Iterators /\ i \in Int /\ v \in Elems
    BY <1>2, <1>4, <1>6
  <2>2. d.i = i /\ d.elem = v /\ Alike(l, d)
    BY <1>7, <2>1 DEF Iterators, Alike
  <2>3. d \in Iterators
    BY <1>7, <2>1 DEF Iterators
  <2> QED
    BY <2>2, <2>3
<1>9. l.changes = 0 => Apart(l, m, i)
  BY DEF Reaches
<1>10. d.changes = 0 => Apart(d, m, i)
  BY <1>8, <1>9 DEF Apart, Alike
<1>11. Reaches(d, m, i)
  <2>1. /\ l.op \in Filters => l.w <= i
        /\ l.op \notin Filters => l.w = 0
    BY DEF Reaches
  <2> QED
    BY <1>1, <1>2, <1>8, <1>10, <2>1 DEF Reaches, Alike
<1>12. d.changes = 0 /\ d.op \in Forward => i < m.len /\ d.elem = d.whole[i + 1]
  <2> SUFFICES ASSUME d.changes = 0, d.op \in Forward PROVE i < m.len /\ d.elem = d.whole[i + 1]
    OBVIOUS
  <2>1. i < m.len /\ \A k \in i + 1 .. m.len : b[k] = d.whole[k]
    BY <1>1, <1>3, <1>8, <1>10 DEF Apart, Alike
  <2>2. i + 1 \in i + 1 .. m.len
    BY <1>2, <1>4, <2>1
  <2> QED
    BY <1>5, <1>8, <2>1, <2>2
<1>13. Stands(d, m)
  BY <1>1, <1>4, <1>8, <1>11, <1>12 DEF Stands
<1> QED
  BY <1>3, <1>8, <1>13, LoopDiffers DEF Alike

\* What the array is when the iterator l ends.
Left(l, m) == IF l.op \in Filters THEN [m EXCEPT !.len = l.w] ELSE m

LEMMA LeftFacts ==
  ASSUME NEW l, NEW m, NEW i, Reaches(l, m, i)
  PROVE /\ Memory(Left(l, m)) /\ Left(l, m).buf = m.buf
        /\ l.op \in Filters => Left(l, m).len = l.w
        /\ l.op \notin Filters => Left(l, m) = m
<1>1. PICK b, n : b = m.buf /\ n = Len(b)
  OBVIOUS
<1>2. /\ b \in Seq(Elems) /\ n \in Nat /\ n <= MaxLen /\ Memory(m) /\ m \in [buf : Seq(Elems), len : Nat]
      /\ l.op \in Filters => l.w <= i /\ i \in 0 .. n
      /\ l.w \in Nat
  BY <1>1, OpFacts DEF Reaches, Memory, Iterators
<1>3. CASE l.op \in Filters
  <2>1. Left(l, m) = [m EXCEPT !.len = l.w]
    BY <1>3 DEF Left
  <2>2. l.w <= n
    BY <1>2, <1>3
  <2> QED
    BY <1>1, <1>2, <1>3, <2>1, <2>2 DEF Memory
<1>4. CASE l.op \notin Filters
  BY <1>2, <1>4 DEF Left
<1> QED
  BY <1>3, <1>4

LEMMA MeantAtEnd ==
  ASSUME NEW l, NEW m, NEW i, Reaches(l, m, i), ~HasMore(l, m, i), l.changes = 0,
         NEW t, t = SubSeq(Left(l, m).buf, 1, Left(l, m).len)
  PROVE Meant(l.op, Outcome(l, m), l.whole, l.given, t)
<1>1. PICK b, n, out, s, g : b = m.buf /\ n = Len(b) /\ out = Outcome(l, m) /\ s = l.whole /\ g = l.given
  OBVIOUS
<1>2. /\ b \in Seq(Elems) /\ n \in Nat /\ m.len \in Nat /\ m.len <= n /\ l.op \in LoopOps
      /\ s \in Seq(Elems) /\ g \in Seq(Elems) /\ l.w \in Nat /\ l.n \in Nat
      /\ IF l.op \in Backward THEN i \in -1 .. n - 1 ELSE i \in 0 .. n
      /\ l.op \in Filters => l.w <= i
      /\ Apart(l, m, i)
  BY <1>1 DEF Reaches, Memory, Iterators
<1>3. Len(s) \in Nat /\ Len(g) \in Nat
  BY <1>2
<1>4. l.op \in Forward => i = Len(s) /\ m.len = Len(s) /\ Len(g) = Len(s)
  <2> SUFFICES ASSUME l.op \in Forward PROVE i = Len(s) /\ m.len = Len(s) /\ Len(g) = Len(s)
    OBVIOUS
  <2>1. ~(i < m.len)
    BY OpFacts DEF HasMore
  <2>2. Len(g) = i /\ i <= m.len /\ m.len = Len(s)
    BY <1>1, <1>2 DEF Apart
  <2>3. i \in Nat
    BY <1>2, OpFacts
  <2> QED
    BY <1>2, <2>1, <2>2, <2>3
<1>5. l.op \in Backward => Len(g) = Len(s)
  <2> SUFFICES ASSUME l.op \in Backward PROVE Len(g) = Len(s)
    OBVIOUS
  <2>1. ~(i >= 0)
    BY OpFacts DEF HasMore
  <2>2. Len(g) = Len(s) - 1 - i
    BY <1>1, <1>2 DEF Apart
  <2>3. i = -1
    BY <1>2, <2>1
  <2> QED
    BY <1>3, <2>2, <2>3
<1>6. SubSeq(s, 1, Len(s)) = s
  BY <1>2, SubSeqFull
<1>7. l.op = "map" => out = Arr(g)
  <2> SUFFICES ASSUME l.op = "map" PROVE out = Arr(g)
    OBVIOUS
  <2>1. l.acc = g
    BY <1>1, <1>2 DEF Apart
  <2> QED
    BY <1>1, <2>1 DEF Outcome, Filters
<1>8. l.op \in {"select", "reject"} => out = Arr(Chosen(s, g, Keeping(l.op)))
  <2> SUFFICES ASSUME l.op \in {"select", "reject"} PROVE out = Arr(Chosen(s, g, Keeping(l.op)))
    OBVIOUS
  <2>1. l.op \in Forward
    BY DEF Forward
  <2>2. l.acc = Chosen(SubSeq(s, 1, i), g, Keeping(l.op))
    BY <1>1, <1>2 DEF Apart
  <2>3. l.acc = Chosen(s, g, Keeping(l.op))
    BY <1>4, <1>6, <2>1, <2>2
  <2>4. out = Arr(l.acc)
    BY <1>1 DEF Outcome, Filters
  <2> QED
    BY <2>3, <2>4
<1>9. l.op = "map!" => t = g
  <2> SUFFICES ASSUME l.op = "map!" PROVE t = g
    OBVIOUS
  <2>1. l.op \in Forward /\ l.op \notin Filters
    BY DEF Forward, Filters
  <2>2. \A k \in 1 .. i : b[k] = g[k]
    BY <1>1, <1>2 DEF Apart
  <2>3. t = SubSeq(b, 1, i)
    BY <1>1, <1>4, <2>1 DEF Left
  <2>4. i \in 0 .. Len(b) /\ i = Len(g)
    BY <1>1, <1>2, <1>4, <2>1
  <2>5. t \in Seq(Elems) /\ Len(t) = i /\ \A k \in 1 .. i : t[k] = b[k]
    <3>1. b \in Seq(Elems)
      BY <1>2
    <3>2. /\ SubSeq(b, 1, i) \in Seq(Elems) /\ Len(SubSeq(b, 1, i)) = i
          /\ \A k \in 1 .. i : SubSeq(b, 1, i)[k] = b[k]
      BY <2>4, <3>1, PrefixFacts
    <3> QED
      BY <2>3, <3>2
  <2>6. \A k \in 1 .. Len(t) : t[k] = g[k]
    BY <2>2, <2>5
  <2> QED
    BY <1>2, <2>4, <2>5, <2>6, SeqEqual
<1>10. l.op \in Filters => t = Chosen(s, g, Keeping(l.op)) /\ out = SelfIf(t # s)
  <2> SUFFICES ASSUME l.op \in Filters
               PROVE t = Chosen(s, g, Keeping(l.op)) /\ out = SelfIf(t # s)
    OBVIOUS
  <2>1. l.op \in Forward
    BY OpFacts
  <2>2. l.n = m.len /\ SubSeq(b, 1, l.w) = Chosen(SubSeq(s, 1, i), g, Keeping(l.op))
    BY <1>1, <1>2 DEF Apart
  <2>3. t = SubSeq(b, 1, l.w)
    BY <1>1, LeftFacts
  <2>4. t = Chosen(s, g, Keeping(l.op))
    BY <1>4, <1>6, <2>1, <2>2, <2>3
  <2>5. l.w \in 0 .. Len(b)
    BY <1>1, <1>2, <2>1, OpFacts
  <2>6. Len(t) = l.w
    <3>1. b \in Seq(Elems)
      BY <1>2
    <3>2. PICK w : w = l.w
      OBVIOUS
    <3>3. Len(SubSeq(b, 1, w)) = w
      BY <2>5, <3>1, <3>2, PrefixFacts
    <3> QED
      BY <2>3, <3>2, <3>3
  <2>7. Len(t) = Len(s) => t = s
    BY <1>2, <2>4, ChosenFacts
  <2>8. l.n = Len(s)
    BY <1>4, <2>1, <2>2
  <2>9. out = SelfIf(l.w # l.n)
    BY <1>1 DEF Outcome, Filters
  <2>10. (l.w # l.n) <=> (t # s)
    BY <2>6, <2>7, <2>8
  <2> QED
    BY <2>4, <2>9, <2>10, Zenon DEF SelfIf
<1>11. l.op \in {"find_index", "rindex"} => out.k # "index" /\ \A k \in 1 .. Len(g) : ~Truthy(g[k])
  <2> SUFFICES ASSUME l.op \in {"find_index", "rindex"}
               PROVE out.k # "index" /\ \A k \in 1 .. Len(g) : ~Truthy(g[k])
    OBVIOUS
  <2>1. out = Elem(Nil)
    BY <1>1 DEF Outcome, Filters
  <2>2. \A k \in 1 .. Len(g) : ~Truthy(g[k])
    BY <1>1, <1>2 DEF Apart
  <2> QED
    BY <2>1, <2>2 DEF Elem
<1>12. DOMAIN g = 1 .. Len(g)
  BY <1>2
<1>13. l.op \in Forward \cup Backward => Len(g) = Len(s)
  BY <1>4, <1>5
<1>14. Meant(l.op, out, s, g, t)
  BY <1>7, <1>8, <1>9, <1>10, <1>11, <1>12, <1>13 DEF Meant
<1> QED
  BY <1>1, <1>14

\* What a step of an iterator does, apart from what it is a step of.
Advanced(l, m, i) ==
  /\ ArrayInv' /\ MeantStep
  /\ loop' # NoLoop => loop'.i = i /\ (loop'.op \in Forward => loop'.i < mem'.len)
  /\ l.op \notin Filters => mem' = m
  /\ last'.op \notin Reordering /\ last'.op \notin Adding /\ last'.op \notin Removing

LEMMA ProceedAdvances ==
  ASSUME NEW l, NEW m, NEW i, Reaches(l, m, i), Proceed(l, m, i), frozen' \in BOOLEAN
  PROVE Advanced(l, m, i)
<1>1. Memory(m) /\ l \in Iterators /\ l.op \in LoopOps
  BY DEF Reaches, Iterators
<1>2. CASE HasMore(l, m, i)
  <2>1. PICK d : d = Onward(l, m, i)
    OBVIOUS
  <2>2. mem' = m /\ loop' = d /\ last' = [op |-> "block", out |-> Self]
    BY <1>2, <2>1 DEF Proceed, Onward
  <2>3. Stands(d, m) /\ d # NoLoop /\ d.op = l.op /\ d.i = i /\ (d.op \in Forward => i < m.len)
    BY <1>2, <2>1, GoesOn
  <2>4. ArrayInv'
    BY <1>1, <2>2, <2>3 DEF ArrayInv
  <2>5. MeantStep
    BY <2>2, <2>3 DEF MeantStep
  <2>6. last'.op = "block"
    BY <2>2
  <2> QED
    BY <2>2, <2>3, <2>4, <2>5, <2>6, OpFacts DEF Advanced
<1>3. CASE ~HasMore(l, m, i)
  <2>1. PICK out, x, t : out = Outcome(l, m) /\ x = Left(l, m) /\ t = SubSeq(x.buf, 1, x.len)
    OBVIOUS
  <2>2. /\ mem' = x /\ loop' = NoLoop
        /\ last' = [op |-> l.op, out |-> out, clean |-> l.changes = 0,
                    given |-> l.given, whole |-> l.whole]
    BY <1>3, <2>1 DEF Proceed, Return, Left
  <2>3. Memory(x) /\ (l.op \notin Filters => x = m)
    BY <2>1, LeftFacts
  <2>4. ArrayInv'
    BY <2>2, <2>3 DEF ArrayInv
  <2>5. last'.op = l.op /\ last'.out = out /\ last'.given = l.given /\ last'.whole = l.whole
    BY <2>2
  <2>6. last'.clean => l.changes = 0
    BY <2>2, Zenon
  <2>7. Content' = t
    BY <2>1, <2>2 DEF Content
  <2>8. ASSUME l.changes = 0 PROVE Meant(l.op, out, l.whole, l.given, t)
    BY <1>3, <2>1, <2>8, MeantAtEnd
  <2>9. MeantStep
    BY <2>5, <2>6, <2>7, <2>8 DEF MeantStep
  <2> QED
    BY <1>1, <2>2, <2>3, <2>4, <2>5, <2>9, OpFacts DEF Advanced
<1> QED
  BY <1>2, <1>3

\* The record an iterator begins with.
Fresh(op, first, n, s) ==
  [op |-> op, i |-> first, w |-> 0, n |-> n, acc |-> <<>>, elem |-> Nil,
   changes |-> 0, given |-> <<>>, whole |-> s]

LEMMA FreshReaches ==
  ASSUME ArrayInv, NEW op \in LoopOps, NEW m, NEW first \in Int, NEW n \in Nat, Memory(m),
         op \in Forward => m = mem /\ first = 0 /\ n = mem.len,
         op \in Backward => m = mem /\ first = mem.len - 1,
         op = "fill" => first \in 0 .. n /\ n <= Len(m.buf)
  PROVE Reaches(Fresh(op, first, n, Content), m, first)
<1>1. PICK c, N, l, z : c = Content /\ N = mem.len /\ l = Fresh(op, first, n, c) /\ z = <<>>
  OBVIOUS
<1>2. c \in Seq(Elems) /\ Len(c) = N /\ N \in Nat
  BY <1>1, ContentFacts
<1>3. z \in Seq(Elems) /\ Len(z) = 0 /\ Nil \in Elems
  BY <1>1, ElementFacts
<1>4. /\ l.op = op /\ l.i = first /\ l.w = 0 /\ l.n = n /\ l.acc = z /\ l.elem = Nil
      /\ l.changes = 0 /\ l.given = z /\ l.whole = c
  BY <1>1 DEF Fresh
<1>5. l \in Iterators
  BY <1>1, <1>2, <1>3 DEF Fresh, Iterators
<1>6. m.buf \in Seq(Elems) /\ m.len \in Nat /\ m.len <= Len(m.buf) /\ Len(m.buf) \in Nat
  BY DEF Memory
<1>7. IF l.op \in Backward THEN first \in -1 .. Len(m.buf) - 1 ELSE first \in 0 .. Len(m.buf)
  <2>1. CASE op \in Backward
    BY <1>1, <1>2, <1>4, <1>6, <2>1
  <2>2. CASE op \in Forward
    BY <1>4, <1>6, <2>2, OpFacts
  <2>3. CASE op = "fill"
    BY <1>4, <1>6, <2>3, OpFacts
  <2> QED
    BY <2>1, <2>2, <2>3, OpFacts
<1>8. ASSUME op \in Forward
      PROVE \A k \in first + 1 .. m.len : m.buf[k] = c[k]
  <2>1. PICK b : b = mem.buf
    OBVIOUS
  <2>2. b \in Seq(Elems) /\ N \in 0 .. Len(b)
    BY <1>1, <2>1 DEF ArrayInv, Memory
  <2>3. c = SubSeq(b, 1, N)
    BY <1>1, <2>1 DEF Content
  <2>4. \A k \in 1 .. N : SubSeq(b, 1, N)[k] = b[k]
    BY <2>2, PrefixFacts
  <2> QED
    BY <1>1, <1>8, <2>1, <2>3, <2>4
<1>9. \A K : Chosen(SubSeq(c, 1, 0), z, K) = z
  BY <1>1, <1>2, ChosenNone
<1>10. SubSeq(m.buf, 1, 0) = z
  <2>1. PICK b : b = m.buf
    OBVIOUS
  <2>2. 0 \in 0 .. Len(b) /\ b \in Seq(Elems)
    BY <1>6, <2>1
  <2>3. SubSeq(b, 1, 0) \in Seq(Elems) /\ Len(SubSeq(b, 1, 0)) = 0
    BY <2>2, PrefixFacts
  <2> QED
    BY <1>1, <2>1, <2>3
<1>11. Apart(l, m, first)
  <2>1. op \in Backward => Len(z) = Len(c) - 1 - first
    BY <1>1, <1>2, <1>3
  <2>2. op \in Forward => /\ Len(z) = first /\ first <= m.len /\ m.len = Len(c)
                          /\ \A k \in first + 1 .. m.len : m.buf[k] = c[k]
    BY <1>1, <1>2, <1>3, <1>6, <1>8
  <2>3. op \in {"select", "reject"} => z = Chosen(SubSeq(c, 1, first), z, Keeping(op))
    BY <1>9 DEF Forward
  <2>4. op = "map!" => \A k \in 1 .. first : m.buf[k] = z[k]
    BY DEF Forward
  <2>5. op \in Filters => /\ n = m.len
                          /\ SubSeq(m.buf, 1, 0) = Chosen(SubSeq(c, 1, first), z, Keeping(op))
    BY <1>9, <1>10, OpFacts
  <2>6. \A k \in 1 .. Len(z) : ~Truthy(z[k])
    BY <1>3
  <2> QED
    BY <1>4, <2>1, <2>2, <2>3, <2>4, <2>5, <2>6 DEF Apart
<1>12. op \in Filters => 0 <= first
  BY OpFacts
<1>13. Reaches(l, m, first)
  BY <1>4, <1>5, <1>7, <1>11, <1>12 DEF Reaches
<1> QED
  BY <1>1, <1>13

LEMMA StartRight ==
  ASSUME ArrayInv, NEW op \in Forward \cup Backward, StartLoop(op)
  PROVE Right
<1>1. loop = NoLoop /\ frozen' = frozen /\ frozen \in BOOLEAN /\ Memory(mem)
  BY DEF StartLoop, ArrayInv
<1>2. op \in LoopOps /\ op \notin Reordering /\ op \notin Adding /\ op \notin Removing
  BY OpFacts
<1>3. CASE frozen /\ op \in InPlace
  <2>1. PICK e : e = Raised("FrozenError")
    OBVIOUS
  <2>2. mem' = mem /\ loop' = loop /\ last' = [op |-> op, out |-> e]
    BY <1>3, <2>1 DEF StartLoop
  <2>3. e.k = "raised"
    BY <2>1 DEF Raised
  <2> QED
    BY <1>1, <2>2, <2>3, QuietRight
<1>4. CASE ~(frozen /\ op \in InPlace)
  <2>1. PICK m, N, first, l : /\ m = mem /\ N = mem.len
                              /\ first = IF op \in Forward THEN 0 ELSE mem.len - 1
                              /\ l = Fresh(op, first, N, Content)
    OBVIOUS
  <2>2. N \in Nat /\ first \in Int /\ Memory(m)
    BY <1>1, <2>1, ContentFacts
  <2>3. Reaches(l, m, first)
    BY <1>2, <2>1, <2>2, OpFacts, FreshReaches
  <2>4. Proceed(l, m, first)
    <3>1. CASE op \in Forward
      BY <1>4, <2>1, <3>1, OpFacts DEF StartLoop, Begin, Fresh
    <3>2. CASE op \in Backward
      BY <1>4, <2>1, <3>2, OpFacts DEF StartLoop, Begin, Fresh
    <3> QED
      BY <3>1, <3>2
  <2>5. Advanced(l, m, first)
    BY <1>1, <2>3, <2>4, ProceedAdvances
  <2>6. /\ ArrayInv' /\ MeantStep
        /\ loop' # NoLoop => (loop'.op \in Forward => loop'.i < mem'.len)
        /\ op \notin Filters => mem' = mem
        /\ last'.op \notin Reordering /\ last'.op \notin Adding /\ last'.op \notin Removing
    BY <2>1, <2>5 DEF Advanced, Fresh
  <2>7. LiveStep
    BY <2>6 DEF LiveStep
  <2>8. FrozenStep
    <3>1. frozen => mem' = mem
      BY <1>4, <2>6, OpFacts
    <3> QED
      BY <3>1 DEF FrozenStep, Content
  <2>9. ConservedStep
    BY <2>6, ConservedOther DEF ConservedStep
  <2> QED
    BY <2>6, <2>7, <2>8, <2>9 DEF Right
<1> QED
  BY <1>3, <1>4

LEMMA StartFillRight ==
  ASSUME ArrayInv, NEW start \in Int, NEW count \in Nat, StartFill(start, count)
  PROVE Right
<1>1. PICK c, N, a : c = Content /\ N = mem.len /\ a = FromEnd(start)
  OBVIOUS
<1>2. /\ c \in Seq(Elems) /\ Len(c) = N /\ N \in Nat /\ N <= MaxLen /\ a \in Int
      /\ loop = NoLoop /\ frozen' = frozen /\ frozen \in BOOLEAN
  BY <1>1, ContentFacts, PositionFacts DEF StartFill, ArrayInv
<1>3. PICK op, from : op = "fill" /\ from = IF a < 0 THEN 0 ELSE a
  OBVIOUS
<1>4. PICK n, d : n = from + count /\ d = n - N
  OBVIOUS
<1>5. PICK e : e = [k \in 1 .. d |-> Nil]
  OBVIOUS
<1>6. PICK s, m : s = c \o e /\ m = Rewrite(s)
  OBVIOUS
<1>7. n \in Nat /\ from \in 0 .. n /\ d \in Int /\ n <= MaxLen
  BY <1>1, <1>2, <1>3, <1>4 DEF StartFill
<1>8. CASE frozen
  <2>1. PICK x : x = Raised("FrozenError")
    OBVIOUS
  <2>2. mem' = mem /\ loop' = loop /\ last' = [op |-> op, out |-> x]
    BY <1>3, <1>8, <2>1 DEF StartFill
  <2>3. x.k = "raised"
    BY <2>1 DEF Raised
  <2> QED
    BY <1>2, <2>2, <2>3, QuietRight
<1>9. CASE ~frozen
  <2>1. e \in Seq(Elems) /\ Len(e) = IF d > 0 THEN d ELSE 0
    BY <1>5, <1>7, ElementFacts
  <2>2. s \in Seq(Elems) /\ Len(s) = Len(c) + Len(e)
    BY <1>2, <1>6, <2>1, ConcatProperties
  <2>3. Len(s) <= MaxLen /\ n <= Len(s)
    BY <1>2, <1>4, <1>7, <2>1, <2>2
  <2>4. Memory(m) /\ Len(s) <= Len(m.buf)
    BY <1>6, <2>2, <2>3, RewriteFacts
  <2>5. n <= Len(m.buf)
    <3>1. Len(s) \in Nat /\ Len(m.buf) \in Nat
      BY <2>2, <2>4 DEF Memory
    <3> QED
      BY <1>7, <2>3, <2>4, <3>1
  <2>6. PICK l : l = Fresh(op, from, n, c)
    OBVIOUS
  <2>7. Reaches(l, m, from)
    <3>1. op \in LoopOps /\ op \notin Forward /\ op \notin Backward
      BY <1>3, OpFacts
    <3>2. from \in Int
      BY <1>7
    <3> QED
      BY <1>1, <1>7, <2>4, <2>5, <2>6, <3>1, <3>2, FreshReaches
  <2>8. Proceed(l, m, from)
    BY <1>1, <1>3, <1>4, <1>5, <1>6, <1>9, <2>6 DEF StartFill, Begin, Fresh
  <2>9. Advanced(l, m, from)
    BY <1>2, <2>7, <2>8, ProceedAdvances
  <2>10. /\ ArrayInv' /\ MeantStep
         /\ loop' # NoLoop => (loop'.op \in Forward => loop'.i < mem'.len)
         /\ last'.op \notin Reordering /\ last'.op \notin Adding /\ last'.op \notin Removing
    BY <2>9 DEF Advanced
  <2>11. LiveStep
    BY <2>10 DEF LiveStep
  <2>12. FrozenStep
    BY <1>9 DEF FrozenStep
  <2>13. ConservedStep
    BY <2>10, ConservedOther DEF ConservedStep
  <2> QED
    BY <2>10, <2>11, <2>12, <2>13 DEF Right
<1> QED
  BY <1>8, <1>9

LEMMA LeavesRight ==
  ASSUME ArrayInv, BlockLeaves
  PROVE Right
<1>1. PICK op, out : op = loop.op /\ out = [k |-> "left"]
  OBVIOUS
<1>2. /\ loop # NoLoop /\ loop' = NoLoop /\ mem' = mem /\ frozen' = frozen
      /\ last' = [op |-> op, out |-> out]
  BY <1>1 DEF BlockLeaves
<1>3. op \notin Reordering /\ op \notin Adding /\ op \notin Removing
  BY <1>1, <1>2, OpFacts DEF ArrayInv, Stands, Reaches, Iterators
<1>4. ArrayInv'
  BY <1>2 DEF ArrayInv
<1>5. LiveStep
  BY <1>2 DEF LiveStep
<1>6. FrozenStep
  BY <1>2 DEF FrozenStep, Content
<1>7. MeantStep
  <2>1. "whole" \notin DOMAIN last'
    BY <1>2
  <2> QED
    BY <2>1 DEF MeantStep
<1>8. ConservedStep
  <2>1. last'.op = op
    BY <1>2
  <2> QED
    BY <1>3, <2>1, ConservedOther DEF ConservedStep
<1> QED
  BY <1>4, <1>5, <1>6, <1>7, <1>8 DEF Right

(***************************************************************************)
(* The block returns.                                                      *)
(***************************************************************************)
\* What the array is then.
Wrote(l, r, m, x) ==
  /\ Memory(x) /\ x.len = m.len /\ Len(x.buf) = Len(m.buf)
  /\ \A k \in l.i + 2 .. Len(m.buf) : x.buf[k] = m.buf[k]
  /\ l.op \notin InPlace => x = m
  /\ l.op = "map!" => x.buf[l.i + 1] = r /\ \A k \in 1 .. l.i : x.buf[k] = m.buf[k]
  /\ l.op \in Filters =>
         SubSeq(x.buf, 1, IF Kept(l, r) THEN l.w + 1 ELSE l.w) =
             IF Kept(l, r) THEN Append(SubSeq(m.buf, 1, l.w), m.buf[l.i + 1])
             ELSE SubSeq(m.buf, 1, l.w)

LEMMA PrefixExtended ==
  ASSUME NEW S, NEW s \in Seq(S), NEW w \in Nat, w < Len(s), NEW v \in S,
         NEW t, t = [s EXCEPT ![w + 1] = v]
  PROVE SubSeq(t, 1, w + 1) = Append(SubSeq(s, 1, w), v)
<1>1. PICK n, a, p, q : /\ n = w + 1 /\ a = SubSeq(s, 1, w) /\ p = SubSeq(t, 1, n)
                        /\ q = Append(a, v)
  OBVIOUS
<1>2. n \in 1 .. Len(s) /\ w \in 0 .. Len(s) /\ t = [s EXCEPT ![n] = v]
  BY <1>1
<1>3. t \in Seq(S) /\ Len(t) = Len(s) /\ t[n] = v /\ \A k \in 1 .. w : t[k] = s[k]
  <2>1. t \in Seq(S) /\ Len(t) = Len(s)
    BY <1>2, ExceptSeq
  <2>2. DOMAIN s = 1 .. Len(s)
    OBVIOUS
  <2> QED
    BY <1>1, <1>2, <2>1, <2>2
<1>4. a \in Seq(S) /\ Len(a) = w /\ \A k \in 1 .. w : a[k] = s[k]
  BY <1>1, <1>2, PrefixFacts
<1>5. p \in Seq(S) /\ Len(p) = n /\ \A k \in 1 .. n : p[k] = t[k]
  <2>1. n \in 0 .. Len(t)
    BY <1>1, <1>2, <1>3
  <2> QED
    BY <1>1, <1>3, <2>1, PrefixFacts
<1>6. q \in Seq(S) /\ Len(q) = w + 1 /\ q[w + 1] = v /\ \A k \in 1 .. w : q[k] = a[k]
  BY <1>1, <1>4, AppendProperties
<1>7. ASSUME NEW k \in 1 .. n PROVE p[k] = q[k]
  <2>1. k = n \/ k \in 1 .. w
    BY <1>1, <1>2
  <2>2. CASE k = n
    BY <1>1, <1>3, <1>5, <1>6, <2>2
  <2>3. CASE k \in 1 .. w
    BY <1>3, <1>4, <1>5, <1>6, <2>3
  <2> QED
    BY <2>1, <2>2, <2>3
<1>8. p = q
  BY <1>1, <1>5, <1>6, <1>7, SeqEqual
<1> QED
  BY <1>1, <1>8

LEMMA KindFacts ==
  /\ \A op \in Filters : op # "map!" /\ op # "fill"
  /\ "map!" \notin Filters /\ "fill" \notin Filters
  /\ \A op : op \in InPlace <=> op \in {"map!", "fill"} \cup Filters
  /\ \A l, r : Kept(l, r) => l.op \in Filters
  BY DEF Filters, InPlace, Kept

LEMMA StandsFacts ==
  ASSUME NEW l, NEW m, Stands(l, m)
  PROVE /\ m.buf \in Seq(Elems) /\ Len(m.buf) \in Nat /\ m.len \in Nat /\ m.len <= Len(m.buf)
        /\ Len(m.buf) <= MaxLen /\ m \in [buf : Seq(Elems), len : Nat]
        /\ l \in Iterators /\ l.op \in LoopOps /\ l.i \in 0 .. Len(m.buf) - 1 /\ l.w \in Nat
        /\ l.op \in Filters => l.w <= l.i
        /\ l.op \notin Filters => l.w = 0
  BY DEF Stands, Reaches, Memory, Iterators

\* A slot is written, the others stay.
Slotted(m, n, v) == [m EXCEPT !.buf[n] = v]
Exchanged(b, n, v) == [b EXCEPT ![n] = v]
OneWritten(m, b, n, v, x) ==
  /\ Memory(x) /\ x.len = m.len /\ Len(x.buf) = Len(b)
  /\ x.buf = Exchanged(b, n, v) /\ x.buf[n] = v
  /\ \A k \in 1 .. Len(b) : k # n => x.buf[k] = b[k]

LEMMA SlotWritten ==
  ASSUME NEW m, Memory(m), NEW b, b = m.buf, NEW n \in 1 .. Len(b), NEW v \in Elems,
         NEW x, x = Slotted(m, n, v)
  PROVE OneWritten(m, b, n, v, x)
<1>0. /\ x = [m EXCEPT !.buf[n] = v] /\ m \in [buf : Seq(Elems), len : Nat]
      /\ Len(b) <= MaxLen /\ m.len <= Len(b) /\ b \in Seq(Elems)
  BY DEF Slotted, Memory
<1>1. PICK c : c = [b EXCEPT ![n] = v]
  OBVIOUS
<1>2. b \in Seq(Elems) /\ DOMAIN b = 1 .. Len(b)
  BY <1>0
<1>3. x = [m EXCEPT !.buf = c]
  BY <1>0, <1>1
<1>4. x.buf = c /\ x.len = m.len /\ x \in [buf : {c}, len : Nat]
  BY <1>0, <1>3
<1>5. c \in Seq(Elems) /\ Len(c) = Len(b)
  BY <1>1, <1>2, ExceptSeq
<1>6. c[n] = v /\ \A k \in 1 .. Len(b) : k # n => c[k] = b[k]
  BY <1>1, <1>2
<1>7. Memory(x)
  BY <1>0, <1>4, <1>5 DEF Memory
<1> QED
  BY <1>1, <1>4, <1>5, <1>6, <1>7 DEF OneWritten, Exchanged

LEMMA WrittenFacts ==
  ASSUME ArrayInv, loop # NoLoop, NEW r \in Elems, NEW l, NEW m, l = loop, m = mem,
         NEW x, x = Written(l, r)
  PROVE Wrote(l, r, m, x)
<1>1. Stands(l, m)
  BY DEF ArrayInv
<1>2. PICK b, n, v : b = m.buf /\ n = l.i + 1 /\ v = b[n]
  OBVIOUS
<1>3. /\ b \in Seq(Elems) /\ Len(b) \in Nat /\ n \in 1 .. Len(b) /\ n = l.i + 1 /\ v \in Elems
      /\ m.len <= Len(b) /\ Memory(m) /\ b = m.buf
      /\ l.op \in Filters => l.w <= l.i
      /\ l.w \in Nat /\ l.i \in Nat
  <2>1. n \in 1 .. Len(b)
    BY <1>1, <1>2, StandsFacts
  <2>2. Memory(m)
    BY DEF ArrayInv
  <2> QED
    BY <1>1, <1>2, <2>1, <2>2, StandsFacts
<1>4. CASE l.op \in {"map!", "fill"}
  <2>1. x = Slotted(m, n, r)
    BY <1>2, <1>4 DEF Written, Slotted
  <2>2. /\ Memory(x) /\ x.len = m.len /\ Len(x.buf) = Len(b) /\ x.buf[n] = r
        /\ \A k \in 1 .. Len(b) : k # n => x.buf[k] = b[k]
    <3>1. Memory(m) /\ b = m.buf /\ n \in 1 .. Len(b)
      BY <1>3
    <3>2. OneWritten(m, b, n, r, x)
      BY <2>1, <3>1, SlotWritten
    <3> QED
      BY <3>2 DEF OneWritten
  <2>3. l.op \in InPlace /\ l.op \notin Filters
    BY <1>4, KindFacts
  <2>4. /\ \A k \in l.i + 2 .. Len(b) : x.buf[k] = b[k]
        /\ \A k \in 1 .. l.i : x.buf[k] = b[k]
    <3>1. /\ \A k \in l.i + 2 .. Len(b) : k \in 1 .. Len(b) /\ k # n
          /\ \A k \in 1 .. l.i : k \in 1 .. Len(b) /\ k # n
      BY <1>3
    <3> QED
      BY <2>2, <3>1
  <2> QED
    BY <1>2, <2>2, <2>3, <2>4 DEF Wrote
<1>5. CASE Kept(l, r)
  <2>1. PICK w : w = l.w + 1
    OBVIOUS
  <2>2. x = Slotted(m, w, v)
    BY <1>2, <1>5, <2>1 DEF Written, Kept, SlotAt, Slotted
  <2>3. l.op \in Filters /\ l.op # "map!" /\ l.op \in InPlace
    BY <1>5, KindFacts
  <2>4. w \in 1 .. Len(b) /\ w = l.w + 1 /\ w <= n /\ l.w < Len(b)
    BY <1>3, <2>1, <2>3
  <2>5. /\ Memory(x) /\ x.len = m.len /\ Len(x.buf) = Len(b) /\ x.buf = Exchanged(b, w, v)
        /\ \A k \in 1 .. Len(b) : k # w => x.buf[k] = b[k]
    <3>1. Memory(m) /\ b = m.buf /\ w \in 1 .. Len(b) /\ v \in Elems
      BY <1>3, <2>4
    <3>2. OneWritten(m, b, w, v, x)
      BY <2>2, <3>1, SlotWritten
    <3> QED
      BY <3>2 DEF OneWritten
  <2>6. \A k \in l.i + 2 .. Len(b) : x.buf[k] = b[k]
    <3>1. \A k \in l.i + 2 .. Len(b) : k \in 1 .. Len(b) /\ k # w
      BY <1>3, <2>4
    <3> QED
      BY <2>5, <3>1
  <2>7. SubSeq(x.buf, 1, l.w + 1) = Append(SubSeq(b, 1, l.w), v)
    <3>1. PICK u, t : u = l.w /\ t = x.buf
      OBVIOUS
    <3>2. u \in Nat /\ u < Len(b) /\ t = [b EXCEPT ![u + 1] = v]
      BY <1>3, <2>4, <2>5, <3>1 DEF Exchanged
    <3>3. SubSeq(t, 1, u + 1) = Append(SubSeq(b, 1, u), v)
      BY <1>3, <3>2, PrefixExtended
    <3> QED
      BY <3>1, <3>3
  <2> QED
    BY <1>2, <1>5, <2>3, <2>5, <2>6, <2>7 DEF Wrote
<1>6. CASE l.op \notin {"map!", "fill"} /\ ~Kept(l, r)
  <2>1. x = m
    BY <1>6 DEF Written, Kept
  <2> QED
    BY <1>2, <1>3, <1>6, <2>1 DEF Wrote, Memory
<1> QED
  BY <1>4, <1>5, <1>6

\* The iterator when its block has returned r.
Heard(l, r) ==
  [l EXCEPT !.acc = Collected(l, r),
            !.w = IF Kept(l, r) THEN l.w + 1 ELSE l.w,
            !.given = IF l.changes = 0 THEN Append(@, r) ELSE @]

LEMMA HeardFacts ==
  ASSUME NEW l \in Iterators, NEW r \in Elems, NEW h, h = Heard(l, r)
  PROVE /\ h \in Iterators /\ h.op = l.op /\ h.i = l.i /\ h.n = l.n /\ h.whole = l.whole
        /\ h.changes = l.changes /\ h.acc = Collected(l, r)
        /\ h.w = IF Kept(l, r) THEN l.w + 1 ELSE l.w
        /\ l.changes = 0 => h.given = Append(l.given, r)
<1>1. PICK a, w, g : /\ a = Collected(l, r) /\ w = IF Kept(l, r) THEN l.w + 1 ELSE l.w
                     /\ g = IF l.changes = 0 THEN Append(l.given, r) ELSE l.given
  OBVIOUS
<1>2. l.acc \in Seq(Elems) /\ l.elem \in Elems /\ l.given \in Seq(Elems) /\ l.w \in Nat
  BY DEF Iterators
<1>3. /\ Append(l.acc, r) \in Seq(Elems) /\ Append(l.acc, l.elem) \in Seq(Elems)
      /\ Append(l.given, r) \in Seq(Elems)
  BY <1>2, AppendProperties
<1>4. a \in Seq(Elems)
  <2>1. a = Append(l.acc, r) \/ a = Append(l.acc, l.elem) \/ a = l.acc
    BY <1>1 DEF Collected
  <2> QED
    BY <1>2, <1>3, <2>1
<1>5. w \in Nat /\ g \in Seq(Elems)
  BY <1>1, <1>2, <1>3
<1>6. h = [l EXCEPT !.acc = a, !.w = w, !.given = g]
  BY <1>1 DEF Heard
<1>7. h \in Iterators
  BY <1>4, <1>5, <1>6 DEF Iterators
<1>8. /\ h.op = l.op /\ h.i = l.i /\ h.n = l.n /\ h.whole = l.whole
      /\ h.changes = l.changes /\ h.acc = a /\ h.w = w /\ h.given = g
  BY <1>6 DEF Iterators
<1> QED
  BY <1>1, <1>7, <1>8

LEMMA KeepingFacts ==
  ASSUME NEW op \in {"select", "reject"} \cup Filters, NEW r \in Elems
  PROVE r \in Keeping(op) <=> IF op \in {"select", "select!"} THEN Truthy(r) ELSE ~Truthy(r)
<1>1. Nil \notin Vals
  BY ArraysAssumption
<1>2. r \in Vals <=> r # Nil
  BY <1>1 DEF Elems
<1> QED
  BY <1>2 DEF Keeping, Truthy

\* One more value of the block, for an iterator that no block has disturbed.
LEMMA HeardApart ==
  ASSUME ArrayInv, loop # NoLoop, NEW r \in Elems, NEW l, NEW m, l = loop, m = mem,
         NEW x, x = Written(l, r), NEW h, h = Heard(l, r), l.changes = 0,
         NEW j, j = IF l.op \in Backward THEN l.i - 1 ELSE l.i + 1,
         ~(l.op \in {"find_index", "rindex"} /\ Truthy(r))
  PROVE Apart(h, x, j)
<1>1. Stands(l, m) /\ Wrote(l, r, m, x)
  BY WrittenFacts DEF ArrayInv
<1>2. PICK b, i, s, g, q, K : /\ b = m.buf /\ i = l.i /\ s = l.whole /\ g = l.given
                              /\ q = Append(g, r) /\ K = Keeping(l.op)
  OBVIOUS
<1>3. Apart(l, m, i)
  BY <1>1, <1>2 DEF Stands, Reaches
<1>4. /\ b \in Seq(Elems) /\ Len(b) \in Nat /\ i \in 0 .. Len(b) - 1 /\ l \in Iterators
      /\ m.len \in Nat /\ m.len <= Len(b) /\ l.op \in LoopOps
  BY <1>1, <1>2, StandsFacts
<1>5. /\ h.op = l.op /\ h.n = l.n /\ h.whole = s /\ h.acc = Collected(l, r) /\ h.given = q
      /\ h.w = IF Kept(l, r) THEN l.w + 1 ELSE l.w
  <2>1. l \in Iterators
    BY <1>4
  <2>2. /\ h.op = l.op /\ h.n = l.n /\ h.whole = l.whole /\ h.acc = Collected(l, r)
        /\ h.given = Append(l.given, r)
        /\ h.w = IF Kept(l, r) THEN l.w + 1 ELSE l.w
    BY <2>1, HeardFacts
  <2> QED
    BY <1>2, <2>2
<1>6. s \in Seq(Elems) /\ g \in Seq(Elems) /\ Len(s) \in Nat /\ Len(g) \in Nat
  BY <1>2, <1>4 DEF Iterators
<1>7. /\ q \in Seq(Elems) /\ Len(q) = Len(g) + 1 /\ q[Len(g) + 1] = r
      /\ \A k \in 1 .. Len(g) : q[k] = g[k]
  BY <1>2, <1>6, AppendProperties
<1>8. /\ x.len = m.len /\ \A k \in i + 2 .. Len(b) : x.buf[k] = b[k]
      /\ l.op = "map!" => x.buf[i + 1] = r /\ \A k \in 1 .. i : x.buf[k] = b[k]
  BY <1>1, <1>2 DEF Wrote
<1>9. ASSUME l.op \in Forward
      PROVE /\ Len(g) = i /\ i < m.len /\ m.len = Len(s) /\ j = i + 1 /\ l.elem = s[i + 1]
            /\ \A k \in i + 1 .. m.len : b[k] = s[k]
  <2>1. i < m.len /\ l.elem = s[i + 1]
    BY <1>1, <1>2, <1>9 DEF Stands
  <2>2. j = i + 1
    BY <1>2, <1>9, OpFacts
  <2>3. Len(g) = i /\ m.len = Len(s) /\ \A k \in i + 1 .. m.len : b[k] = s[k]
    BY <1>2, <1>3, <1>9 DEF Apart
  <2> QED
    BY <2>1, <2>2, <2>3
<1>10. ASSUME l.op \in Forward
       PROVE Chosen(SubSeq(s, 1, j), q, K) =
                 IF r \in K THEN Append(Chosen(SubSeq(s, 1, i), g, K), s[i + 1])
                 ELSE Chosen(SubSeq(s, 1, i), g, K)
  <2>1. Len(g) = i /\ i < Len(s) /\ i \in Nat /\ j = i + 1
    BY <1>4, <1>9, <1>10
  <2> QED
    BY <1>2, <1>6, <2>1, ChosenNext
<1>11. l.op \in Backward => Len(q) = Len(s) - 1 - j
  <2> SUFFICES ASSUME l.op \in Backward PROVE Len(q) = Len(s) - 1 - j
    OBVIOUS
  <2>1. Len(g) = Len(s) - 1 - i /\ j = i - 1
    BY <1>2, <1>3 DEF Apart
  <2> QED
    BY <1>4, <1>6, <1>7, <2>1
<1>12. ASSUME l.op \in Forward
       PROVE /\ Len(q) = j /\ j <= x.len /\ x.len = Len(s)
             /\ \A k \in j + 1 .. x.len : x.buf[k] = s[k]
  <2>1. Len(q) = j /\ j <= x.len /\ x.len = Len(s)
    BY <1>4, <1>7, <1>8, <1>9, <1>12
  <2>2. \A k \in j + 1 .. x.len : k \in i + 2 .. Len(b) /\ k \in i + 1 .. m.len
    BY <1>4, <1>8, <1>9, <1>12
  <2> QED
    BY <1>8, <1>9, <1>12, <2>1, <2>2
<1>13. l.op = "map" => Collected(l, r) = q
  BY <1>2, <1>3 DEF Apart, Collected
<1>14. l.op \in {"select", "reject"} => Collected(l, r) = Chosen(SubSeq(s, 1, j), q, K)
  <2> SUFFICES ASSUME l.op \in {"select", "reject"}
               PROVE Collected(l, r) = Chosen(SubSeq(s, 1, j), q, K)
    OBVIOUS
  <2>1. l.op \in Forward
    BY DEF Forward
  <2>2. l.acc = Chosen(SubSeq(s, 1, i), g, K)
    BY <1>2, <1>3 DEF Apart
  <2>3. Collected(l, r) = IF r \in K THEN Append(l.acc, l.elem) ELSE l.acc
    BY <1>2, KeepingFacts DEF Collected
  <2>4. l.elem = s[i + 1]
    BY <1>9, <2>1
  <2> QED
    BY <1>10, <2>1, <2>2, <2>3, <2>4
<1>15. l.op = "map!" => \A k \in 1 .. j : x.buf[k] = q[k]
  <2> SUFFICES ASSUME l.op = "map!", NEW k \in 1 .. j PROVE x.buf[k] = q[k]
    OBVIOUS
  <2>1. l.op \in Forward
    BY DEF Forward
  <2>2. \A n \in 1 .. i : b[n] = g[n]
    BY <1>2, <1>3 DEF Apart
  <2>3. Len(g) = i /\ j = i + 1
    BY <1>9, <2>1
  <2>4. CASE k = i + 1
    BY <1>7, <1>8, <2>3, <2>4
  <2>5. CASE k \in 1 .. i
    BY <1>7, <1>8, <2>2, <2>3, <2>5
  <2> QED
    BY <1>4, <2>3, <2>4, <2>5
<1>16. l.op \in Filters => /\ l.n = x.len
                           /\ SubSeq(x.buf, 1, h.w) = Chosen(SubSeq(s, 1, j), q, K)
  <2> SUFFICES ASSUME l.op \in Filters
               PROVE l.n = x.len /\ SubSeq(x.buf, 1, h.w) = Chosen(SubSeq(s, 1, j), q, K)
    OBVIOUS
  <2>1. l.op \in Forward
    BY OpFacts
  <2>2. l.n = m.len /\ SubSeq(b, 1, l.w) = Chosen(SubSeq(s, 1, i), g, K)
    BY <1>2, <1>3 DEF Apart
  <2>3. Kept(l, r) <=> r \in K
    BY <1>2, KeepingFacts DEF Kept, Filters
  <2>4. b[i + 1] = s[i + 1]
    <3>1. i + 1 \in i + 1 .. m.len
      BY <1>4, <1>9, <2>1
    <3> QED
      BY <1>9, <2>1, <3>1
  <2>5. SubSeq(x.buf, 1, h.w) = IF Kept(l, r) THEN Append(SubSeq(b, 1, l.w), b[i + 1])
                                ELSE SubSeq(b, 1, l.w)
    BY <1>1, <1>2, <1>5 DEF Wrote
  <2> QED
    BY <1>8, <1>10, <2>1, <2>2, <2>3, <2>4, <2>5
<1>17. l.op \in {"find_index", "rindex"} => \A k \in 1 .. Len(q) : ~Truthy(q[k])
  <2> SUFFICES ASSUME l.op \in {"find_index", "rindex"}, NEW k \in 1 .. Len(q)
               PROVE ~Truthy(q[k])
    OBVIOUS
  <2>1. \A n \in 1 .. Len(g) : ~Truthy(g[n])
    BY <1>2, <1>3 DEF Apart
  <2>2. k = Len(g) + 1 \/ k \in 1 .. Len(g)
    BY <1>6, <1>7
  <2>3. ~Truthy(r)
    OBVIOUS
  <2> QED
    BY <1>7, <2>1, <2>2, <2>3
<1>18. K = Keeping(h.op)
  BY <1>2, <1>5
<1>19. h.op \in Forward =>
           /\ Len(h.given) = j /\ j <= x.len /\ x.len = Len(h.whole)
           /\ \A k \in j + 1 .. x.len : x.buf[k] = h.whole[k]
  BY <1>5, <1>12
<1>20. /\ h.op \in Backward => Len(h.given) = Len(h.whole) - 1 - j
       /\ h.op = "map" => h.acc = h.given
       /\ h.op = "map!" => \A k \in 1 .. j : x.buf[k] = h.given[k]
       /\ h.op \in {"find_index", "rindex"} => \A k \in 1 .. Len(h.given) : ~Truthy(h.given[k])
  BY <1>5, <1>11, <1>13, <1>15, <1>17
<1>21. /\ h.op \in {"select", "reject"} =>
              h.acc = Chosen(SubSeq(h.whole, 1, j), h.given, Keeping(h.op))
       /\ h.op \in Filters =>
              /\ h.n = x.len
              /\ SubSeq(x.buf, 1, h.w) = Chosen(SubSeq(h.whole, 1, j), h.given, Keeping(h.op))
  BY <1>5, <1>14, <1>16, <1>18
<1> QED
  BY <1>19, <1>20, <1>21 DEF Apart

LEMMA HeardReaches ==
  ASSUME ArrayInv, loop # NoLoop, NEW r \in Elems, NEW l, NEW m, l = loop, m = mem,
         NEW x, x = Written(l, r), NEW h, h = Heard(l, r),
         NEW j, j = IF l.op \in Backward THEN l.i - 1 ELSE l.i + 1,
         ~(l.op \in {"find_index", "rindex"} /\ Truthy(r))
  PROVE Reaches(h, x, j)
<1>1. Stands(l, m) /\ Wrote(l, r, m, x)
  BY WrittenFacts DEF ArrayInv
<1>2. PICK n : n = Len(m.buf)
  OBVIOUS
<1>3. /\ n \in Nat /\ l.i \in 0 .. n - 1 /\ l \in Iterators /\ l.op \in LoopOps /\ l.w \in Nat
      /\ l.op \in Filters => l.w <= l.i
      /\ l.op \notin Filters => l.w = 0
  BY <1>1, <1>2, StandsFacts
<1>4. Memory(x) /\ Len(x.buf) = n
  BY <1>1, <1>2 DEF Wrote
<1>5. /\ h \in Iterators /\ h.op = l.op /\ h.n = l.n /\ h.changes = l.changes
      /\ h.w = IF Kept(l, r) THEN l.w + 1 ELSE l.w
  BY <1>3, HeardFacts
<1>6. IF h.op \in Backward THEN j \in -1 .. n - 1 ELSE j \in 0 .. n
  BY <1>3, <1>5
<1>7. /\ h.op \in Filters => h.w <= j
      /\ h.op \notin Filters => h.w = 0
  <2>1. CASE l.op \in Filters
    <3>1. j = l.i + 1 /\ l.w <= l.i
      BY <1>3, <2>1, OpFacts
    <3> QED
      BY <1>3, <1>5, <2>1, <3>1
  <2>2. CASE l.op \notin Filters
    BY <1>3, <1>5, <2>2, KindFacts
  <2> QED
    BY <2>1, <2>2
<1>8. h.op = "fill" => h.n <= n
  BY <1>1, <1>2, <1>5 DEF Stands, Reaches
<1>9. h.changes = 0 => Apart(h, x, j)
  BY <1>5, HeardApart
<1> QED
  BY <1>4, <1>5, <1>6, <1>7, <1>8, <1>9 DEF Reaches

\* find_index and rindex return where their block first said yes.
LEMMA MeantAtIndex ==
  ASSUME ArrayInv, loop # NoLoop, NEW r \in Elems, NEW l, l = loop,
         NEW g, g = Append(l.given, r), l.changes = 0, Truthy(r),
         l.op \in {"find_index", "rindex"}, NEW out, out = [k |-> "index", at |-> l.i], NEW t
  PROVE Meant(l.op, out, l.whole, g, t)
<1>1. PICK m, i, s, a : m = mem /\ i = l.i /\ s = l.whole /\ a = l.given
  OBVIOUS
<1>2. Stands(l, m)
  BY <1>1 DEF ArrayInv
<1>3. Apart(l, m, i) /\ l \in Iterators /\ i \in Nat /\ Len(m.buf) \in Nat
  BY <1>1, <1>2, StandsFacts DEF Stands, Reaches
<1>4. s \in Seq(Elems) /\ a \in Seq(Elems) /\ Len(s) \in Nat /\ Len(a) \in Nat
  BY <1>1, <1>3 DEF Iterators
<1>5. /\ g \in Seq(Elems) /\ Len(g) = Len(a) + 1 /\ g[Len(a) + 1] = r
      /\ \A k \in 1 .. Len(a) : g[k] = a[k]
  BY <1>1, <1>4, AppendProperties
<1>6. \A k \in 1 .. Len(a) : ~Truthy(g[k])
  BY <1>1, <1>3, <1>5 DEF Apart
<1>7. out.k = "index" /\ out.at = i
  BY <1>1
<1>8. CASE l.op = "find_index"
  <2>1. l.op \in Forward
    BY <1>8 DEF Forward
  <2>2. Len(a) = i
    BY <1>1, <1>3, <2>1 DEF Apart
  <2>3. Truthy(g[i + 1]) /\ \A k \in 1 .. i : ~Truthy(g[k])
    BY <1>5, <1>6, <2>2
  <2> QED
    BY <1>7, <1>8, <2>3 DEF Meant, Filters
<1>9. CASE l.op = "rindex"
  <2>1. l.op \in Backward
    BY <1>9 DEF Backward
  <2>2. Len(a) = Len(s) - 1 - i
    BY <1>1, <1>3, <2>1 DEF Apart
  <2>3. i = Len(s) - Len(g)
    BY <1>3, <1>4, <1>5, <2>2
  <2>4. Truthy(Last(g))
    BY <1>5 DEF Last
  <2>5. \A k \in 1 .. Len(g) - 1 : ~Truthy(g[k])
    BY <1>4, <1>5, <1>6
  <2> QED
    BY <1>1, <1>7, <1>9, <2>3, <2>4, <2>5 DEF Meant, Filters
<1> QED
  BY <1>8, <1>9

LEMMA BlockRight ==
  ASSUME ArrayInv, NEW r \in Elems, BlockReturns(r)
  PROVE Right
<1>1. loop # NoLoop /\ frozen' = frozen /\ frozen \in BOOLEAN
  BY DEF BlockReturns, ArrayInv
<1>2. PICK l, m, x, h, j : /\ l = loop /\ m = mem /\ x = Written(l, r) /\ h = Heard(l, r)
                           /\ j = IF l.op \in Backward THEN l.i - 1 ELSE l.i + 1
  OBVIOUS
<1>3. Stands(l, m) /\ Memory(m)
  BY <1>1, <1>2 DEF ArrayInv
<1>4. l \in Iterators /\ l.op \in LoopOps /\ l.i \in Int
  BY <1>3, StandsFacts
<1>5. /\ h \in Iterators /\ h.op = l.op /\ h.i = l.i /\ h.n = l.n /\ h.whole = l.whole
      /\ h.changes = l.changes
      /\ l.changes = 0 => h.given = Append(l.given, r)
  BY <1>2, <1>4, HeardFacts
<1>6. CASE l.op \in {"find_index", "rindex"} /\ Truthy(r)
  <2>1. PICK out, g : out = [k |-> "index", at |-> l.i] /\ g = h.given
    OBVIOUS
  <2>2. /\ mem' = m /\ loop' = NoLoop
        /\ last' = [op |-> l.op, out |-> out, clean |-> h.changes = 0, given |-> g,
                    whole |-> l.whole]
    BY <1>2, <1>5, <1>6, <2>1 DEF BlockReturns, Return, Heard
  <2>3. ArrayInv'
    BY <1>1, <1>3, <2>2 DEF ArrayInv
  <2>4. last'.op = l.op /\ last'.out = out /\ last'.given = g /\ last'.whole = l.whole
    BY <2>2
  <2>5. last'.clean => h.changes = 0
    BY <2>2, Zenon
  <2>6. PICK t : t = Content'
    OBVIOUS
  <2>7. ASSUME h.changes = 0 PROVE Meant(l.op, out, l.whole, g, t)
    BY <1>1, <1>2, <1>5, <1>6, <2>1, <2>7, MeantAtIndex
  <2>8. MeantStep
    BY <2>4, <2>5, <2>6, <2>7 DEF MeantStep
  <2>9. LiveStep
    BY <2>2 DEF LiveStep
  <2>10. FrozenStep
    BY <1>2, <2>2 DEF FrozenStep, Content
  <2>11. ConservedStep
    BY <1>4, <2>4, OpFacts, ConservedOther DEF ConservedStep
  <2> QED
    BY <2>3, <2>8, <2>9, <2>10, <2>11 DEF Right
<1>7. CASE ~(l.op \in {"find_index", "rindex"} /\ Truthy(r))
  <2>1. Proceed(h, x, j)
    BY <1>2, <1>5, <1>7 DEF BlockReturns, Heard
  <2>2. Reaches(h, x, j)
    BY <1>1, <1>2, <1>7, HeardReaches
  <2>3. Advanced(h, x, j)
    BY <1>1, <2>1, <2>2, ProceedAdvances
  <2>4. /\ ArrayInv' /\ MeantStep
        /\ loop' # NoLoop => loop'.i = j /\ (loop'.op \in Forward => loop'.i < mem'.len)
        /\ l.op \notin Filters => mem' = x
        /\ last'.op \notin Reordering /\ last'.op \notin Adding /\ last'.op \notin Removing
    BY <1>5, <2>3 DEF Advanced
  <2>5. Stepped
    <3>1. PICK d : d = Disturbed
      OBVIOUS
    <3>2. d.i = l.i /\ d # NoLoop
      <4>1. Stands(d, m) /\ d # NoLoop
        BY <1>1, <1>2, <1>3, <3>1, DisturbedFacts
      <4>2. d = [l EXCEPT !.changes = @ + 1, !.given = <<>>, !.whole = <<>>]
        BY <1>1, <1>2, <3>1 DEF Disturbed
      <4> QED
        BY <1>4, <4>1, <4>2 DEF Iterators
    <3>3. j # l.i
      BY <1>2, <1>4
    <3>4. loop' # l /\ loop' # d
      BY <1>1, <1>2, <2>4, <3>2, <3>3
    <3> QED
      BY <1>1, <1>2, <3>1, <3>4 DEF Stepped
  <2>6. LiveStep
    BY <2>4 DEF LiveStep
  <2>7. FrozenStep
    <3>1. CASE l.op \in InPlace
      BY <1>2, <2>5, <3>1 DEF FrozenStep
    <3>2. CASE l.op \notin InPlace
      <4>1. x = m
        BY <1>1, <1>2, <3>2, WrittenFacts DEF Wrote
      <4>2. mem' = m
        BY <2>4, <3>2, <4>1, KindFacts
      <4> QED
        BY <1>2, <4>2 DEF FrozenStep, Content
    <3> QED
      BY <3>1, <3>2
  <2>8. ConservedStep
    BY <2>5 DEF ConservedStep
  <2> QED
    BY <2>4, <2>6, <2>7, <2>8 DEF Right
<1> QED
  BY <1>6, <1>7

(***************************************************************************)
(* Every step.                                                             *)
(***************************************************************************)
LEMMA NextRight ==
  ASSUME ArrayInv, Next
  PROVE Right
<1>1. CASE Mutate
  BY <1>1, MutateRight
<1>2. CASE \E op \in Forward \cup Backward : StartLoop(op)
  BY <1>2, StartRight
<1>3. CASE \E start \in {-1, 0, 1}, count \in {0, 2} : StartFill(start, count)
  <2>1. PICK start \in Int, count \in Nat : StartFill(start, count)
    BY <1>3
  <2> QED
    BY <2>1, StartFillRight
<1>4. CASE \E r \in Elems : BlockReturns(r)
  BY <1>4, BlockRight
<1>5. CASE BlockLeaves
  BY <1>5, LeavesRight
<1> QED
  BY <1>1, <1>2, <1>3, <1>4, <1>5 DEF Next, Iterate

LEMMA InitInv ==
  ASSUME Init
  PROVE ArrayInv
<1>1. PICK s \in BoundedSeq(Elems, MaxLen) : mem = [buf |-> s, len |-> Len(s)]
  BY DEF Init
<1>2. s \in Seq(Elems) /\ Len(s) <= MaxLen /\ Len(s) \in Nat
  BY ArraysAssumption, Bounded
<1>3. Memory(mem)
  BY <1>1, <1>2 DEF Memory
<1> QED
  BY <1>3 DEF Init, ArrayInv

LEMMA InvariantStep ==
  ASSUME ArrayInv, [Next]_vars
  PROVE ArrayInv'
<1>1. CASE Next
  BY <1>1, NextRight DEF Right
<1>2. CASE UNCHANGED vars
  BY <1>2 DEF vars, ArrayInv
<1> QED
  BY <1>1, <1>2

LEMMA Invariant == Spec => []ArrayInv
<1>1. Init => ArrayInv
  BY InitInv
<1>2. ArrayInv /\ [Next]_vars => ArrayInv'
  BY InvariantStep
<1> QED
  BY <1>1, <1>2, PTL DEF Spec

LEMMA TypesFollow ==
  ASSUME ArrayInv
  PROVE TypeOK
<1>1. PICK b, n, l : b = mem.buf /\ n = mem.len /\ l = loop
  OBVIOUS
<1>2. b \in Seq(Elems) /\ Len(b) <= MaxLen /\ Len(b) \in Nat /\ n \in 0 .. Len(b)
  BY <1>1 DEF ArrayInv, Memory
<1>3. b \in BoundedSeq(Elems, MaxLen)
  BY <1>2, ArraysAssumption, Bounded
<1>4. ASSUME l # NoLoop
      PROVE /\ l.op \in LoopOps /\ l.i \in 0 .. Len(b) - 1
            /\ l.w \in 0 .. l.i /\ l.elem \in Elems
  <2>1. Stands(l, mem)
    BY <1>1, <1>4 DEF ArrayInv
  <2>2. /\ l \in Iterators /\ l.op \in LoopOps /\ l.i \in 0 .. Len(b) - 1 /\ l.w \in Nat
        /\ l.op \in Filters => l.w <= l.i
        /\ l.op \notin Filters => l.w = 0
    BY <1>1, <2>1, StandsFacts
  <2>3. l.w \in 0 .. l.i
    BY <1>2, <2>2
  <2> QED
    BY <2>2, <2>3 DEF Iterators
<1> QED
  BY <1>1, <1>2, <1>3, <1>4 DEF TypeOK, ArrayInv

LEMMA CursorFollows ==
  ASSUME ArrayInv
  PROVE FilterCursor
<1> SUFFICES ASSUME loop # NoLoop, loop.op \in Filters, loop.changes = 0
             PROVE LET done == SubSeq(loop.whole, 1, loop.i)
                   IN  /\ SubSeq(mem.buf, 1, loop.w) = Chosen(done, loop.given, Keeping(loop.op))
                       /\ SubSeq(mem.buf, loop.i + 1, mem.len) =
                              SubSeq(loop.whole, loop.i + 1, mem.len)
  BY DEF FilterCursor
<1>1. PICK b, n, l, i, s : b = mem.buf /\ n = mem.len /\ l = loop /\ i = l.i /\ s = l.whole
  OBVIOUS
<1>2. Stands(l, mem)
  BY <1>1 DEF ArrayInv
<1>3. Apart(l, mem, i) /\ l.op \in Forward
  BY <1>1, <1>2, OpFacts DEF Stands, Reaches
<1>4. /\ SubSeq(b, 1, l.w) = Chosen(SubSeq(s, 1, i), l.given, Keeping(l.op))
      /\ \A k \in i + 1 .. n : b[k] = s[k]
      /\ n = Len(s)
  BY <1>1, <1>3 DEF Apart
<1>5. /\ b \in Seq(Elems) /\ n \in Nat /\ n <= Len(b) /\ i \in Nat /\ s \in Seq(Elems)
      /\ Len(b) \in Nat
  <2>1. l \in Iterators /\ i \in 0 .. Len(b) - 1
    BY <1>1, <1>2, StandsFacts
  <2> QED
    BY <1>1, <1>2, <2>1, StandsFacts DEF Iterators
<1>6. SubSeq(b, i + 1, n) = SubSeq(s, i + 1, n)
  <2>1. PICK j, p, q, d : /\ j = i + 1 /\ p = SubSeq(b, j, n) /\ q = SubSeq(s, j, n)
                          /\ d = n - j + 1
    OBVIOUS
  <2>2. j \in Int /\ n \in Int /\ d = n - j + 1 /\ \A k \in j .. n : b[k] \in Elems /\ s[k] = b[k]
    BY <1>4, <1>5, <2>1
  <2>3. /\ p \in Seq(Elems) /\ Len(p) = IF j <= n THEN n - j + 1 ELSE 0
        /\ \A k \in 1 .. n - j + 1 : p[k] = b[j + k - 1]
    BY <2>1, <2>2, SubSeqProperties
  <2>4. /\ q \in Seq(Elems) /\ Len(q) = IF j <= n THEN n - j + 1 ELSE 0
        /\ \A k \in 1 .. n - j + 1 : q[k] = s[j + k - 1]
    <3>1. \A k \in j .. n : s[k] \in Elems
      BY <2>2
    <3> QED
      BY <2>1, <2>2, <3>1, SubSeqProperties
  <2>5. \A k \in 1 .. Len(p) : p[k] = q[k]
    <3> SUFFICES ASSUME NEW k \in 1 .. Len(p) PROVE p[k] = q[k]
      OBVIOUS
    <3>1. k \in 1 .. n - j + 1 /\ j + k - 1 \in j .. n
      BY <2>2, <2>3
    <3> QED
      BY <2>2, <2>3, <2>4, <3>1
  <2>6. p \in Seq(Elems) /\ q \in Seq(Elems) /\ Len(p) = Len(q)
    BY <2>3, <2>4
  <2>7. p = q
    BY <2>5, <2>6, SeqEqual
  <2> QED
    BY <2>1, <2>7
<1> QED
  BY <1>1, <1>4, <1>6

LEMMA StepFollows ==
  ASSUME ArrayInv, [Next]_vars
  PROVE /\ [LiveStep]_vars /\ [FrozenStep]_vars
        /\ [MeantStep]_vars /\ [ConservedStep]_vars
<1>1. CASE Next
  BY <1>1, NextRight DEF Right
<1>2. CASE UNCHANGED vars
  BY <1>2
<1> QED
  BY <1>1, <1>2

\* However its block changes the array, an iterator stands at a slot in use and an in-place
\* filter writes no further than it has read; the slots before the write position hold what
\* the filter has kept and those it has not reached are as they were, as long as its block
\* leaves the array alone; and the loops of each, map, select ..., which read len again,
\* hand their block live elements only.
THEOREM CursorsCorrect == Spec => CursorsRight
<1>1. ArrayInv => TypeOK /\ FilterCursor
  BY TypesFollow, CursorFollows
<1>2. ArrayInv /\ [Next]_vars => [LiveStep]_vars
  BY StepFollows
<1>3. Spec => [](TypeOK /\ FilterCursor)
  BY <1>1, Invariant, PTL
<1>4. Spec => [][LiveStep]_vars
  BY <1>2, Invariant, PTL DEF Spec
<1>5. [][LiveStep]_vars => ForwardReadsLive
  BY PTL DEF ForwardReadsLive, LiveStep
<1> QED
  BY <1>3, <1>4, <1>5 DEF CursorsRight

\* An iterator whose block leaves the array alone calls it once for each element, in order,
\* and returns, or leaves in the array, what its name says of the values the block returned:
\* map, select, reject and their in-place forms, find_index and rindex, for every array and
\* whatever the block answers.
THEOREM UndisturbedCorrect == Spec => UndisturbedResult
<1>1. ArrayInv /\ [Next]_vars => [MeantStep]_vars
  BY StepFollows
<1>2. Spec => [][MeantStep]_vars
  BY <1>1, Invariant, PTL DEF Spec
<1>3. [][MeantStep]_vars => UndisturbedResult
  BY PTL DEF UndisturbedResult, MeantStep
<1> QED
  BY <1>2, <1>3

\* The methods of dispatch_array lose and invent no element, those that cut return what they
\* cut, sort! leaves the integers in order and uniq! each value once; and a frozen array
\* changes by the three methods that never look at the flag, or by an iterator that looked
\* at it before its first block ran, alone.
THEOREM ContentKeptCorrect == Spec => ContentKept
<1>1. ArrayInv /\ [Next]_vars => [ConservedStep]_vars /\ [FrozenStep]_vars
  BY StepFollows
<1>2. Spec => [][ConservedStep]_vars /\ [][FrozenStep]_vars
  BY <1>1, Invariant, PTL DEF Spec
<1>3. [][ConservedStep]_vars => ElementsConserved
  BY PTL DEF ElementsConserved, ConservedStep
<1>4. [][FrozenStep]_vars => FrozenKeeps
  BY PTL DEF FrozenKeeps, FrozenStep
<1> QED
  BY <1>2, <1>3, <1>4 DEF ContentKept
=============================================================================
