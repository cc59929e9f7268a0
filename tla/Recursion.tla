----------------------------- MODULE Recursion -----------------------------
(***************************************************************************)
(* Lemmas that more than one component needs: induction up to a number,    *)
(* functions defined from their values at smaller places, sequences of     *)
(* bounded length and their pieces.                                        *)
(***************************************************************************)
EXTENDS Integers, SequencesExt, Pieces, SequenceTheorems, WellFoundedInduction, TLAPS

(***************************************************************************)
(* Numbers.                                                                *)
(***************************************************************************)
LEMMA MinExists ==
  ASSUME NEW S, S \subseteq Nat, S # {}
  PROVE Min(S) \in S /\ \A j \in S : Min(S) <= j
<1> DEFINE R == OpToRel(<, Nat)
<1>1. \A x \in Nat, y \in Nat : x < y => <<x, y>> \in R
  BY Zenon DEF OpToRel
<1>2. IsWellFoundedOn(R, Nat)
  BY NatLessThanWellFounded
<1> HIDE DEF R
<1>3. PICK k \in S : \A j \in S : ~(<<j, k>> \in R)
  BY <1>2, WFMin
<1>4. ASSUME NEW j \in S PROVE k <= j
  <2>1. k \in Nat /\ j \in Nat
    OBVIOUS
  <2>2. ~(j < k)
    BY <1>1, <1>3, <2>1
  <2> QED
    BY <2>1, <2>2
<1> QED
  BY <1>4, Zenon DEF Min

\* Induction up to N, for membership in a set.
LEMMA UpTo ==
  ASSUME NEW N \in Nat, NEW S, 0 \in S, \A n \in 1 .. N : n - 1 \in S => n \in S
  PROVE \A n \in 0 .. N : n \in S
<1> SUFFICES ASSUME {n \in 0 .. N : n \notin S} # {} PROVE FALSE
  OBVIOUS
<1> DEFINE T == {n \in 0 .. N : n \notin S}
<1>1. T \subseteq Nat /\ T # {}
  OBVIOUS
<1>2. PICK m \in T : \A j \in T : m <= j
  <2> HIDE DEF T
  <2> QED
    BY <1>1, MinExists
<1>3. m # 0 /\ m \in 1 .. N
  OBVIOUS
<1>4. m - 1 \in 0 .. N /\ ~(m <= m - 1)
  BY <1>3
<1>5. m - 1 \in S
  BY <1>2, <1>4
<1> QED
  BY <1>3, <1>5

\* f holds the value one place before, put through step.
Iterates(f, n, b, step) == f[0] = b /\ \A m \in 1 .. n : f[m] = step[m][f[m - 1]]

\* A function may be defined from its value one place before.
LEMMA Recursion ==
  ASSUME NEW N \in Nat, NEW S, NEW b \in S, NEW step \in [1 .. N -> [S -> S]]
  PROVE \E g \in [0 .. N -> S] : Iterates(g, N, b, step)
<1> DEFINE T == {n \in 0 .. N : \E g \in [0 .. n -> S] : Iterates(g, n, b, step)}
<1>1. 0 \in T
  <2> DEFINE g == [m \in 0 .. 0 |-> b]
  <2>1. g \in [0 .. 0 -> S] /\ g[0] = b
    OBVIOUS
  <2>2. Iterates(g, 0, b, step)
    BY <2>1 DEF Iterates
  <2> HIDE DEF g
  <2> QED
    BY <2>1, <2>2
<1>2. ASSUME NEW n \in 1 .. N, n - 1 \in T PROVE n \in T
  <2>1. PICK g \in [0 .. n - 1 -> S] : Iterates(g, n - 1, b, step)
    BY <1>2
  <2> HIDE DEF T
  <2>2. g[0] = b /\ \A m \in 1 .. n - 1 : g[m] = step[m][g[m - 1]]
    BY <2>1 DEF Iterates
  <2> DEFINE h == [m \in 0 .. n |-> IF m = n THEN step[n][g[n - 1]] ELSE g[m]]
  <2>3. n - 1 \in 0 .. n - 1
    OBVIOUS
  <2>4. g[n - 1] \in S /\ step[n][g[n - 1]] \in S
    BY <2>3
  <2>5. h \in [0 .. n -> S]
    <3>1. \A m \in 0 .. n : m # n => m \in 0 .. n - 1
      OBVIOUS
    <3> QED
      BY <2>4, <3>1
  <2>6. h[0] = b
    <3>1. 0 \in 0 .. n /\ 0 # n
      OBVIOUS
    <3> QED
      BY <2>2, <3>1
  <2>7. ASSUME NEW m \in 1 .. n PROVE h[m] = step[m][h[m - 1]]
    <3>1. m - 1 \in 0 .. n /\ m - 1 # n /\ m \in 0 .. n
      OBVIOUS
    <3>2. h[m - 1] = g[m - 1]
      BY <3>1
    <3>3. CASE m = n
      BY <3>1, <3>2, <3>3
    <3>4. CASE m # n
      <4>1. m \in 1 .. n - 1
        BY <3>4
      <4>2. h[m] = g[m]
        BY <3>1, <3>4
      <4> QED
        BY <2>2, <3>2, <4>1, <4>2
    <3> QED
      BY <3>3, <3>4
  <2> HIDE DEF h
  <2>8. Iterates(h, n, b, step)
    BY <2>6, <2>7 DEF Iterates
  <2> USE DEF T
  <2> QED
    BY <2>5, <2>8
<1>3. \A n \in 0 .. N : n \in T
  <2> HIDE DEF T
  <2> QED
    BY <1>1, <1>2, UpTo
<1>4. N \in T
  BY <1>3
<1> QED
  BY <1>4

\* rule[i] gives a value from a function, and looks at places before i alone.
LooksBack(rule, N, S) ==
  /\ rule \in [0 .. N -> [[0 .. N -> S] -> S]]
  /\ \A i \in 0 .. N : \A f, g \in [0 .. N -> S] :
         (\A j \in 0 .. i - 1 : f[j] = g[j]) => rule[i][f] = rule[i][g]

\* A function may be defined from its values at all places before.
LEMMA CourseOfValues ==
  ASSUME NEW N \in Nat, NEW S, NEW e \in S, NEW rule, LooksBack(rule, N, S)
  PROVE \E f \in [0 .. N -> S] : \A i \in 0 .. N : f[i] = rule[i][f]
<1> DEFINE F == [0 .. N -> S]
           Obeys(f, n) == \A i \in 0 .. n : f[i] = rule[i][f]
           T == {n \in 0 .. N : \E f \in F : Obeys(f, n)}
<1>1. /\ \A i \in 0 .. N : \A f \in F : rule[i][f] \in S
      /\ \A i \in 0 .. N : \A f, g \in F :
             (\A j \in 0 .. i - 1 : f[j] = g[j]) => rule[i][f] = rule[i][g]
  BY DEF LooksBack
<1>2. ASSUME NEW n \in 0 .. N, NEW f \in F, \A i \in 0 .. n - 1 : f[i] = rule[i][f]
      PROVE \E g \in F : Obeys(g, n)
  <2> DEFINE v == rule[n][f]
             g == [f EXCEPT ![n] = v]
  <2>1. v \in S
    BY <1>1
  <2> HIDE DEF v
  <2>2. g \in F /\ g[n] = v /\ \A j \in 0 .. n - 1 : g[j] = f[j]
    BY <2>1
  <2> HIDE DEF g, F
  <2>3. ASSUME NEW i \in 0 .. n PROVE g[i] = rule[i][g]
    <3>1. i \in 0 .. N /\ \A j \in 0 .. i - 1 : j \in 0 .. n - 1
      OBVIOUS
    <3>2. \A j \in 0 .. i - 1 : f[j] = g[j]
      BY <2>2, <3>1
    <3>3. rule[i][f] = rule[i][g]
      BY <1>1, <2>2, <3>1, <3>2
    <3>4. CASE i = n
      BY <2>2, <3>3, <3>4 DEF v
    <3>5. CASE i # n
      <4>1. i \in 0 .. n - 1
        BY <3>5
      <4> QED
        BY <1>2, <2>2, <3>3, <4>1
    <3> QED
      BY <3>4, <3>5
  <2> QED
    BY <2>2, <2>3
<1>3. 0 \in T
  <2> DEFINE c == [i \in 0 .. N |-> e]
  <2>1. c \in F /\ 0 \in 0 .. N
    OBVIOUS
  <2> HIDE DEF c, F, Obeys
  <2>2. \E g \in F : Obeys(g, 0)
    BY <1>2, <2>1
  <2> QED
    BY <2>1, <2>2
<1>4. ASSUME NEW n \in 1 .. N, n - 1 \in T PROVE n \in T
  <2>1. PICK f \in F : Obeys(f, n - 1)
    BY <1>4
  <2>2. n \in 0 .. N /\ \A i \in 0 .. n - 1 : f[i] = rule[i][f]
    BY <2>1
  <2> HIDE DEF F, Obeys
  <2>3. \E g \in F : Obeys(g, n)
    BY <1>2, <2>2
  <2> QED
    BY <2>2, <2>3
<1> HIDE DEF T
<1>5. \A n \in 0 .. N : n \in T
  BY <1>3, <1>4, UpTo
<1>6. N \in T
  BY <1>5
<1> QED
  BY <1>6 DEF T

LEMMA Bounded ==
  ASSUME NEW S, NEW n \in Nat
  PROVE \A s : s \in BoundedSeq(S, n) <=> (s \in Seq(S) /\ Len(s) <= n)
<1> SUFFICES ASSUME NEW s PROVE s \in BoundedSeq(S, n) <=> (s \in Seq(S) /\ Len(s) <= n)
  OBVIOUS
<1>1. ASSUME s \in BoundedSeq(S, n) PROVE s \in Seq(S) /\ Len(s) <= n
  <2>1. PICK m \in 0 .. n : s \in [1 .. m -> S]
    BY <1>1 DEF BoundedSeq, SeqOf
  <2> QED
    BY <2>1
<1>2. ASSUME s \in Seq(S), Len(s) <= n PROVE s \in BoundedSeq(S, n)
  <2>1. Len(s) \in 0 .. n /\ s \in [1 .. Len(s) -> S]
    BY <1>2
  <2> QED
    BY <2>1 DEF BoundedSeq, SeqOf
<1> QED
  BY <1>1, <1>2

(***************************************************************************)
(* Pieces of sequences.                                                    *)
(***************************************************************************)
LEMMA PrefixFacts ==
  ASSUME NEW S, NEW s \in Seq(S), NEW n \in 0 .. Len(s)
  PROVE /\ SubSeq(s, 1, n) \in Seq(S) /\ Len(SubSeq(s, 1, n)) = n
        /\ \A i \in 1 .. n : SubSeq(s, 1, n)[i] = s[i]
<1>1. Len(s) \in Nat /\ \A i \in 1 .. Len(s) : s[i] \in S
  OBVIOUS
<1>2. n \in Nat /\ \A i \in 1 .. n : s[i] \in S
  BY <1>1
<1> QED
  BY <1>2, SubSeqProperties

LEMMA SuffixFacts ==
  ASSUME NEW S, NEW s \in Seq(S), NEW n \in 0 .. Len(s)
  PROVE /\ SubSeq(s, n + 1, Len(s)) \in Seq(S)
        /\ Len(SubSeq(s, n + 1, Len(s))) = Len(s) - n
        /\ \A i \in 1 .. Len(s) - n : SubSeq(s, n + 1, Len(s))[i] = s[n + i]
<1>1. Len(s) \in Nat /\ \A i \in 1 .. Len(s) : s[i] \in S
  OBVIOUS
<1>2. n \in Nat /\ \A i \in n + 1 .. Len(s) : s[i] \in S
  BY <1>1
<1>3. PICK t : t = SubSeq(s, n + 1, Len(s))
  OBVIOUS
<1>4. /\ t \in Seq(S) /\ Len(t) = IF n + 1 <= Len(s) THEN Len(s) - (n + 1) + 1 ELSE 0
      /\ \A i \in 1 .. Len(s) - (n + 1) + 1 : t[i] = s[n + 1 + i - 1]
  BY <1>1, <1>2, <1>3, SubSeqProperties
<1> QED
  BY <1>1, <1>2, <1>3, <1>4

(***************************************************************************)
(* Elements at some places.                                                *)
(***************************************************************************)
Builds(f, S, s, P) ==
  /\ f \in [0 .. Len(s) -> Seq(S)] /\ f[Len(s)] = Picked(s, P) /\ f[0] = <<>>
  /\ \A n \in 1 .. Len(s) : f[n] = IF n \in P THEN Append(f[n - 1], s[n]) ELSE f[n - 1]

LEMMA PickedSteps ==
  ASSUME NEW S, NEW s \in Seq(S), NEW P
  PROVE \E f : Builds(f, S, s, P)
<1> DEFINE N == Len(s)
           Q == Seq(S)
           step == [n \in 1 .. N |-> [u \in Q |-> IF n \in P THEN Append(u, s[n]) ELSE u]]
           Def(f) == f = [n \in 0 .. N |-> IF n = 0 THEN <<>>
                             ELSE IF n \in P THEN Append(f[n - 1], s[n]) ELSE f[n - 1]]
           kept == CHOOSE f : Def(f)
<1>1. N \in Nat /\ \A n \in 1 .. N : s[n] \in S
  OBVIOUS
<1>2. \A n \in 1 .. N : \A u \in Q : (IF n \in P THEN Append(u, s[n]) ELSE u) \in Q
  BY <1>1
<1>3. step \in [1 .. N -> [Q -> Q]]
  BY <1>2
<1>4. \A n \in 1 .. N : \A u \in Q : step[n][u] = IF n \in P THEN Append(u, s[n]) ELSE u
  OBVIOUS
<1>5. Picked(s, P) = kept[N]
  BY Zenon DEF Picked
<1> HIDE DEF step, N
<1>6. PICK f \in [0 .. N -> Q] : Iterates(f, N, <<>>, step)
  <2>1. <<>> \in Q
    OBVIOUS
  <2> HIDE DEF Q
  <2> QED
    BY <1>1, <1>3, <2>1, Recursion
<1>7. Def(f)
  <2>1. ASSUME NEW n \in 0 .. N
        PROVE f[n] = IF n = 0 THEN <<>>
                     ELSE IF n \in P THEN Append(f[n - 1], s[n]) ELSE f[n - 1]
    <3>1. CASE n = 0
      BY <1>6, <3>1 DEF Iterates
    <3>2. CASE n # 0
      <4>1. n \in 1 .. N /\ n - 1 \in 0 .. N
        BY <1>1, <3>2
      <4>2. f[n] = step[n][f[n - 1]] /\ f[n - 1] \in Q
        BY <1>6, <4>1 DEF Iterates
      <4> HIDE DEF Q
      <4>3. step[n][f[n - 1]] = IF n \in P THEN Append(f[n - 1], s[n]) ELSE f[n - 1]
        BY <1>4, <4>1, <4>2
      <4> QED
        BY <3>2, <4>2, <4>3
    <3> QED
      BY <3>1, <3>2
  <2> QED
    BY <2>1
<1> HIDE DEF Def
<1>8. Def(kept)
  BY <1>7, Zenon
<1> HIDE DEF kept
<1>9. kept = [n \in 0 .. N |-> IF n = 0 THEN <<>> ELSE IF n \in P THEN Append(kept[n - 1], s[n]) ELSE kept[n - 1]]
  BY <1>8 DEF Def
<1>10. \A n \in 0 .. N : kept[n] = f[n]
  <2> DEFINE T == {n \in 0 .. N : kept[n] = f[n]}
  <2>1. 0 \in T
    BY <1>1, <1>6, <1>9 DEF Iterates
  <2>2. ASSUME NEW n \in 1 .. N, n - 1 \in T PROVE n \in T
    <3>1. n \in 0 .. N /\ n - 1 \in 0 .. N /\ n # 0 /\ kept[n - 1] = f[n - 1]
      BY <1>1, <2>2
    <3>2. kept[n] = IF n \in P THEN Append(kept[n - 1], s[n]) ELSE kept[n - 1]
      BY <1>9, <3>1
    <3>3. f[n] = step[n][f[n - 1]] /\ f[n - 1] \in Q
      BY <1>6, <3>1 DEF Iterates
    <3> HIDE DEF Q
    <3>4. f[n] = IF n \in P THEN Append(f[n - 1], s[n]) ELSE f[n - 1]
      BY <1>4, <3>3
    <3>5. kept[n] = f[n]
      BY <3>1, <3>2, <3>4
    <3> QED
      BY <3>1, <3>5
  <2> HIDE DEF T
  <2>3. \A n \in 0 .. N : n \in T
    BY <1>1, <2>1, <2>2, UpTo
  <2> QED
    BY <2>3 DEF T
<1>11. \A n \in 1 .. N : f[n] = IF n \in P THEN Append(f[n - 1], s[n]) ELSE f[n - 1]
  <2> SUFFICES ASSUME NEW n \in 1 .. N PROVE f[n] = IF n \in P THEN Append(f[n - 1], s[n]) ELSE f[n - 1]
    OBVIOUS
  <2>1. n \in 0 .. N /\ n # 0
    BY <1>1
  <2> QED
    BY <1>7, <2>1 DEF Def
<1>12. f[0] = <<>> /\ N \in 0 .. N
  BY <1>1, <1>6 DEF Iterates
<1>13. Builds(f, S, s, P)
  BY <1>5, <1>6, <1>10, <1>11, <1>12 DEF N, Builds
<1> QED
  BY <1>13

\* u holds the elements of s at those of the first n places that are in P; g says
\* where each comes from.
Picks(s, P, n, u, g) ==
  /\ u \in Seq(Range(s)) /\ Len(u) <= n
  /\ g \in [1 .. Len(u) -> 1 .. n]
  /\ \A i, j \in 1 .. Len(u) : i < j => g[i] < g[j]
  /\ \A i \in 1 .. Len(u) : g[i] \in P /\ u[i] = s[g[i]]
  /\ \A k \in 1 .. n : k \in P => \E i \in 1 .. Len(u) : g[i] = k
  /\ Len(u) = n => \A i \in 1 .. n : u[i] = s[i]

LEMMA PicksMore ==
  ASSUME NEW S, NEW s \in Seq(S), NEW P, NEW n \in 1 .. Len(s), NEW u, NEW g,
         Picks(s, P, n - 1, u, g)
  PROVE /\ n \notin P => Picks(s, P, n, u, g)
        /\ n \in P => \E h : Picks(s, P, n, Append(u, s[n]), h)
<1> DEFINE R == Range(s)
<1>1. /\ u \in Seq(R) /\ Len(u) <= n - 1 /\ Len(u) \in Nat
      /\ g \in [1 .. Len(u) -> 1 .. n - 1]
      /\ \A i, j \in 1 .. Len(u) : i < j => g[i] < g[j]
      /\ \A i \in 1 .. Len(u) : g[i] \in P /\ u[i] = s[g[i]]
      /\ \A k \in 1 .. n - 1 : k \in P => \E i \in 1 .. Len(u) : g[i] = k
      /\ Len(u) = n - 1 => \A i \in 1 .. n - 1 : u[i] = s[i]
  BY DEF Picks
<1>2. s[n] \in R /\ n \in 1 .. n /\ n \in Nat
  <2>1. n \in DOMAIN s
    OBVIOUS
  <2> QED
    BY <2>1 DEF Range
<1> HIDE DEF R
<1>3. \A i \in 1 .. Len(u) : g[i] \in 1 .. n /\ g[i] < n
  <2> SUFFICES ASSUME NEW i \in 1 .. Len(u) PROVE g[i] \in 1 .. n /\ g[i] < n
    OBVIOUS
  <2>1. g[i] \in 1 .. n - 1
    BY <1>1
  <2> QED
    BY <2>1
<1>4. \A k \in 1 .. n : k \in 1 .. n - 1 \/ k = n
  BY <1>2
<1>5. ASSUME n \notin P PROVE Picks(s, P, n, u, g)
  <2>1. g \in [1 .. Len(u) -> 1 .. n] /\ Len(u) <= n /\ Len(u) # n
    BY <1>1, <1>3
  <2>2. \A k \in 1 .. n : k \in P => \E i \in 1 .. Len(u) : g[i] = k
    BY <1>1, <1>4, <1>5
  <2> QED
    BY <1>1, <2>1, <2>2 DEF Picks, R
<1>6. ASSUME n \in P PROVE \E h : Picks(s, P, n, Append(u, s[n]), h)
  <2> DEFINE w == Append(u, s[n])
             h == [i \in 1 .. Len(u) + 1 |-> IF i = Len(u) + 1 THEN n ELSE g[i]]
  <2>1. /\ w \in Seq(R) /\ Len(w) = Len(u) + 1 /\ w[Len(u) + 1] = s[n]
        /\ \A i \in 1 .. Len(u) : w[i] = u[i]
    BY <1>1, <1>2
  <2>2. h[Len(u) + 1] = n /\ \A i \in 1 .. Len(u) : h[i] = g[i]
    BY <1>1
  <2>3. \A i \in 1 .. Len(u) + 1 : i \in 1 .. Len(u) \/ i = Len(u) + 1
    BY <1>1
  <2>4. h \in [1 .. Len(u) + 1 -> 1 .. n]
    BY <1>2, <1>3, <2>3
  <2> HIDE DEF h, w
  <2>5. \A i, j \in 1 .. Len(u) + 1 : i < j => h[i] < h[j]
    <3> SUFFICES ASSUME NEW i \in 1 .. Len(u) + 1, NEW j \in 1 .. Len(u) + 1, i < j
                 PROVE h[i] < h[j]
      OBVIOUS
    <3>1. i \in 1 .. Len(u)
      BY <1>1
    <3>2. CASE j \in 1 .. Len(u)
      BY <1>1, <2>2, <3>1, <3>2
    <3>3. CASE j = Len(u) + 1
      BY <1>3, <2>2, <3>1, <3>3
    <3> QED
      BY <2>3, <3>2, <3>3
  <2>6. \A i \in 1 .. Len(u) + 1 : h[i] \in P /\ w[i] = s[h[i]]
    <3> SUFFICES ASSUME NEW i \in 1 .. Len(u) + 1 PROVE h[i] \in P /\ w[i] = s[h[i]]
      OBVIOUS
    <3>1. CASE i \in 1 .. Len(u)
      BY <1>1, <2>1, <2>2, <3>1
    <3>2. CASE i = Len(u) + 1
      BY <1>6, <2>1, <2>2, <3>2
    <3> QED
      BY <2>3, <3>1, <3>2
  <2>7. ASSUME NEW k \in 1 .. n, k \in P PROVE \E i \in 1 .. Len(u) + 1 : h[i] = k
    <3>1. CASE k \in 1 .. n - 1
      <4>1. PICK i \in 1 .. Len(u) : g[i] = k
        BY <1>1, <2>7, <3>1
      <4>2. i \in 1 .. Len(u) + 1 /\ h[i] = k
        BY <1>1, <2>2, <4>1
      <4> QED
        BY <4>2
    <3>2. CASE k = n
      <4>1. Len(u) + 1 \in 1 .. Len(u) + 1
        BY <1>1
      <4> QED
        BY <2>2, <3>2, <4>1
    <3> QED
      BY <1>4, <3>1, <3>2
  <2>8. ASSUME Len(w) = n PROVE \A i \in 1 .. n : w[i] = s[i]
    <3>1. Len(u) = n - 1 /\ Len(u) + 1 = n
      BY <1>1, <1>2, <2>1, <2>8
    <3>2. \A i \in 1 .. n - 1 : u[i] = s[i] /\ w[i] = u[i]
      BY <1>1, <2>1, <3>1
    <3> QED
      BY <1>4, <2>1, <3>1, <3>2
  <2>9. Len(w) <= n
    BY <1>1, <1>2, <2>1
  <2>10. Picks(s, P, n, w, h)
    BY <2>1, <2>4, <2>5, <2>6, <2>7, <2>8, <2>9 DEF Picks, R
  <2> QED
    BY <2>10 DEF w
<1> QED
  BY <1>5, <1>6

LEMMA PickedFrom ==
  ASSUME NEW S, NEW s \in Seq(S), NEW P
  PROVE \E g : Picks(s, P, Len(s), Picked(s, P), g)
<1>0. PICK f : Builds(f, S, s, P)
  BY PickedSteps
<1>1. /\ f \in [0 .. Len(s) -> Seq(S)] /\ f[Len(s)] = Picked(s, P) /\ f[0] = <<>>
      /\ \A n \in 1 .. Len(s) : f[n] = IF n \in P THEN Append(f[n - 1], s[n]) ELSE f[n - 1]
  BY <1>0 DEF Builds
<1> DEFINE T == {n \in 0 .. Len(s) : \E g : Picks(s, P, n, f[n], g)}
<1>2. Len(s) \in Nat
  OBVIOUS
<1>3. 0 \in T
  <2> DEFINE g == [i \in {} |-> 0]
  <2>1. f[0] \in Seq(Range(s)) /\ Len(f[0]) = 0 /\ 1 .. Len(f[0]) = {}
    BY <1>1
  <2>2. g \in [1 .. Len(f[0]) -> 1 .. 0]
    BY <2>1
  <2> HIDE DEF g
  <2>3. Picks(s, P, 0, f[0], g)
    BY <2>1, <2>2 DEF Picks
  <2> QED
    BY <1>2, <2>3
<1>4. ASSUME NEW n \in 1 .. Len(s), n - 1 \in T PROVE n \in T
  <2>1. PICK g : Picks(s, P, n - 1, f[n - 1], g)
    BY <1>4
  <2>2. n \in 0 .. Len(s) /\ f[n] = IF n \in P THEN Append(f[n - 1], s[n]) ELSE f[n - 1]
    BY <1>1
  <2>3. /\ n \notin P => Picks(s, P, n, f[n - 1], g)
        /\ n \in P => \E h : Picks(s, P, n, Append(f[n - 1], s[n]), h)
    BY <2>1, PicksMore
  <2> QED
    BY <2>2, <2>3
<1> HIDE DEF T
<1>5. \A n \in 0 .. Len(s) : n \in T
  BY <1>2, <1>3, <1>4, UpTo
<1>6. Len(s) \in T
  BY <1>2, <1>5
<1> QED
  BY <1>1, <1>6 DEF T

LEMMA PickedFacts ==
  ASSUME NEW S, NEW s \in Seq(S), NEW P
  PROVE /\ Picked(s, P) \in Seq(S) /\ Len(Picked(s, P)) <= Len(s)
        /\ Len(Picked(s, P)) = Len(s) => Picked(s, P) = s
<1>1. PICK u : u = Picked(s, P)
  OBVIOUS
<1>2. PICK g : Picks(s, P, Len(s), u, g)
  BY <1>1, PickedFrom
<1>3. u \in Seq(S)
  <2>1. u \in Seq(Range(s)) /\ Range(s) \subseteq S
    BY <1>2, RangeOfSeq DEF Picks
  <2> QED
    BY <2>1, SeqMonotonic
<1>4. ASSUME Len(u) = Len(s) PROVE u = s
  <2>1. \A i \in 1 .. Len(s) : u[i] = s[i]
    BY <1>2, <1>4 DEF Picks
  <2> QED
    BY <1>3, <1>4, <2>1, SeqEqual
<1>5. Len(u) <= Len(s)
  BY <1>2 DEF Picks
<1> QED
  BY <1>1, <1>3, <1>4, <1>5

LEMMA PickedNone ==
  ASSUME NEW P
  PROVE Picked(<<>>, P) = <<>>
<1>1. <<>> \in Seq({}) /\ Len(<<>>) = 0
  OBVIOUS
<1>2. Picked(<<>>, P) \in Seq({}) /\ Len(Picked(<<>>, P)) <= 0
  BY <1>1, PickedFacts
<1> QED
  BY <1>2

\* One element more to look at.
Longer(s, t, P, Q) ==
  Len(t) = Len(s) + 1 /\ \A i \in 1 .. Len(s) : t[i] = s[i] /\ (i \in Q <=> i \in P)

LEMMA PickedNext ==
  ASSUME NEW S, NEW s \in Seq(S), NEW t \in Seq(S), NEW P, NEW Q, Longer(s, t, P, Q)
  PROVE Picked(t, Q) = IF Len(t) \in Q THEN Append(Picked(s, P), t[Len(t)]) ELSE Picked(s, P)
<1>0. PICK f, g : Builds(f, S, s, P) /\ Builds(g, S, t, Q)
  BY PickedSteps
<1>1. /\ f[Len(s)] = Picked(s, P) /\ f[0] = <<>>
      /\ \A n \in 1 .. Len(s) : f[n] = IF n \in P THEN Append(f[n - 1], s[n]) ELSE f[n - 1]
  BY <1>0 DEF Builds
<1>2. /\ g[Len(t)] = Picked(t, Q) /\ g[0] = <<>>
      /\ \A n \in 1 .. Len(t) : g[n] = IF n \in Q THEN Append(g[n - 1], t[n]) ELSE g[n - 1]
  BY <1>0 DEF Builds
<1> DEFINE T == {n \in 0 .. Len(s) : g[n] = f[n]}
<1>3. /\ Len(s) \in Nat /\ Len(t) = Len(s) + 1
      /\ \A i \in 1 .. Len(s) : t[i] = s[i] /\ (i \in Q <=> i \in P)
  BY DEF Longer
<1>4. 0 \in T
  BY <1>1, <1>2, <1>3
<1>5. ASSUME NEW n \in 1 .. Len(s), n - 1 \in T PROVE n \in T
  <2>1. g[n - 1] = f[n - 1] /\ n \in 1 .. Len(t) /\ n \in 0 .. Len(s)
    BY <1>3, <1>5
  <2>2. t[n] = s[n] /\ (n \in Q <=> n \in P)
    BY <1>3
  <2>3. g[n] = f[n]
    BY <1>1, <1>2, <2>1, <2>2
  <2> QED
    BY <2>1, <2>3
<1> HIDE DEF T
<1>6. \A n \in 0 .. Len(s) : n \in T
  BY <1>3, <1>4, <1>5, UpTo
<1>7. Len(s) \in T
  BY <1>3, <1>6
<1>8. g[Len(s)] = Picked(s, P)
  BY <1>1, <1>7 DEF T
<1>9. Len(t) \in 1 .. Len(t) /\ Len(t) - 1 = Len(s)
  BY <1>3
<1>10. g[Len(t)] = IF Len(t) \in Q THEN Append(g[Len(t) - 1], t[Len(t)]) ELSE g[Len(t) - 1]
  BY <1>2, <1>9
<1> QED
  BY <1>2, <1>8, <1>9, <1>10

(***************************************************************************)
(* Functions defined from their values at linked places, when no chain of  *)
(* links goes on for ever.                                                 *)
(***************************************************************************)
\* The links of a place are its members of K; every set of places has one that
\* is not linked to another of the set.
WellLinked(L, K) ==
  /\ L \in [K -> SUBSET K]
  /\ \A S \in SUBSET K : S # {} => \E x \in S : L[x] \cap S = {}

Closed(C, L) == \A x \in C : L[x] \subseteq C

\* rule[x] gives a value from a function, and looks at the links of x alone.
LooksAlong(rule, L, K, V) ==
  /\ rule \in [K -> [[K -> V] -> V]]
  /\ \A x \in K : \A f, g \in [K -> V] :
         (\A y \in L[x] : f[y] = g[y]) => rule[x][f] = rule[x][g]

\* f follows the rule at every member of C.
Obeys(f, rule, C) == \A x \in C : f[x] = rule[x][f]

\* What holds at x if it holds at the links of x holds everywhere.
LEMMA AlongLinks ==
  ASSUME NEW K, NEW L, WellLinked(L, K), NEW T,
         \A x \in K : L[x] \subseteq T => x \in T
  PROVE K \subseteq T
<1> SUFFICES ASSUME K \ T # {} PROVE FALSE
  OBVIOUS
<1>1. PICK x \in K \ T : L[x] \cap (K \ T) = {}
  BY DEF WellLinked
<1>2. L[x] \subseteq K
  BY DEF WellLinked
<1> QED
  BY <1>1, <1>2

\* Two functions that follow the rule agree.
LEMMA SameAlongLinks ==
  ASSUME NEW K, NEW L, WellLinked(L, K), NEW V, NEW rule, LooksAlong(rule, L, K, V),
         NEW f \in [K -> V], NEW g \in [K -> V], NEW C, NEW D, C \subseteq K,
         Closed(C, L), Closed(D, L), Obeys(f, rule, C), Obeys(g, rule, D)
  PROVE \A x \in C \cap D : f[x] = g[x]
<1> DEFINE T == {x \in K : x \in C \cap D => f[x] = g[x]}
<1>1. ASSUME NEW x \in K, L[x] \subseteq T PROVE x \in T
  <2>1. CASE x \in C \cap D
    <3>1. L[x] \subseteq C \cap D
      BY <2>1 DEF Closed
    <3>2. \A y \in L[x] : f[y] = g[y]
      BY <1>1, <3>1
    <3>3. rule[x][f] = rule[x][g]
      BY <3>2 DEF LooksAlong
    <3>4. f[x] = rule[x][f] /\ g[x] = rule[x][g]
      BY <2>1 DEF Obeys
    <3> QED
      BY <3>3, <3>4
  <2> QED
    BY <2>1
<1> HIDE DEF T
<1>2. K \subseteq T
  BY <1>1, AlongLinks
<1> QED
  BY <1>2 DEF T

LEMMA RecursionAlongLinks ==
  ASSUME NEW K, NEW L, WellLinked(L, K), NEW V, NEW e \in V,
         NEW rule, LooksAlong(rule, L, K, V)
  PROVE \E f \in [K -> V] : Obeys(f, rule, K)
<1> DEFINE F == [K -> V]
           Piece(C, f) == C \subseteq K /\ Closed(C, L) /\ f \in F /\ Obeys(f, rule, C)
           T == {x \in K : \E C \in SUBSET K, f \in F : Piece(C, f) /\ x \in C}
           Value(x, v) == \E C \in SUBSET K, f \in F : Piece(C, f) /\ x \in C /\ f[x] = v
           G == [x \in K |-> IF x \in T THEN CHOOSE v \in V : Value(x, v) ELSE e]
<1>1. G \in F /\ \A C \in SUBSET K : \A f \in F : Piece(C, f) => \A x \in C : G[x] = f[x]
  <2>1. ASSUME NEW x \in T PROVE \E v \in V : Value(x, v)
    <3>1. PICK C \in SUBSET K, f \in F : Piece(C, f) /\ x \in C
      OBVIOUS
    <3>2. f[x] \in V
      BY <3>1
    <3> QED
      BY <3>1, <3>2
  <2>2. ASSUME NEW C \in SUBSET K, NEW f \in F, Piece(C, f), NEW x \in C
        PROVE \A v : Value(x, v) => v = f[x]
    <3> SUFFICES ASSUME NEW D \in SUBSET K, NEW g \in F, Piece(D, g), x \in D PROVE g[x] = f[x]
      OBVIOUS
    <3> QED
      BY <2>2, SameAlongLinks
  <2> HIDE DEF Value, F
  <2>3. \A x \in T : (CHOOSE v \in V : Value(x, v)) \in V /\ Value(x, CHOOSE v \in V : Value(x, v))
    BY <2>1
  <2>4. G \in [K -> V]
    <3> HIDE DEF T
    <3> QED
      BY <2>3
  <2>5. ASSUME NEW C \in SUBSET K, NEW f \in F, Piece(C, f), NEW x \in C PROVE G[x] = f[x]
    <3>1. x \in T /\ x \in K
      BY <2>5
    <3>2. G[x] = CHOOSE v \in V : Value(x, v)
      <4> HIDE DEF T
      <4> QED
        BY <3>1
    <3> QED
      BY <2>2, <2>3, <2>5, <3>1, <3>2
  <2> QED
    BY <2>4, <2>5 DEF F
<1> HIDE DEF G
<1>2. T \subseteq K /\ Closed(T, L)
  BY DEF Closed
<1>3. Obeys(G, rule, T)
  <2> SUFFICES ASSUME NEW x \in T PROVE G[x] = rule[x][G]
    BY DEF Obeys
  <2>1. PICK C \in SUBSET K, f \in F : Piece(C, f) /\ x \in C
    OBVIOUS
  <2> HIDE DEF T
  <2>2. L[x] \subseteq C /\ x \in K /\ f[x] = rule[x][f]
    BY <2>1 DEF Closed, Obeys
  <2>3. \A y \in L[x] : G[y] = f[y]
    BY <1>1, <2>1, <2>2
  <2>4. rule[x][G] = rule[x][f]
    BY <1>1, <2>1, <2>2, <2>3 DEF LooksAlong
  <2>5. G[x] = f[x]
    BY <1>1, <2>1
  <2> QED
    BY <2>2, <2>4, <2>5
<1>4. ASSUME NEW x \in K, L[x] \subseteq T PROVE x \in T
  <2> SUFFICES ASSUME x \notin T PROVE FALSE
    OBVIOUS
  <2> DEFINE C == T \union {x}
             v == rule[x][G]
             g == [G EXCEPT ![x] = v]
  <2>1. v \in V
    BY <1>1 DEF LooksAlong
  <2>2. C \subseteq K /\ Closed(C, L)
    BY <1>2, <1>4 DEF Closed
  <2> HIDE DEF v, T
  <2>3. g \in F /\ g[x] = v /\ \A y \in T : g[y] = G[y]
    BY <1>1, <1>2, <2>1
  <2> HIDE DEF g
  <2>4. ASSUME NEW z \in C PROVE g[z] = rule[z][g]
    <3>1. z \in K /\ L[z] \subseteq T
      BY <1>2, <1>4 DEF Closed
    <3>2. \A y \in L[z] : g[y] = G[y]
      BY <2>3, <3>1
    <3>3. rule[z][g] = rule[z][G]
      BY <1>1, <2>3, <3>1, <3>2 DEF LooksAlong
    <3> QED
      BY <1>3, <2>3, <3>3 DEF Obeys, v
  <2>5. Obeys(g, rule, C)
    BY <2>4 DEF Obeys
  <2>6. Piece(C, g) /\ x \in C
    BY <2>2, <2>3, <2>5
  <2> USE DEF T
  <2> QED
    BY <2>6, <2>2, <2>3
<1>5. K \subseteq T
  <2> HIDE DEF T
  <2> QED
    BY <1>4, AlongLinks
<1>6. Obeys(G, rule, K)
  BY <1>3, <1>5 DEF Obeys
<1> QED
  BY <1>1, <1>6
=============================================================================
