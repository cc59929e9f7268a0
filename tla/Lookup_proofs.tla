--------------------------- MODULE Lookup_proofs ---------------------------
(***************************************************************************)
(* Theorems about method lookup.                                           *)
(*                                                                         *)
(* The walks of the code are functions defined from their values at the    *)
(* next classes and modules.  That they are defined at all rests on the    *)
(* invariant WellLinked(Graph, Kinds): no class or module reaches itself.  *)
(***************************************************************************)
EXTENDS Lookup, Recursion, SequenceTheorems, FiniteSetTheorems, TLAPS

Entries == Visibilities \union {"none", "undef", "symbol"}
Modes == Visibilities \union {"module_function"}
Tables == [Kinds -> [Names -> Entries]]
Bodies == [of : Kinds, kind : {"class", "singleton"}, vis : Modes, spoilt : BOOLEAN,
           wasTarget : BOOLEAN, wasMode : Modes]

ListsOK == /\ included \in [Kinds -> Seq(Modules)]
           /\ prepended \in [Kinds -> Seq(Modules)]
           /\ extended \in [Kinds -> Seq(Modules)]
MethodsOK == /\ own \in Tables /\ selfs \in Tables
             /\ single \in [Names -> Visibilities \union {"none"}] /\ top \subseteq Names
             /\ mixed \in Seq(Modules)
BodiesOK == /\ bodies \in Seq(Bodies)
            /\ target \in [Kinds -> BOOLEAN] /\ mode \in [Kinds -> Modes]
TypeOK == ListsOK /\ MethodsOK /\ BodiesOK

\* Where the walks go from x.
Links(x) == ToSet(prepended[x]) \union ToSet(included[x])
            \union (IF Above(x) = Nil THEN {} ELSE {Above(x)})
Graph == [x \in Kinds |-> Links(x)]
Acyclic == WellLinked(Graph, Kinds)

(***************************************************************************)
(* The hierarchy.                                                          *)
(***************************************************************************)
LEMMA AboveFacts ==
  ASSUME NEW x \in Kinds
  PROVE (x \in Modules => Above(x) = Nil) /\ (Above(x) # Nil => x \in Classes /\ Above(x) \in Classes)
<1>1. CASE x \in Modules
  BY <1>1, LookupAssumption DEF Above, Kinds
<1>2. CASE x \notin Modules
  BY <1>2, LookupAssumption DEF Above, Kinds
<1> QED
  BY <1>1, <1>2

LEMMA InSequence ==
  ASSUME NEW S, NEW s \in Seq(S)
  PROVE /\ ToSet(s) \subseteq S /\ DOMAIN s = 1 .. Len(s) /\ Len(s) \in Nat
        /\ \A i \in 1 .. Len(s) : s[i] \in ToSet(s) /\ s[i] \in S
        /\ \A x : x \in ToSet(s) <=> \E i \in 1 .. Len(s) : s[i] = x
        /\ \A x : Contains(s, x) <=> x \in ToSet(s)
<1>1. DOMAIN s = 1 .. Len(s) /\ Len(s) \in Nat /\ \A i \in 1 .. Len(s) : s[i] \in S
  OBVIOUS
<1> QED
  BY <1>1 DEF ToSet, Contains

LEMMA LinksFacts ==
  ASSUME ListsOK, NEW x \in Kinds
  PROVE /\ Links(x) \subseteq Kinds /\ Graph[x] = Links(x)
        /\ ToSet(prepended[x]) \subseteq Links(x) /\ ToSet(prepended[x]) \subseteq Modules
        /\ ToSet(included[x]) \subseteq Links(x) /\ ToSet(included[x]) \subseteq Modules
        /\ Above(x) # Nil => Above(x) \in Links(x)
<1>1. prepended[x] \in Seq(Modules) /\ included[x] \in Seq(Modules)
  BY DEF ListsOK
<1>2. ToSet(prepended[x]) \subseteq Modules /\ ToSet(included[x]) \subseteq Modules
  BY <1>1, InSequence
<1>3. Above(x) # Nil => Above(x) \in Kinds
  BY AboveFacts DEF Kinds
<1> QED
  BY <1>2, <1>3 DEF Links, Graph, Kinds

\* A set closed under inclusions, and Reaches(m) is the least around m.
Spread(S) == \A x \in S : ToSet(included[x] \o prepended[x]) \subseteq S

LEMMA JoinedSets ==
  ASSUME NEW S, NEW s \in Seq(S), NEW t \in Seq(S)
  PROVE s \o t \in Seq(S) /\ ToSet(s \o t) = ToSet(s) \union ToSet(t)
<1>1. PICK j : j = s \o t
  OBVIOUS
<1>2. Len(s) \in Nat /\ Len(t) \in Nat /\ j \in Seq(S) /\ Len(j) = Len(s) + Len(t)
  BY <1>1
<1>3. /\ \A i \in 1 .. Len(s) : i \in 1 .. Len(j) /\ j[i] = s[i]
      /\ \A i \in 1 .. Len(t) : i + Len(s) \in 1 .. Len(j) /\ j[i + Len(s)] = t[i]
  BY <1>1, <1>2
<1>4. ASSUME NEW x \in ToSet(j) PROVE x \in ToSet(s) \union ToSet(t)
  <2>1. PICK i \in 1 .. Len(j) : j[i] = x
    BY <1>2, InSequence
  <2>2. CASE i <= Len(s)
    <3>1. i \in 1 .. Len(s)
      BY <1>2, <2>2
    <3> QED
      BY <1>3, <2>1, <3>1, InSequence
  <2>3. CASE ~(i <= Len(s))
    <3>1. i - Len(s) \in 1 .. Len(t) /\ i - Len(s) + Len(s) = i
      BY <1>2, <2>3
    <3>2. t[i - Len(s)] = x
      BY <1>3, <2>1, <3>1
    <3> QED
      BY <3>1, <3>2, InSequence
  <2> QED
    BY <2>2, <2>3
<1>5. ASSUME NEW x \in ToSet(s) PROVE x \in ToSet(j)
  <2>1. PICK i \in 1 .. Len(s) : s[i] = x
    BY InSequence
  <2>2. i \in 1 .. Len(j) /\ j[i] = x
    BY <1>3, <2>1
  <2> QED
    BY <1>2, <2>2, InSequence
<1>6. ASSUME NEW x \in ToSet(t) PROVE x \in ToSet(j)
  <2>1. PICK i \in 1 .. Len(t) : t[i] = x
    BY InSequence
  <2>2. i + Len(s) \in 1 .. Len(j) /\ j[i + Len(s)] = x
    BY <1>3, <2>1
  <2> QED
    BY <1>2, <2>2, InSequence
<1>7. ToSet(j) = ToSet(s) \union ToSet(t)
  BY <1>4, <1>5, <1>6
<1> QED
  BY <1>1, <1>2, <1>7

LEMMA OneElement ==
  ASSUME NEW S, NEW m \in S
  PROVE <<m>> \in Seq(S) /\ ToSet(<<m>>) = {m}
<1>1. PICK s : s = <<m>>
  OBVIOUS
<1>2. s \in Seq(S) /\ Len(s) = 1 /\ s[1] = m
  BY <1>1
<1>3. \A x : x \in ToSet(s) <=> \E i \in 1 .. Len(s) : s[i] = x
  BY <1>2, InSequence
<1>4. 1 \in 1 .. Len(s) /\ \A i \in 1 .. Len(s) : i = 1
  BY <1>2
<1>5. \A x : x \in ToSet(s) <=> x = m
  BY <1>2, <1>3, <1>4
<1> QED
  BY <1>1, <1>2, <1>5

LEMMA FrontSet ==
  ASSUME NEW S, NEW s \in Seq(S), NEW m \in S
  PROVE <<m>> \o s \in Seq(S) /\ ToSet(<<m>> \o s) = ToSet(s) \union {m}
<1>1. PICK t : t = <<m>>
  OBVIOUS
<1>2. t \in Seq(S) /\ ToSet(t) = {m}
  BY <1>1, OneElement
<1>3. t \o s \in Seq(S) /\ ToSet(t \o s) = ToSet(t) \union ToSet(s)
  BY <1>2, JoinedSets
<1> QED
  BY <1>1, <1>2, <1>3

LEMMA ReachesFacts ==
  ASSUME ListsOK, NEW m \in Modules
  PROVE /\ m \in Reaches(m) /\ Reaches(m) \subseteq Modules
        /\ \A x \in Reaches(m) : Links(x) \subseteq Reaches(m)
<1>1. ASSUME NEW x \in Modules
      PROVE ToSet(included[x] \o prepended[x]) = Links(x) /\ Links(x) \subseteq Modules
  <2>1. x \in Kinds /\ Above(x) = Nil
    BY AboveFacts DEF Kinds
  <2>2. included[x] \in Seq(Modules) /\ prepended[x] \in Seq(Modules)
    BY <2>1 DEF ListsOK
  <2>3. ToSet(included[x] \o prepended[x]) = ToSet(included[x]) \union ToSet(prepended[x])
    BY <2>2, JoinedSets
  <2>4. ToSet(included[x]) \subseteq Modules /\ ToSet(prepended[x]) \subseteq Modules
    BY <2>2, InSequence
  <2> QED
    BY <2>1, <2>3, <2>4 DEF Links
<1>2. ASSUME NEW x \in Reaches(m), NEW y \in Links(x) PROVE y \in Reaches(m)
  <2>1. x \in Modules
    BY <1>2 DEF Reaches
  <2>2. y \in Modules /\ y \in ToSet(included[x] \o prepended[x])
    BY <1>1, <1>2, <2>1
  <2>3. ASSUME NEW S \in SUBSET Modules, m \in S, \A z \in S : ToSet(included[z] \o prepended[z]) \subseteq S
        PROVE y \in S
    <3>1. x \in S
      BY <1>2, <2>3 DEF Reaches
    <3> QED
      BY <2>2, <2>3, <3>1
  <2> QED
    BY <2>2, <2>3 DEF Reaches
<1> QED
  BY <1>2 DEF Reaches

\* No module reaches k if k may be given m.
LEMMA NewLink ==
  ASSUME ListsOK, Acyclic, ListsOK', NEW k \in Kinds, NEW m \in Modules, k \notin Reaches(m),
         Links(k)' \subseteq Links(k) \union {m},
         \A x \in Kinds \ {k} : Links(x)' = Links(x)
  PROVE Acyclic'
<1>1. \A x \in Kinds : Links(x) \subseteq Kinds /\ Graph[x] = Links(x) /\ Graph'[x] = Links(x)'
                       /\ Links(x)' \subseteq Kinds
  <2>1. \A x \in Kinds : Links(x) \subseteq Kinds /\ Graph[x] = Links(x)
    BY LinksFacts
  <2>2. \A x \in Kinds : Graph'[x] = Links(x)'
    BY DEF Graph
  <2>3. m \in Kinds
    BY DEF Kinds
  <2> QED
    BY <2>1, <2>2, <2>3
<1>2. m \in Reaches(m) /\ Reaches(m) \subseteq Kinds /\ \A x \in Reaches(m) : Links(x) \subseteq Reaches(m)
  BY ReachesFacts DEF Kinds
<1>3. ASSUME NEW S \in SUBSET Kinds, S # {} PROVE \E x \in S : Graph'[x] \cap S = {}
  <2>1. \A T \in SUBSET Kinds : T # {} => \E x \in T : Links(x) \cap T = {}
    BY <1>1 DEF Acyclic, WellLinked
  <2>2. CASE S \cap Reaches(m) # {}
    <3>1. PICK x \in S \cap Reaches(m) : Links(x) \cap (S \cap Reaches(m)) = {}
      BY <2>1, <2>2
    <3>2. x # k /\ Links(x) \cap S = {}
      BY <1>2, <3>1
    <3> QED
      BY <1>1, <3>1, <3>2
  <2>3. CASE S \cap Reaches(m) = {}
    <3>1. PICK x \in S : Links(x) \cap S = {}
      BY <1>3, <2>1
    <3>2. m \notin S
      BY <1>2, <2>3
    <3>3. Links(x)' \subseteq Links(x) \union {m}
      OBVIOUS
    <3> QED
      BY <1>1, <3>1, <3>2, <3>3
  <2> QED
    BY <2>2, <2>3
<1>4. Graph' \in [Kinds -> SUBSET Kinds]
  BY <1>1 DEF Graph
<1> QED
  BY <1>3, <1>4 DEF Acyclic, WellLinked

(***************************************************************************)
(* The first hit, and what is found in a class.                            *)
(***************************************************************************)
LEMMA FirstHitFacts ==
  ASSUME NEW n \in Nat, NEW hits, DOMAIN hits = 1 .. n
  PROVE /\ (\A i \in 1 .. n : hits[i] = NotFound) => FirstHit(hits) = NotFound
        /\ \A i \in 1 .. n : hits[i] # NotFound /\ (\A j \in 1 .. i - 1 : hits[j] = NotFound)
                                => FirstHit(hits) = hits[i]
        /\ FirstHit(hits) # NotFound =>
               \E i \in 1 .. n : /\ hits[i] = FirstHit(hits)
                                 /\ \A j \in 1 .. i - 1 : hits[j] = NotFound
        /\ (\E i \in 1 .. n : hits[i] # NotFound) => FirstHit(hits) # NotFound
<1> DEFINE found == {i \in DOMAIN hits : hits[i] # NotFound}
<1>1. FirstHit(hits) = IF found = {} THEN NotFound ELSE hits[Min(found)]
  BY DEF FirstHit
<1>2. found \subseteq 1 .. n /\ \A i \in 1 .. n : i \in found <=> hits[i] # NotFound
  OBVIOUS
<1> HIDE DEF found
<1>3. ASSUME found # {} PROVE Min(found) \in found /\ \A j \in found : Min(found) <= j
  <2>1. PICK T : T = found
    OBVIOUS
  <2>2. T \subseteq Nat /\ T # {}
    BY <1>2, <1>3, <2>1
  <2>3. Min(T) \in T /\ \A j \in T : Min(T) <= j
    BY <2>2, MinExists
  <2> QED
    BY <2>1, <2>3
<1>4. ASSUME NEW i \in 1 .. n, hits[i] # NotFound, \A j \in 1 .. i - 1 : hits[j] = NotFound
      PROVE FirstHit(hits) = hits[i]
  <2>1. i \in found
    BY <1>2, <1>4
  <2>2. \A j \in 1 .. n : j \notin 1 .. i - 1 => i <= j
    OBVIOUS
  <2>3. PICK m : m = Min(found)
    OBVIOUS
  <2>4. m \in 1 .. n /\ hits[m] # NotFound /\ m <= i
    BY <1>2, <1>3, <2>1, <2>3
  <2>5. m \notin 1 .. i - 1
    BY <1>4, <2>4
  <2>6. m = i
    BY <2>2, <2>4, <2>5
  <2> QED
    BY <1>1, <2>1, <2>3, <2>6
<1>5. ASSUME FirstHit(hits) # NotFound
      PROVE \E i \in 1 .. n : /\ hits[i] = FirstHit(hits)
                              /\ \A j \in 1 .. i - 1 : hits[j] = NotFound
  <2>1. found # {} /\ FirstHit(hits) = hits[Min(found)]
    BY <1>1, <1>5
  <2>2. PICK i : i = Min(found)
    OBVIOUS
  <2>3. i \in 1 .. n /\ \A j \in found : i <= j
    BY <1>2, <1>3, <2>1, <2>2
  <2>4. \A j \in 1 .. i - 1 : j \in 1 .. n /\ ~(i <= j)
    BY <2>3
  <2>5. \A j \in 1 .. i - 1 : hits[j] = NotFound
    BY <1>2, <2>3, <2>4
  <2> QED
    BY <2>1, <2>2, <2>3, <2>5
<1>6. (\A i \in 1 .. n : hits[i] = NotFound) => FirstHit(hits) = NotFound
  BY <1>1, <1>2
<1>7. ASSUME NEW i \in 1 .. n, hits[i] # NotFound PROVE FirstHit(hits) # NotFound
  <2>1. found # {}
    BY <1>2, <1>7
  <2>2. PICK m : m = Min(found)
    OBVIOUS
  <2>3. m \in 1 .. n /\ hits[m] # NotFound
    BY <1>2, <1>3, <2>1, <2>2
  <2> QED
    BY <1>1, <2>1, <2>2, <2>3
<1> QED
  BY <1>4, <1>5, <1>6, <1>7

LEMMA FirstOfTwo ==
  ASSUME NEW a, NEW b
  PROVE FirstHit(<<a, b>>) = IF a # NotFound THEN a ELSE b
<1>1. PICK h, n : h = <<a, b>> /\ n = 2
  OBVIOUS
<1>2. n \in Nat /\ DOMAIN h = 1 .. n
  BY <1>1
<1>3. h[1] = a /\ h[2] = b /\ \A i \in 1 .. n : i = 1 \/ i = 2
  BY <1>1
<1>4. (\A i \in 1 .. n : h[i] = NotFound) => FirstHit(h) = NotFound
  BY <1>2, FirstHitFacts
<1>5. \A i \in 1 .. n : h[i] # NotFound /\ (\A j \in 1 .. i - 1 : h[j] = NotFound)
                              => FirstHit(h) = h[i]
  BY <1>2, FirstHitFacts
<1>6. 1 \in 1 .. n /\ 2 \in 1 .. n
      /\ 1 .. 1 - 1 = {} /\ (\A j \in 1 .. 2 - 1 : j = 1)
  BY <1>1
<1>7. CASE a # NotFound
  <2>1. \A j \in 1 .. 1 - 1 : h[j] = NotFound
    BY <1>3, <1>6, <1>7
  <2>2. PICK i : i = 1
    OBVIOUS
  <2>3. i \in 1 .. n /\ h[i] # NotFound /\ \A j \in 1 .. i - 1 : h[j] = NotFound
    BY <1>3, <1>6, <1>7, <2>1, <2>2
  <2>4. FirstHit(h) = h[i]
    BY <1>5, <2>3
  <2> QED
    BY <1>1, <1>3, <1>7, <2>2, <2>4
<1>8. CASE a = NotFound /\ b # NotFound
  <2>1. \A j \in 1 .. 2 - 1 : h[j] = NotFound
    BY <1>3, <1>6, <1>8
  <2>2. PICK i : i = 2
    OBVIOUS
  <2>3. i \in 1 .. n /\ h[i] # NotFound /\ \A j \in 1 .. i - 1 : h[j] = NotFound
    BY <1>3, <1>6, <1>8, <2>1, <2>2
  <2>4. FirstHit(h) = h[i]
    BY <1>5, <2>3
  <2> QED
    BY <1>1, <1>3, <1>8, <2>2, <2>4
<1>9. CASE a = NotFound /\ b = NotFound
  <2>1. FirstHit(h) = NotFound
    BY <1>3, <1>4, <1>9
  <2> QED
    BY <1>1, <1>9, <2>1
<1> QED
  BY <1>7, <1>8, <1>9

LEMMA FirstOfThree ==
  ASSUME NEW a, NEW b, NEW c
  PROVE FirstHit(<<a, b, c>>) = IF a # NotFound THEN a ELSE IF b # NotFound THEN b ELSE c
<1>1. PICK h, n : h = <<a, b, c>> /\ n = 3
  OBVIOUS
<1>2. n \in Nat /\ DOMAIN h = 1 .. n
  BY <1>1
<1>3. h[1] = a /\ h[2] = b /\ h[3] = c /\ \A i \in 1 .. n : i = 1 \/ i = 2 \/ i = 3
  BY <1>1
<1>4. (\A i \in 1 .. n : h[i] = NotFound) => FirstHit(h) = NotFound
  BY <1>2, FirstHitFacts
<1>5. \A i \in 1 .. n : h[i] # NotFound /\ (\A j \in 1 .. i - 1 : h[j] = NotFound)
                              => FirstHit(h) = h[i]
  BY <1>2, FirstHitFacts
<1>6. 1 \in 1 .. n /\ 2 \in 1 .. n /\ 3 \in 1 .. n
      /\ 1 .. 1 - 1 = {} /\ (\A j \in 1 .. 2 - 1 : j = 1) /\ (\A j \in 1 .. 3 - 1 : j = 1 \/ j = 2)
  BY <1>1
<1>7. CASE a # NotFound
  <2>1. \A j \in 1 .. 1 - 1 : h[j] = NotFound
    BY <1>3, <1>6, <1>7
  <2>2. PICK i : i = 1
    OBVIOUS
  <2>3. i \in 1 .. n /\ h[i] # NotFound /\ \A j \in 1 .. i - 1 : h[j] = NotFound
    BY <1>3, <1>6, <1>7, <2>1, <2>2
  <2>4. FirstHit(h) = h[i]
    BY <1>5, <2>3
  <2> QED
    BY <1>1, <1>3, <1>7, <2>2, <2>4
<1>8. CASE a = NotFound /\ b # NotFound
  <2>1. \A j \in 1 .. 2 - 1 : h[j] = NotFound
    BY <1>3, <1>6, <1>8
  <2>2. PICK i : i = 2
    OBVIOUS
  <2>3. i \in 1 .. n /\ h[i] # NotFound /\ \A j \in 1 .. i - 1 : h[j] = NotFound
    BY <1>3, <1>6, <1>8, <2>1, <2>2
  <2>4. FirstHit(h) = h[i]
    BY <1>5, <2>3
  <2> QED
    BY <1>1, <1>3, <1>8, <2>2, <2>4
<1>9. CASE a = NotFound /\ b = NotFound /\ c # NotFound
  <2>1. \A j \in 1 .. 3 - 1 : h[j] = NotFound
    BY <1>3, <1>6, <1>9
  <2>2. PICK i : i = 3
    OBVIOUS
  <2>3. i \in 1 .. n /\ h[i] # NotFound /\ \A j \in 1 .. i - 1 : h[j] = NotFound
    BY <1>3, <1>6, <1>9, <2>1, <2>2
  <2>4. FirstHit(h) = h[i]
    BY <1>5, <2>3
  <2> QED
    BY <1>1, <1>3, <1>9, <2>2, <2>4
<1>10. CASE a = NotFound /\ b = NotFound /\ c = NotFound
  <2>1. FirstHit(h) = NotFound
    BY <1>3, <1>4, <1>10
  <2> QED
    BY <1>1, <1>10, <2>1
<1> QED
  BY <1>7, <1>8, <1>9, <1>10

\* The first hit of f among some modules.
Among(f, mods) == FirstHit([i \in DOMAIN mods |-> f[mods[i]]])

LEMMA AmongFacts ==
  ASSUME NEW S, NEW mods \in Seq(S), NEW f
  PROVE /\ Among(f, mods) # NotFound => \E m \in ToSet(mods) : Among(f, mods) = f[m]
        /\ (\A m \in ToSet(mods) : f[m] = NotFound) => Among(f, mods) = NotFound
        /\ (\E m \in ToSet(mods) : f[m] # NotFound) => Among(f, mods) # NotFound
<1>1. PICK s, n : s = mods /\ n = Len(mods)
  OBVIOUS
<1>2. n \in Nat /\ DOMAIN s = 1 .. n /\ (\A i \in 1 .. n : s[i] \in ToSet(s))
      /\ \A x : x \in ToSet(s) <=> \E i \in 1 .. n : s[i] = x
  BY <1>1, InSequence
<1>3. PICK h : h = [i \in DOMAIN s |-> f[s[i]]]
  OBVIOUS
<1>4. DOMAIN h = 1 .. n /\ \A i \in 1 .. n : h[i] = f[s[i]]
  BY <1>2, <1>3
<1>5. Among(f, mods) = FirstHit(h)
  BY <1>1, <1>3 DEF Among
<1>6. /\ (\A i \in 1 .. n : h[i] = NotFound) => FirstHit(h) = NotFound
      /\ FirstHit(h) # NotFound => \E i \in 1 .. n : h[i] = FirstHit(h)
  BY <1>2, <1>4, FirstHitFacts
<1>7. (\E i \in 1 .. n : h[i] # NotFound) => FirstHit(h) # NotFound
  BY <1>2, <1>4, FirstHitFacts
<1> QED
  BY <1>1, <1>2, <1>4, <1>5, <1>6, <1>7

LEMMA AmongSame ==
  ASSUME NEW S, NEW mods \in Seq(S), NEW f, NEW g, \A m \in ToSet(mods) : f[m] = g[m]
  PROVE Among(f, mods) = Among(g, mods)
<1>1. \A i \in DOMAIN mods : f[mods[i]] = g[mods[i]]
  BY InSequence
<1>2. [i \in DOMAIN mods |-> f[mods[i]]] = [i \in DOMAIN mods |-> g[mods[i]]]
  BY <1>1
<1> QED
  BY <1>2 DEF Among

LEMMA FindStep ==
  ASSUME NEW find, NEW x, NEW n
  PROVE FindAt(find, x, n) =
            IF Among(find, prepended[x]) # NotFound THEN Among(find, prepended[x])
            ELSE IF InstanceHit(x, n) # NotFound THEN InstanceHit(x, n)
            ELSE IF Among(find, included[x]) # NotFound THEN Among(find, included[x])
            ELSE IF Above(x) = Nil THEN NotFound ELSE find[Above(x)]
<1>1. PICK a, b, c : a = Among(find, prepended[x]) /\ b = InstanceHit(x, n)
                     /\ c = Among(find, included[x])
  OBVIOUS
<1>2. FindAt(find, x, n) = IF FirstHit(<<a, b, c>>) # NotFound \/ Above(x) = Nil
                           THEN FirstHit(<<a, b, c>>) ELSE find[Above(x)]
  BY <1>1, Zenon DEF FindAt, Among
<1>3. FirstHit(<<a, b, c>>) = IF a # NotFound THEN a ELSE IF b # NotFound THEN b ELSE c
  BY FirstOfThree
<1> QED
  BY <1>1, <1>2, <1>3

LEMMA HitFacts ==
  ASSUME MethodsOK, NEW x \in Kinds, NEW n \in Names
  PROVE NotFound \in Hits /\ InstanceHit(x, n) \in Hits
        /\ (InstanceHit(x, n) # NotFound => InstanceHit(x, n) = <<own[x][n], x>>)
        /\ (InstanceHit(x, n) = NotFound <=> own[x][n] \in {"none", "symbol"})
<1>1. own[x][n] \in Entries
  BY DEF MethodsOK, Tables
<1>2. NotFound \in Hits
  BY DEF Hits, NotFound
<1>3. own[x][n] \notin {"none", "symbol"} => <<own[x][n], x>> \in Hits /\ <<own[x][n], x>> # NotFound
  BY <1>1 DEF Hits, Entries, NotFound
<1> QED
  BY <1>2, <1>3 DEF InstanceHit

LEMMA FindTyped ==
  ASSUME ListsOK, MethodsOK, NEW x \in Kinds, NEW n \in Names,
         NEW f, \A y \in Links(x) : f[y] \in Hits
  PROVE FindAt(f, x, n) \in Hits
<1>1. prepended[x] \in Seq(Modules) /\ included[x] \in Seq(Modules)
  BY DEF ListsOK
<1>2. PICK p, i : p = prepended[x] /\ i = included[x]
  OBVIOUS
<1>3. \A m \in ToSet(p) \union ToSet(i) : f[m] \in Hits
  BY <1>2, LinksFacts
<1>4. Among(f, p) # NotFound => Among(f, p) \in Hits
  BY <1>1, <1>2, <1>3, AmongFacts
<1>5. Among(f, i) # NotFound => Among(f, i) \in Hits
  BY <1>1, <1>2, <1>3, AmongFacts
<1>6. Above(x) # Nil => f[Above(x)] \in Hits
  BY LinksFacts
<1>7. NotFound \in Hits /\ InstanceHit(x, n) \in Hits
  BY HitFacts
<1> QED
  BY <1>2, <1>4, <1>5, <1>6, <1>7, FindStep

LEMMA FindSame ==
  ASSUME ListsOK, NEW x \in Kinds, NEW n, NEW f, NEW g, \A y \in Links(x) : f[y] = g[y]
  PROVE FindAt(f, x, n) = FindAt(g, x, n)
<1>1. prepended[x] \in Seq(Modules) /\ included[x] \in Seq(Modules)
  BY DEF ListsOK
<1>2. PICK p, i : p = prepended[x] /\ i = included[x]
  OBVIOUS
<1>3. \A m \in ToSet(p) \union ToSet(i) : f[m] = g[m]
  BY <1>2, LinksFacts
<1>4. Among(f, p) = Among(g, p) /\ Among(f, i) = Among(g, i)
  BY <1>1, <1>2, <1>3, AmongSame
<1>5. Above(x) # Nil => f[Above(x)] = g[Above(x)]
  BY LinksFacts
<1> QED
  BY <1>2, <1>4, <1>5, FindStep

\* f is what FindInstance finds for n in each class and module.
Finds(f, n) == /\ f \in [Kinds -> Hits]
               /\ \A x \in Kinds : f[x] = FindAt(f, x, n) /\ FindInstance(x, n) = f[x]

LEMMA FindUnfold ==
  ASSUME ListsOK, MethodsOK, Acyclic, NEW n \in Names
  PROVE \E f : Finds(f, n)
<1> DEFINE rule == [x \in Kinds |-> [f \in [Kinds -> Hits] |-> FindAt(f, x, n)]]
           Unfolds(f) == f = [x \in Kinds |-> FindAt(f, x, n)]
           chosen == CHOOSE f : Unfolds(f)
<1>1. \A x \in Kinds : FindInstance(x, n) = chosen[x]
  BY Zenon DEF FindInstance
<1>2. \A x \in Kinds : Links(x) \subseteq Kinds /\ Graph[x] = Links(x)
  BY LinksFacts
<1>3. ASSUME NEW x \in Kinds, NEW f \in [Kinds -> Hits] PROVE FindAt(f, x, n) \in Hits
  <2>1. \A y \in Links(x) : f[y] \in Hits
    BY <1>2
  <2> QED
    BY <2>1, FindTyped
<1>4. rule \in [Kinds -> [[Kinds -> Hits] -> Hits]]
      /\ \A x \in Kinds : \A f \in [Kinds -> Hits] : rule[x][f] = FindAt(f, x, n)
  BY <1>3
<1> HIDE DEF rule
<1>5. LooksAlong(rule, Graph, Kinds, Hits)
  <2>1. ASSUME NEW x \in Kinds, NEW f \in [Kinds -> Hits], NEW g \in [Kinds -> Hits],
               \A y \in Graph[x] : f[y] = g[y]
        PROVE rule[x][f] = rule[x][g]
    <3>1. FindAt(f, x, n) = FindAt(g, x, n)
      BY <1>2, <2>1, FindSame
    <3> QED
      BY <1>4, <3>1
  <2> QED
    BY <1>4, <2>1 DEF LooksAlong
<1>6. PICK h \in [Kinds -> Hits] : Obeys(h, rule, Kinds)
  <2>1. PICK R, L, K, V, e : R = rule /\ L = Graph /\ K = Kinds /\ V = Hits /\ e = NotFound
    OBVIOUS
  <2>2. WellLinked(L, K) /\ LooksAlong(R, L, K, V) /\ e \in V
    BY <1>5, <2>1 DEF Acyclic, Hits, NotFound
  <2>3. \E h \in [K -> V] : Obeys(h, R, K)
    BY <2>2, RecursionAlongLinks
  <2> QED
    BY <2>1, <2>3, Zenon
<1>7. \A x \in Kinds : h[x] = FindAt(h, x, n)
  BY <1>4, <1>6 DEF Obeys
<1>8. h = [x \in Kinds |-> FindAt(h, x, n)]
  <2>1. h = [x \in Kinds |-> h[x]]
    OBVIOUS
  <2> QED
    BY <1>7, <2>1, Zenon
<1>9. Unfolds(h)
  BY <1>8, Zenon
<1> HIDE DEF Unfolds
<1>10. Unfolds(chosen)
  BY <1>9, Zenon
<1>11. PICK f : f = chosen
  OBVIOUS
<1>12. f = [x \in Kinds |-> FindAt(f, x, n)]
  BY <1>10, <1>11, Zenon DEF Unfolds
<1>13. DOMAIN f = Kinds /\ \A x \in Kinds : f[x] = FindAt(f, x, n)
  BY <1>12, Zenon
<1>14. \A x \in Kinds : f[x] \in Hits
  <2> DEFINE T == {x \in Kinds : f[x] \in Hits}
  <2>1. ASSUME NEW x \in Kinds, Graph[x] \subseteq T PROVE x \in T
    <3>1. FindAt(f, x, n) \in Hits
      BY <1>2, <2>1, FindTyped
    <3> QED
      BY <1>13, <3>1
  <2>2. PICK L, K : L = Graph /\ K = Kinds
    OBVIOUS
  <2> HIDE DEF T
  <2>3. K \subseteq T
    BY <2>1, <2>2, AlongLinks DEF Acyclic
  <2> QED
    BY <2>2, <2>3 DEF T
<1>15. f \in [Kinds -> Hits]
  BY <1>12, <1>14
<1>16. \A x \in Kinds : FindInstance(x, n) = f[x]
  BY <1>1, <1>11
<1>17. Finds(f, n)
  BY <1>13, <1>15, <1>16 DEF Finds
<1> QED
  BY <1>17

(***************************************************************************)
(* The line of superclasses.                                               *)
(***************************************************************************)
Up == [x \in Kinds |-> IF Above(x) = Nil THEN {} ELSE {Above(x)}]

LEMMA UpLinked == WellLinked(Up, Kinds)
<1>1. \A x \in Kinds : Up[x] = IF Above(x) = Nil THEN {} ELSE {Above(x)}
  BY DEF Up
<1>2. \A x \in Kinds : Up[x] \subseteq Kinds
  BY <1>1, AboveFacts DEF Kinds
<1>3. ASSUME NEW S \in SUBSET Kinds, S # {} PROVE \E x \in S : Up[x] \cap S = {}
  <2>1. CASE \E x \in S : x \in Modules
    <3>1. PICK x \in S : x \in Modules
      BY <2>1
    <3>2. Up[x] = {}
      BY <1>1, <3>1, AboveFacts
    <3> QED
      BY <3>2
  <2>2. CASE ~\E x \in S : x \in Modules
    <3>1. S \in SUBSET Classes
      BY <2>2 DEF Kinds
    <3>2. PICK c \in S : Superclass[c] \notin S
      BY <1>3, <3>1, LookupAssumption
    <3>3. Above(c) = Superclass[c]
      BY <2>2 DEF Above
    <3> QED
      BY <1>1, <3>2, <3>3
  <2> QED
    BY <2>1, <2>2
<1>4. Up \in [Kinds -> SUBSET Kinds]
  BY <1>2 DEF Up
<1> QED
  BY <1>3, <1>4 DEF WellLinked

LineAt(f, x) == IF Above(x) = Nil THEN <<x>> ELSE <<x>> \o f[Above(x)]

LEMMA LineUnfold ==
  ASSUME NEW k \in Kinds
  PROVE /\ Line(k) \in Seq(Kinds)
        /\ Line(k) = IF Above(k) = Nil THEN <<k>> ELSE <<k>> \o Line(Above(k))
<1> DEFINE V == Seq(Kinds)
           rule == [x \in Kinds |-> [f \in [Kinds -> V] |-> LineAt(f, x)]]
           Unfolds(f) == f = [x \in Kinds |-> IF Above(x) = Nil THEN <<x>> ELSE <<x>> \o f[Above(x)]]
           chosen == CHOOSE f : Unfolds(f)
<1>1. \A x \in Kinds : Line(x) = chosen[x]
  BY Zenon DEF Line
<1>2. \A x \in Kinds : Above(x) # Nil => Above(x) \in Kinds
  BY AboveFacts DEF Kinds
<1>3. ASSUME NEW x \in Kinds, NEW f, Above(x) # Nil => f[Above(x)] \in V PROVE LineAt(f, x) \in V
  <2>1. <<x>> \in Seq(Kinds)
    BY OneElement
  <2>2. CASE Above(x) = Nil
    BY <2>1, <2>2 DEF LineAt
  <2>3. CASE Above(x) # Nil
    <3>1. PICK t \in Seq(Kinds) : t = f[Above(x)]
      BY <1>3, <2>3
    <3>2. <<x>> \o t \in Seq(Kinds)
      BY FrontSet
    <3> QED
      BY <2>3, <3>1, <3>2 DEF LineAt
  <2> QED
    BY <2>2, <2>3
<1>4. rule \in [Kinds -> [[Kinds -> V] -> V]]
      /\ \A x \in Kinds : \A f \in [Kinds -> V] : rule[x][f] = LineAt(f, x)
  <2>1. \A x \in Kinds : \A f \in [Kinds -> V] : LineAt(f, x) \in V
    <3> HIDE DEF V
    <3> QED
      BY <1>2, <1>3
  <2> HIDE DEF V
  <2> QED
    BY <2>1
<1> HIDE DEF rule
<1>5. LooksAlong(rule, Up, Kinds, V)
  <2>1. ASSUME NEW x \in Kinds, NEW f \in [Kinds -> V], NEW g \in [Kinds -> V],
               \A y \in Up[x] : f[y] = g[y]
        PROVE rule[x][f] = rule[x][g]
    <3>1. Above(x) # Nil => f[Above(x)] = g[Above(x)]
      BY <2>1 DEF Up
    <3>2. LineAt(f, x) = LineAt(g, x)
      BY <3>1 DEF LineAt
    <3> HIDE DEF V
    <3> QED
      BY <1>4, <3>2
  <2> HIDE DEF V
  <2> QED
    BY <1>4, <2>1 DEF LooksAlong
<1>6. PICK h \in [Kinds -> V] : Obeys(h, rule, Kinds)
  <2>1. PICK R, L, K, W, e : R = rule /\ L = Up /\ K = Kinds /\ W = V /\ e = << >>
    OBVIOUS
  <2>2. WellLinked(L, K) /\ LooksAlong(R, L, K, W) /\ e \in W
    BY <1>5, <2>1, UpLinked
  <2> HIDE DEF V
  <2>3. \E h \in [K -> W] : Obeys(h, R, K)
    BY <2>2, RecursionAlongLinks
  <2> QED
    BY <2>1, <2>3, Zenon
<1>7. \A x \in Kinds : h[x] = LineAt(h, x)
  <2> HIDE DEF V
  <2> QED
    BY <1>4, <1>6 DEF Obeys
<1>8. h = [x \in Kinds |-> LineAt(h, x)]
  <2>1. h = [x \in Kinds |-> h[x]]
    OBVIOUS
  <2> QED
    BY <1>7, <2>1, Zenon
<1>9. Unfolds(h)
  BY <1>8, Zenon DEF LineAt
<1> HIDE DEF Unfolds
<1>10. Unfolds(chosen)
  BY <1>9, Zenon
<1>11. PICK f : f = chosen
  OBVIOUS
<1>12. f = [x \in Kinds |-> LineAt(f, x)]
  BY <1>10, <1>11, Zenon DEF Unfolds, LineAt
<1>13. \A x \in Kinds : f[x] = LineAt(f, x)
  BY <1>12, Zenon
<1>14. \A x \in Kinds : f[x] \in V
  <2> DEFINE T == {x \in Kinds : f[x] \in V}
  <2>1. ASSUME NEW x \in Kinds, Up[x] \subseteq T PROVE x \in T
    <3>1. Above(x) # Nil => f[Above(x)] \in V
      BY <2>1 DEF Up
    <3>2. LineAt(f, x) \in V
      BY <1>3, <3>1
    <3> QED
      BY <1>13, <3>2
  <2>2. PICK L, K : L = Up /\ K = Kinds
    OBVIOUS
  <2> HIDE DEF T
  <2>3. K \subseteq T
    BY <2>1, <2>2, AlongLinks, UpLinked
  <2> QED
    BY <2>2, <2>3 DEF T
<1>15. \A x \in Kinds : Line(x) = f[x]
  BY <1>1, <1>11
<1> QED
  BY <1>2, <1>13, <1>14, <1>15 DEF LineAt

\* Line(k) holds k and what is above its members, and nothing else.
LEMMA LineFacts ==
  ASSUME NEW k \in Kinds
  PROVE /\ k \in ToSet(Line(k)) /\ ToSet(Line(k)) \subseteq Kinds
        /\ \A x \in ToSet(Line(k)) : Above(x) # Nil => Above(x) \in ToSet(Line(k))
        /\ \A C : k \in C /\ (\A x \in C \cap Kinds : Above(x) # Nil => Above(x) \in C)
                      => ToSet(Line(k)) \subseteq C
        /\ \A t : InheritsFrom(k, t) <=> t \in ToSet(Line(k))
<1>1. \A x \in Kinds : Line(x) \in Seq(Kinds)
  BY LineUnfold
<1>2. \A x \in Kinds : ToSet(Line(x)) = {x} \union IF Above(x) = Nil THEN {} ELSE ToSet(Line(Above(x)))
  <2> TAKE x \in Kinds
  <2>1. CASE Above(x) = Nil
    BY <2>1, LineUnfold, OneElement
  <2>2. CASE Above(x) # Nil
    <3>1. Above(x) \in Kinds
      BY <2>2, AboveFacts DEF Kinds
    <3>2. PICK t \in Seq(Kinds) : t = Line(Above(x))
      BY <1>1, <3>1
    <3>3. Line(x) = <<x>> \o t
      BY <2>2, <3>2, LineUnfold
    <3>4. ToSet(<<x>> \o t) = ToSet(t) \union {x}
      BY FrontSet
    <3> QED
      BY <2>2, <3>2, <3>3, <3>4
  <2> QED
    BY <2>1, <2>2
<1>3. \A x \in Kinds : Above(x) # Nil => Above(x) \in Kinds
  BY AboveFacts DEF Kinds
<1>4. \A x \in Kinds : Up[x] = IF Above(x) = Nil THEN {} ELSE {Above(x)}
  BY DEF Up
<1>5. \A x \in Kinds : \A y \in ToSet(Line(x)) : Above(y) # Nil => Above(y) \in ToSet(Line(x))
  <2> DEFINE T == {x \in Kinds : \A y \in ToSet(Line(x)) : Above(y) # Nil => Above(y) \in ToSet(Line(x))}
  <2>1. ASSUME NEW x \in Kinds, Up[x] \subseteq T PROVE x \in T
    <3>1. CASE Above(x) = Nil
      BY <1>2, <3>1
    <3>2. CASE Above(x) # Nil
      <4>1. Above(x) \in T /\ ToSet(Line(x)) = {x} \union ToSet(Line(Above(x)))
        BY <1>2, <1>4, <2>1, <3>2
      <4>2. Above(x) \in ToSet(Line(Above(x)))
        BY <1>2, <1>3, <3>2
      <4> QED
        BY <4>1, <4>2
    <3> QED
      BY <3>1, <3>2
  <2>2. PICK L, K : L = Up /\ K = Kinds
    OBVIOUS
  <2> HIDE DEF T
  <2>3. K \subseteq T
    BY <2>1, <2>2, AlongLinks, UpLinked
  <2> QED
    BY <2>2, <2>3 DEF T
<1>6. ASSUME NEW C, \A x \in C \cap Kinds : Above(x) # Nil => Above(x) \in C
      PROVE \A x \in Kinds : x \in C => ToSet(Line(x)) \subseteq C
  <2> DEFINE T == {x \in Kinds : x \in C => ToSet(Line(x)) \subseteq C}
  <2>1. ASSUME NEW x \in Kinds, Up[x] \subseteq T PROVE x \in T
    <3>1. CASE Above(x) = Nil
      BY <1>2, <3>1
    <3>2. CASE Above(x) # Nil
      <4>1. Above(x) \in T /\ ToSet(Line(x)) = {x} \union ToSet(Line(Above(x)))
        BY <1>2, <1>4, <2>1, <3>2
      <4>2. x \in C => Above(x) \in C
        BY <1>6, <3>2
      <4>3. x \in C => ToSet(Line(x)) \subseteq C
        BY <4>1, <4>2
      <4> QED
        BY <4>3
    <3> QED
      BY <3>1, <3>2
  <2>2. PICK L, K : L = Up /\ K = Kinds
    OBVIOUS
  <2> HIDE DEF T
  <2>3. K \subseteq T
    BY <2>1, <2>2, AlongLinks, UpLinked
  <2> QED
    BY <2>2, <2>3 DEF T
<1>7. ToSet(Line(k)) \subseteq Kinds /\ \A t : InheritsFrom(k, t) <=> t \in ToSet(Line(k))
  BY <1>1, InSequence DEF InheritsFrom
<1> QED
  BY <1>2, <1>5, <1>6, <1>7

(***************************************************************************)
(* Going through a list of modules.                                        *)
(***************************************************************************)
\* to gives what is found after each number of modules.
Runs(to, mods, f, start) ==
  /\ to[0] = start /\ \A i \in 1 .. Len(mods) : to[i] = f[mods[i]][to[i - 1]]
  /\ Through(mods, f, start) = to[Len(mods)]
Steps(mods, f, V) == \A m \in ToSet(mods) : \A v \in V : f[m][v] \in V

LEMMA ThroughFacts ==
  ASSUME NEW S, NEW mods \in Seq(S), NEW V, NEW f, NEW start \in V, Steps(mods, f, V)
  PROVE \E to \in [0 .. Len(mods) -> V] : Runs(to, mods, f, start)
<1> DEFINE N == Len(mods)
           At(to, i) == IF i = 0 THEN start ELSE f[mods[i]][to[i - 1]]
           Unfolds(to) == to = [i \in 0 .. Len(mods) |-> IF i = 0 THEN start ELSE f[mods[i]][to[i - 1]]]
           chosen == CHOOSE to : Unfolds(to)
           step == [i \in 1 .. N |-> [v \in V |-> f[mods[i]][v]]]
<1>1. Through(mods, f, start) = chosen[Len(mods)]
  BY Zenon DEF Through
<1>2. N \in Nat /\ \A i \in 1 .. N : mods[i] \in ToSet(mods)
  BY InSequence
<1>3. \A i \in 1 .. N : \A v \in V : f[mods[i]][v] \in V
  BY <1>2 DEF Steps
<1>4. step \in [1 .. N -> [V -> V]] /\ \A i \in 1 .. N : \A v \in V : step[i][v] = f[mods[i]][v]
  BY <1>3
<1> HIDE DEF step
<1>5. PICK h \in [0 .. N -> V] : Iterates(h, N, start, step)
  <2>1. PICK n, st : n = N /\ st = step
    OBVIOUS
  <2>2. n \in Nat /\ st \in [1 .. n -> [V -> V]]
    BY <1>2, <1>4, <2>1
  <2>3. \E g \in [0 .. n -> V] : Iterates(g, n, start, st)
    BY <2>2, Recursion
  <2> QED
    BY <2>1, <2>3
<1>6. h[0] = start /\ \A i \in 1 .. N : h[i] = step[i][h[i - 1]]
  BY <1>5 DEF Iterates
<1>7. \A i \in 0 .. N : h[i] = At(h, i)
  <2> TAKE i \in 0 .. N
  <2>1. CASE i = 0
    BY <1>6, <2>1
  <2>2. CASE i # 0
    <3>1. i \in 1 .. N /\ i - 1 \in 0 .. N
      BY <1>2, <2>2
    <3>2. h[i - 1] \in V
      BY <3>1
    <3> QED
      BY <1>4, <1>6, <2>2, <3>1, <3>2
  <2> QED
    BY <2>1, <2>2
<1>8. h = [i \in 0 .. N |-> At(h, i)]
  <2>1. h = [i \in 0 .. N |-> h[i]]
    OBVIOUS
  <2> HIDE DEF At
  <2> QED
    BY <1>7, <2>1, Zenon
<1>9. Unfolds(h)
  BY <1>8, Zenon
<1> HIDE DEF Unfolds
<1>10. Unfolds(chosen)
  BY <1>9, Zenon
<1>11. PICK to : to = chosen
  OBVIOUS
<1> HIDE DEF chosen
<1>12. to = [i \in 0 .. N |-> At(to, i)]
  <2>1. Unfolds(to)
    BY <1>10, <1>11, Zenon
  <2> QED
    BY <2>1, Zenon DEF Unfolds
<1> HIDE DEF At
<1>13. DOMAIN to = 0 .. N /\ \A i \in 0 .. N : to[i] = At(to, i)
  BY <1>12, Zenon
<1>14. to[0] = start /\ \A i \in 1 .. N : to[i] = f[mods[i]][to[i - 1]]
  <2>1. 0 \in 0 .. N /\ \A i \in 1 .. N : i \in 0 .. N /\ i # 0
    BY <1>2
  <2> QED
    BY <1>13, <2>1 DEF At
<1>15. \A i \in 0 .. N : to[i] \in V
  <2> DEFINE T == {i \in 0 .. N : to[i] \in V}
  <2>1. 0 \in T
    BY <1>2, <1>14
  <2>2. ASSUME NEW i \in 1 .. N, i - 1 \in T PROVE i \in T
    <3>1. to[i - 1] \in V
      BY <2>2
    <3>2. to[i] = f[mods[i]][to[i - 1]]
      BY <1>14
    <3>3. to[i] \in V
      BY <1>3, <3>1, <3>2
    <3>4. i \in 0 .. N
      BY <1>2
    <3> QED
      BY <3>3, <3>4
  <2> HIDE DEF T
  <2>3. \A i \in 0 .. N : i \in T
    BY <1>2, <2>1, <2>2, UpTo
  <2> QED
    BY <2>3 DEF T
<1>16. to \in [0 .. N -> V]
  <2>1. to = [i \in 0 .. N |-> to[i]]
    BY <1>12, <1>13, Zenon
  <2> QED
    BY <1>15, <2>1
<1> QED
  BY <1>1, <1>11, <1>14, <1>16 DEF Runs

LEMMA ThroughSame ==
  ASSUME NEW S, NEW mods \in Seq(S), NEW V, NEW f, NEW g, NEW start \in V,
         \A m \in ToSet(mods) : \A v \in V : f[m][v] \in V /\ f[m][v] = g[m][v]
  PROVE Through(mods, f, start) = Through(mods, g, start)
<1>1. PICK a \in [0 .. Len(mods) -> V] : Runs(a, mods, f, start)
  <2>1. Steps(mods, f, V)
    BY DEF Steps
  <2> QED
    BY <2>1, ThroughFacts
<1>2. PICK b \in [0 .. Len(mods) -> V] : Runs(b, mods, g, start)
  <2>1. Steps(mods, g, V)
    BY DEF Steps
  <2> QED
    BY <2>1, ThroughFacts
<1>3. Len(mods) \in Nat /\ \A i \in 1 .. Len(mods) : mods[i] \in ToSet(mods)
  BY InSequence
<1> DEFINE T == {i \in 0 .. Len(mods) : a[i] = b[i]}
<1>4. 0 \in T
  BY <1>1, <1>2, <1>3 DEF Runs
<1>5. ASSUME NEW i \in 1 .. Len(mods), i - 1 \in T PROVE i \in T
  <2>1. a[i - 1] = b[i - 1] /\ a[i - 1] \in V
    BY <1>5
  <2>2. f[mods[i]][a[i - 1]] = g[mods[i]][a[i - 1]]
    BY <1>3, <2>1
  <2>3. a[i] = b[i]
    BY <1>1, <1>2, <2>1, <2>2 DEF Runs
  <2> QED
    BY <1>3, <2>3
<1> HIDE DEF T
<1>6. \A i \in 0 .. Len(mods) : i \in T
  <2>1. PICK n : n = Len(mods)
    OBVIOUS
  <2>2. \A i \in 0 .. n : i \in T
    BY <1>3, <1>4, <1>5, <2>1, UpTo
  <2> QED
    BY <2>1, <2>2
<1>7. Len(mods) \in T
  BY <1>3, <1>6
<1> QED
  BY <1>1, <1>2, <1>7 DEF T, Runs

\* What every step does to its argument, the whole does, if it can be done in
\* steps; and every module has its turn.
LEMMA ThroughLeads ==
  ASSUME NEW S, NEW mods \in Seq(S), NEW V, NEW f, NEW start \in V, NEW Rel,
         \A v \in V : <<v, v>> \in Rel,
         \A u, v, w \in V : <<u, v>> \in Rel /\ <<v, w>> \in Rel => <<u, w>> \in Rel,
         \A m \in ToSet(mods) : \A v \in V : f[m][v] \in V /\ <<v, f[m][v]>> \in Rel
  PROVE /\ Through(mods, f, start) \in V /\ <<start, Through(mods, f, start)>> \in Rel
        /\ \A m \in ToSet(mods) : \E v \in V : <<f[m][v], Through(mods, f, start)>> \in Rel
<1>1. PICK to \in [0 .. Len(mods) -> V] : Runs(to, mods, f, start)
  <2>1. Steps(mods, f, V)
    BY DEF Steps
  <2> QED
    BY <2>1, ThroughFacts
<1>2. PICK n : n = Len(mods)
  OBVIOUS
<1>3. n \in Nat /\ (\A i \in 1 .. n : mods[i] \in ToSet(mods))
      /\ \A m \in ToSet(mods) : \E i \in 1 .. n : mods[i] = m
  BY <1>2, InSequence
<1>4. \A i \in 0 .. n : to[i] \in V
  BY <1>2
<1> DEFINE T == {i \in 0 .. n : /\ <<start, to[i]>> \in Rel
                                /\ \A j \in 1 .. i : <<to[j], to[i]>> \in Rel}
<1>5. 0 \in T
  BY <1>1, <1>3 DEF Runs
<1>6. ASSUME NEW i \in 1 .. n, i - 1 \in T PROVE i \in T
  <2>1. to[i] \in V /\ to[i - 1] \in V /\ i \in 0 .. n
    BY <1>3, <1>4
  <2>2. to[i] = f[mods[i]][to[i - 1]]
    BY <1>1, <1>2 DEF Runs
  <2>3. <<to[i - 1], to[i]>> \in Rel
    BY <1>3, <2>1, <2>2
  <2>4. <<start, to[i]>> \in Rel
    BY <1>6, <2>1, <2>3
  <2>5. ASSUME NEW j \in 1 .. i PROVE <<to[j], to[i]>> \in Rel
    <3>1. CASE j = i
      BY <2>1, <3>1
    <3>2. CASE j # i
      <4>1. j \in 1 .. i - 1 /\ j \in 0 .. n
        BY <3>2
      <4>2. <<to[j], to[i - 1]>> \in Rel
        BY <1>6, <4>1
      <4> QED
        BY <1>4, <2>1, <2>3, <4>1, <4>2
    <3> QED
      BY <3>1, <3>2
  <2> QED
    BY <2>1, <2>4, <2>5
<1> HIDE DEF T
<1>7. \A i \in 0 .. n : i \in T
  BY <1>3, <1>5, <1>6, UpTo
<1>8. n \in T
  BY <1>3, <1>7
<1>9. Through(mods, f, start) = to[n] /\ to[n] \in V
  BY <1>1, <1>2, <1>3, <1>4 DEF Runs
<1>10. ASSUME NEW m \in ToSet(mods) PROVE \E v \in V : <<f[m][v], to[n]>> \in Rel
  <2>1. PICK i \in 1 .. n : mods[i] = m
    BY <1>3
  <2>2. to[i] = f[m][to[i - 1]] /\ to[i - 1] \in V
    BY <1>1, <1>2, <1>4, <2>1 DEF Runs
  <2>3. <<to[i], to[n]>> \in Rel
    BY <1>8 DEF T
  <2> QED
    BY <2>2, <2>3
<1> QED
  BY <1>8, <1>9, <1>10 DEF T

(***************************************************************************)
(* What `ancestors` collects.                                              *)
(***************************************************************************)
\* From a to b some places were visited, each together with its links, and put
\* into the list.
Grown(a, b) ==
  /\ a.visited \subseteq b.visited
  /\ ToSet(b.list) = ToSet(a.list) \union (b.visited \ a.visited)
  /\ \A y \in b.visited \ a.visited : Links(y) \subseteq b.visited
Within(a, b, C) == b.visited \subseteq a.visited \union C
Around(C) == C \in SUBSET Kinds /\ Closed(C, Graph)
Visit(x, a, b) ==
  /\ b \in Collections /\ Grown(a, b) /\ x \in b.visited
  /\ \A C \in SUBSET Kinds : Around(C) /\ x \in C => Within(a, b, C)
Visits(c, S) == \A x \in S : \A a \in Collections : Visit(x, a, c[x][a])

LEMMA GrownFacts ==
  ASSUME NEW a, NEW b, NEW c
  PROVE /\ Grown(a, a)
        /\ Grown(a, b) /\ Grown(b, c) => Grown(a, c)
        /\ \A C : Within(a, a, C) /\ (Within(a, b, C) /\ Within(b, c, C) => Within(a, c, C))
<1>1. Grown(a, a)
  BY DEF Grown
<1>2. ASSUME Grown(a, b), Grown(b, c) PROVE Grown(a, c)
  <2>1. a.visited \subseteq b.visited /\ b.visited \subseteq c.visited
    BY <1>2 DEF Grown
  <2>2. ToSet(c.list) = ToSet(a.list) \union (b.visited \ a.visited) \union (c.visited \ b.visited)
    BY <1>2 DEF Grown
  <2>3. ToSet(c.list) = ToSet(a.list) \union (c.visited \ a.visited)
    BY <2>1, <2>2
  <2>4. \A y \in c.visited \ a.visited : Links(y) \subseteq c.visited
    <3> TAKE y \in c.visited \ a.visited
    <3>1. CASE y \in b.visited
      BY <1>2, <2>1, <3>1 DEF Grown
    <3>2. CASE y \notin b.visited
      BY <1>2, <3>2 DEF Grown
    <3> QED
      BY <3>1, <3>2
  <2> QED
    BY <2>1, <2>3, <2>4 DEF Grown
<1>3. \A C : Within(a, a, C) /\ (Within(a, b, C) /\ Within(b, c, C) => Within(a, c, C))
  BY DEF Within
<1> QED
  BY <1>1, <1>2, <1>3

LEMMA ThroughVisits ==
  ASSUME ListsOK, NEW mods \in Seq(Modules), NEW c, Visits(c, ToSet(mods)),
         NEW a \in Collections, NEW C \in SUBSET Kinds, Around(C), ToSet(mods) \subseteq C
  PROVE /\ Through(mods, c, a) \in Collections /\ Grown(a, Through(mods, c, a))
        /\ Within(a, Through(mods, c, a), C) /\ ToSet(mods) \subseteq Through(mods, c, a).visited
<1> DEFINE Fits(p) == Grown(p[1], p[2]) /\ Within(p[1], p[2], C)
           Rel == {p \in Collections \X Collections : Fits(p)}
<1>1. PICK b : b = Through(mods, c, a)
  OBVIOUS
<1>2. PICK R, V : R = Rel /\ V = Collections
  OBVIOUS
<1>3. \A u, v : <<u, v>> \in R <=> u \in V /\ v \in V /\ Grown(u, v) /\ Within(u, v, C)
  BY <1>2
<1> HIDE DEF Rel
<1>4. \A v \in V : <<v, v>> \in R
  BY <1>3, GrownFacts
<1>5. \A u, v, w \in V : <<u, v>> \in R /\ <<v, w>> \in R => <<u, w>> \in R
  BY <1>3, GrownFacts
<1>6. ASSUME NEW m \in ToSet(mods), NEW v \in V
      PROVE c[m][v] \in V /\ <<v, c[m][v]>> \in R /\ m \in c[m][v].visited
  <2>1. Visit(m, v, c[m][v])
    BY <1>2 DEF Visits
  <2>2. m \in C
    OBVIOUS
  <2> QED
    BY <1>2, <1>3, <2>1, <2>2 DEF Visit
<1>7. /\ b \in V /\ <<a, b>> \in R
      /\ \A m \in ToSet(mods) : \E v \in V : <<c[m][v], b>> \in R
  <2>1. \A m \in ToSet(mods) : \A v \in V : c[m][v] \in V /\ <<v, c[m][v]>> \in R
    BY <1>6
  <2>2. a \in V
    BY <1>2
  <2>3. /\ Through(mods, c, a) \in V /\ <<a, Through(mods, c, a)>> \in R
        /\ \A m \in ToSet(mods) : \E v \in V : <<c[m][v], Through(mods, c, a)>> \in R
    BY <1>4, <1>5, <2>1, <2>2, ThroughLeads
  <2> QED
    BY <1>1, <2>3
<1>8. \A m \in ToSet(mods) : m \in b.visited
  <2> TAKE m \in ToSet(mods)
  <2>1. PICK v \in V : <<c[m][v], b>> \in R
    BY <1>7
  <2>2. m \in c[m][v].visited /\ Grown(c[m][v], b)
    BY <1>3, <1>6, <2>1
  <2> QED
    BY <2>2 DEF Grown
<1> QED
  BY <1>1, <1>2, <1>3, <1>7, <1>8

Marked(a, x) == [a EXCEPT !.visited = @ \union {x}]
Listed(a, x) == [a EXCEPT !.list = Append(@, x)]
Late(c, x, a) == Through(included[x], c, Listed(Through(prepended[x], c, Marked(a, x)), x))

LEMMA MarkedFacts ==
  ASSUME NEW a \in Collections, NEW x \in Kinds
  PROVE /\ Marked(a, x) \in Collections /\ Listed(a, x) \in Collections
        /\ Marked(a, x).list = a.list /\ Marked(a, x).visited = a.visited \union {x}
        /\ Listed(a, x).list = Append(a.list, x) /\ Listed(a, x).visited = a.visited
        /\ ToSet(Listed(a, x).list) = ToSet(a.list) \union {x}
<1>1. a.list \in Seq(Kinds) /\ a.visited \in SUBSET Kinds /\ a = [list |-> a.list, visited |-> a.visited]
  BY DEF Collections
<1>2. PICK s \in Seq(Kinds) : s = a.list
  BY <1>1
<1>3. <<x>> \in Seq(Kinds) /\ ToSet(<<x>>) = {x}
  BY OneElement
<1>4. PICK t \in Seq(Kinds) : t = <<x>>
  BY <1>3
<1>5. Append(s, x) = s \o t
  BY <1>4
<1>6. ToSet(Append(s, x)) = ToSet(s) \union {x} /\ Append(s, x) \in Seq(Kinds)
  <2>1. s \o t \in Seq(Kinds) /\ ToSet(s \o t) = ToSet(s) \union ToSet(t)
    BY JoinedSets
  <2> QED
    BY <1>3, <1>4, <1>5, <2>1, Zenon
<1>7. PICK l, v : l = a.list /\ v = a.visited
  OBVIOUS
<1>8. l \in Seq(Kinds) /\ v \in SUBSET Kinds /\ a = [list |-> l, visited |-> v]
  BY <1>1, <1>7
<1>9. Marked(a, x) = [list |-> l, visited |-> v \union {x}]
  <2>1. PICK q : q = v \union {x}
    OBVIOUS
  <2>2. Marked(a, x) = [a EXCEPT !.visited = q]
    BY <1>7, <2>1 DEF Marked
  <2>3. [a EXCEPT !.visited = q] = [list |-> l, visited |-> q]
    BY <1>8
  <2> QED
    BY <2>1, <2>2, <2>3
<1>10. Listed(a, x) = [list |-> Append(l, x), visited |-> v]
  <2>1. PICK q : q = Append(l, x)
    OBVIOUS
  <2>2. Listed(a, x) = [a EXCEPT !.list = q]
    BY <1>7, <2>1 DEF Listed
  <2>3. [a EXCEPT !.list = q] = [list |-> q, visited |-> v]
    BY <1>8
  <2> QED
    BY <2>1, <2>2, <2>3
<1>11. PICK p, w : p = Append(l, x) /\ w = v \union {x}
  OBVIOUS
<1>12. p \in Seq(Kinds) /\ w \in SUBSET Kinds /\ ToSet(p) = ToSet(l) \union {x}
  BY <1>2, <1>6, <1>7, <1>8, <1>11
<1>13. Marked(a, x) = [list |-> l, visited |-> w] /\ Listed(a, x) = [list |-> p, visited |-> v]
  BY <1>9, <1>10, <1>11
<1>14. Marked(a, x) \in Collections /\ Listed(a, x) \in Collections
  BY <1>8, <1>12, <1>13 DEF Collections
<1>15. /\ Marked(a, x).list = l /\ Marked(a, x).visited = w
       /\ Listed(a, x).list = p /\ Listed(a, x).visited = v
  BY <1>13
<1> QED
  BY <1>7, <1>11, <1>12, <1>14, <1>15

LEMMA CollectStep ==
  ASSUME NEW c, NEW x, NEW a
  PROVE CollectAt(c, x, a) = IF x \in a.visited THEN a
                             ELSE IF Above(x) = Nil THEN Late(c, x, a) ELSE c[Above(x)][Late(c, x, a)]
BY Zenon DEF CollectAt, Late, Listed, Marked

LEMMA LateVisits ==
  ASSUME ListsOK, NEW x \in Kinds, NEW c, Visits(c, Links(x)), NEW a \in Collections, x \notin a.visited
  PROVE LET b == Late(c, x, a)
        IN  /\ b \in Collections /\ x \in b.visited
            /\ a.visited \subseteq b.visited
            /\ ToSet(b.list) = ToSet(a.list) \union (b.visited \ a.visited)
            /\ \A y \in b.visited \ a.visited : y # x => Links(y) \subseteq b.visited
            /\ ToSet(prepended[x]) \union ToSet(included[x]) \subseteq b.visited
            /\ \A C \in SUBSET Kinds : Around(C) /\ x \in C => Within(a, b, C)
<1>1. PICK p, i : p = prepended[x] /\ i = included[x]
  OBVIOUS
<1>2. p \in Seq(Modules) /\ i \in Seq(Modules)
  BY <1>1 DEF ListsOK
<1>3. ToSet(p) \subseteq Links(x) /\ ToSet(i) \subseteq Links(x) /\ Links(x) \subseteq Kinds /\ Graph[x] = Links(x)
  BY <1>1, LinksFacts
<1>4. Visits(c, ToSet(p)) /\ Visits(c, ToSet(i))
  BY <1>3 DEF Visits
<1>5. PICK m, e, l, b : /\ m = Marked(a, x) /\ e = Through(p, c, m) /\ l = Listed(e, x)
                        /\ b = Through(i, c, l)
  OBVIOUS
<1>6. Late(c, x, a) = b
  BY <1>1, <1>5 DEF Late
<1>7. m \in Collections /\ m.list = a.list /\ m.visited = a.visited \union {x}
  BY <1>5, MarkedFacts
<1>8. ASSUME NEW C \in SUBSET Kinds, Around(C), x \in C
      PROVE /\ e \in Collections /\ Grown(m, e) /\ Within(m, e, C) /\ ToSet(p) \subseteq e.visited
            /\ l \in Collections /\ l.visited = e.visited /\ ToSet(l.list) = ToSet(e.list) \union {x}
            /\ b \in Collections /\ Grown(l, b) /\ Within(l, b, C) /\ ToSet(i) \subseteq b.visited
  <2>1. ToSet(p) \subseteq C /\ ToSet(i) \subseteq C
    BY <1>3, <1>8 DEF Around, Closed
  <2>2. e \in Collections /\ Grown(m, e) /\ Within(m, e, C) /\ ToSet(p) \subseteq e.visited
    BY <1>2, <1>4, <1>5, <1>7, <1>8, <2>1, ThroughVisits
  <2>3. l \in Collections /\ l.visited = e.visited /\ ToSet(l.list) = ToSet(e.list) \union {x}
    BY <1>5, <2>2, MarkedFacts
  <2>4. b \in Collections /\ Grown(l, b) /\ Within(l, b, C) /\ ToSet(i) \subseteq b.visited
    BY <1>2, <1>4, <1>5, <1>8, <2>1, <2>3, ThroughVisits
  <2> QED
    BY <2>2, <2>3, <2>4
<1>9. Around(Kinds)
  BY LinksFacts DEF Around, Closed
<1>10. /\ e \in Collections /\ Grown(m, e) /\ ToSet(p) \subseteq e.visited
       /\ l.visited = e.visited /\ ToSet(l.list) = ToSet(e.list) \union {x}
       /\ b \in Collections /\ Grown(l, b) /\ ToSet(i) \subseteq b.visited
  BY <1>8, <1>9
<1>11. a.visited \subseteq e.visited /\ x \in e.visited /\ e.visited \subseteq b.visited
  BY <1>7, <1>10 DEF Grown
<1>12. ToSet(l.list) = ToSet(a.list) \union (e.visited \ a.visited)
  <2>1. ToSet(e.list) = ToSet(a.list) \union (e.visited \ (a.visited \union {x}))
    BY <1>7, <1>10 DEF Grown
  <2> QED
    BY <1>10, <1>11, <2>1
<1>13. ToSet(b.list) = ToSet(a.list) \union (b.visited \ a.visited)
  <2>1. ToSet(b.list) = ToSet(l.list) \union (b.visited \ e.visited)
    BY <1>10 DEF Grown
  <2> QED
    BY <1>11, <1>12, <2>1
<1>14. ASSUME NEW y \in b.visited \ a.visited, y # x PROVE Links(y) \subseteq b.visited
  <2>1. CASE y \in e.visited
    <3>1. y \in e.visited \ m.visited
      BY <1>7, <1>14, <2>1
    <3> QED
      BY <1>10, <1>11, <3>1 DEF Grown
  <2>2. CASE y \notin e.visited
    <3>1. y \in b.visited \ l.visited
      BY <1>10, <2>2
    <3> QED
      BY <1>10, <3>1 DEF Grown
  <2> QED
    BY <2>1, <2>2
<1>15. ASSUME NEW C \in SUBSET Kinds, Around(C), x \in C PROVE Within(a, b, C)
  BY <1>7, <1>8, <1>15 DEF Within
<1>16. ToSet(p) \union ToSet(i) \subseteq b.visited
  BY <1>10, <1>11
<1> QED
  BY <1>1, <1>6, <1>10, <1>11, <1>13, <1>14, <1>15, <1>16

LEMMA CollectVisits ==
  ASSUME ListsOK, NEW x \in Kinds, NEW c, Visits(c, Links(x)), NEW a \in Collections
  PROVE Visit(x, a, CollectAt(c, x, a))
<1>1. CASE x \in a.visited
  <2>1. CollectAt(c, x, a) = a
    BY <1>1, CollectStep
  <2> QED
    BY <1>1, <2>1, GrownFacts DEF Visit
<1>2. CASE x \notin a.visited
  <2>1. PICK b : b = Late(c, x, a)
    OBVIOUS
  <2>2. /\ b \in Collections /\ x \in b.visited
        /\ a.visited \subseteq b.visited
        /\ ToSet(b.list) = ToSet(a.list) \union (b.visited \ a.visited)
        /\ \A y \in b.visited \ a.visited : y # x => Links(y) \subseteq b.visited
        /\ ToSet(prepended[x]) \union ToSet(included[x]) \subseteq b.visited
        /\ \A C \in SUBSET Kinds : Around(C) /\ x \in C => Within(a, b, C)
    BY <1>2, <2>1, LateVisits
  <2>3. CASE Above(x) = Nil
    <3>1. CollectAt(c, x, a) = b
      BY <1>2, <2>1, <2>3, CollectStep
    <3>2. Links(x) \subseteq b.visited
      BY <2>2, <2>3 DEF Links
    <3>3. Grown(a, b)
      BY <2>2, <3>2 DEF Grown
    <3> QED
      BY <2>2, <3>1, <3>3 DEF Visit
  <2>4. CASE Above(x) # Nil
    <3>1. PICK y, r : y = Above(x) /\ r = c[Above(x)][b]
      OBVIOUS
    <3>2. CollectAt(c, x, a) = r
      BY <1>2, <2>1, <2>4, <3>1, CollectStep
    <3>3. y \in Links(x) /\ Graph[x] = Links(x)
      BY <2>4, <3>1, LinksFacts
    <3>4. Visit(y, b, r)
      BY <2>2, <3>1, <3>3 DEF Visits
    <3>5. r \in Collections /\ Grown(b, r) /\ y \in r.visited
      BY <3>4 DEF Visit
    <3>6. b.visited \subseteq r.visited
      BY <3>5 DEF Grown
    <3>7. ToSet(r.list) = ToSet(a.list) \union (r.visited \ a.visited)
      <4>1. ToSet(r.list) = ToSet(b.list) \union (r.visited \ b.visited)
        BY <3>5 DEF Grown
      <4> QED
        BY <2>2, <3>6, <4>1
    <3>8. Links(x) \subseteq r.visited
      <4>1. Links(x) = ToSet(prepended[x]) \union ToSet(included[x]) \union {y}
        BY <2>4, <3>1 DEF Links
      <4> QED
        BY <2>2, <3>5, <3>6, <4>1
    <3>9. ASSUME NEW z \in r.visited \ a.visited PROVE Links(z) \subseteq r.visited
      <4>1. CASE z \in b.visited
        BY <2>2, <3>6, <3>8, <3>9, <4>1
      <4>2. CASE z \notin b.visited
        BY <3>5, <3>9, <4>2 DEF Grown
      <4> QED
        BY <4>1, <4>2
    <3>10. Grown(a, r)
      BY <2>2, <3>6, <3>7, <3>9 DEF Grown
    <3>11. ASSUME NEW C \in SUBSET Kinds, Around(C), x \in C PROVE Within(a, r, C)
      <4>1. y \in C
        BY <3>3, <3>11 DEF Around, Closed
      <4>2. Within(b, r, C) /\ Within(a, b, C)
        BY <2>2, <3>4, <3>11, <4>1 DEF Visit
      <4> QED
        BY <4>2, GrownFacts
    <3> QED
      BY <2>2, <3>2, <3>5, <3>6, <3>10, <3>11 DEF Visit
  <2> QED
    BY <2>3, <2>4
<1> QED
  BY <1>1, <1>2

LEMMA ThroughTyped ==
  ASSUME NEW S, NEW mods \in Seq(S), NEW V, NEW f, NEW start \in V, Steps(mods, f, V)
  PROVE Through(mods, f, start) \in V
<1>1. PICK to \in [0 .. Len(mods) -> V] : Runs(to, mods, f, start)
  BY ThroughFacts
<1>2. Len(mods) \in 0 .. Len(mods)
  BY InSequence
<1> QED
  BY <1>1, <1>2 DEF Runs

Collecting == [Collections -> Collections]

LEMMA CollectTyped ==
  ASSUME ListsOK, NEW x \in Kinds, NEW c, \A y \in Links(x) : c[y] \in Collecting, NEW a \in Collections
  PROVE CollectAt(c, x, a) \in Collections
<1>1. PICK p, i, V : p = prepended[x] /\ i = included[x] /\ V = Collections
  OBVIOUS
<1>2. p \in Seq(Modules) /\ i \in Seq(Modules)
  BY <1>1 DEF ListsOK
<1>3. Steps(p, c, V) /\ Steps(i, c, V)
  BY <1>1, LinksFacts DEF Steps, Collecting
<1>4. PICK m, e, l, b : /\ m = Marked(a, x) /\ e = Through(p, c, m) /\ l = Listed(e, x)
                        /\ b = Through(i, c, l)
  OBVIOUS
<1>5. Late(c, x, a) = b
  BY <1>1, <1>4 DEF Late
<1>6. m \in V
  BY <1>1, <1>4, MarkedFacts
<1>7. e \in V
  BY <1>2, <1>3, <1>4, <1>6, ThroughTyped
<1>8. l \in V
  BY <1>1, <1>4, <1>7, MarkedFacts
<1>9. b \in V
  BY <1>2, <1>3, <1>4, <1>8, ThroughTyped
<1>10. Above(x) # Nil => c[Above(x)][b] \in V
  BY <1>1, <1>9, LinksFacts DEF Collecting
<1> QED
  BY <1>1, <1>5, <1>9, <1>10, CollectStep

LEMMA CollectSame ==
  ASSUME ListsOK, NEW x \in Kinds, NEW c, NEW d,
         \A y \in Links(x) : c[y] \in Collecting /\ c[y] = d[y], NEW a \in Collections
  PROVE CollectAt(c, x, a) = CollectAt(d, x, a)
<1>1. PICK p, i, V : p = prepended[x] /\ i = included[x] /\ V = Collections
  OBVIOUS
<1>2. p \in Seq(Modules) /\ i \in Seq(Modules)
  BY <1>1 DEF ListsOK
<1>3. \A n \in ToSet(p) \union ToSet(i) : \A v \in V : c[n][v] \in V /\ c[n][v] = d[n][v]
  BY <1>1, LinksFacts DEF Collecting
<1>4. Steps(p, c, V) /\ Steps(i, c, V)
  BY <1>3 DEF Steps
<1>5. PICK m, e, l, b : /\ m = Marked(a, x) /\ e = Through(p, c, m) /\ l = Listed(e, x)
                        /\ b = Through(i, c, l)
  OBVIOUS
<1>6. m \in V
  BY <1>1, <1>5, MarkedFacts
<1>7. e \in V
  BY <1>2, <1>4, <1>5, <1>6, ThroughTyped
<1>8. l \in V
  BY <1>1, <1>5, <1>7, MarkedFacts
<1>9. Through(p, c, m) = Through(p, d, m)
  <2>1. \A n \in ToSet(p) : \A v \in V : c[n][v] \in V /\ c[n][v] = d[n][v]
    BY <1>3
  <2> QED
    BY <1>2, <1>6, <2>1, ThroughSame
<1>10. Through(i, c, l) = Through(i, d, l)
  <2>1. \A n \in ToSet(i) : \A v \in V : c[n][v] \in V /\ c[n][v] = d[n][v]
    BY <1>3
  <2> QED
    BY <1>2, <1>8, <2>1, ThroughSame
<1>11. Late(c, x, a) = b /\ Late(d, x, a) = b
  <2>1. Late(c, x, a) = b
    BY <1>1, <1>5 DEF Late
  <2>2. Late(d, x, a) = b
    BY <1>1, <1>5, <1>9, <1>10 DEF Late
  <2> QED
    BY <2>1, <2>2
<1>12. Above(x) # Nil => c[Above(x)] = d[Above(x)]
  BY LinksFacts
<1> QED
  BY <1>11, <1>12, CollectStep

\* c is what collect_class_ancestors does at each class and module.
Nothing == [list |-> <<>>, visited |-> {}]
Collects(c) ==
  /\ c \in [Kinds -> Collecting]
  /\ \A x \in Kinds : /\ Ancestors(x) = c[x][Nothing].list
                      /\ \A a \in Collections : c[x][a] = CollectAt(c, x, a)

LEMMA CollectUnfold ==
  ASSUME ListsOK, Acyclic
  PROVE \E c : Collects(c)
<1> DEFINE At(c, x) == [acc \in Collections |-> CollectAt(c, x, acc)]
           rule == [x \in Kinds |-> [f \in [Kinds -> Collecting] |-> At(f, x)]]
           Unfolds(f) == f = [x \in Kinds |-> [acc \in Collections |-> CollectAt(f, x, acc)]]
           chosen == CHOOSE f : Unfolds(f)
<1>1. \A x \in Kinds : Ancestors(x) = chosen[x][Nothing].list
  BY Zenon DEF Ancestors, Nothing
<1>2. \A x \in Kinds : Links(x) \subseteq Kinds /\ Graph[x] = Links(x)
  BY LinksFacts
<1>3. ASSUME NEW x \in Kinds, NEW c, \A y \in Links(x) : c[y] \in Collecting PROVE At(c, x) \in Collecting
  <2>1. \A a \in Collections : CollectAt(c, x, a) \in Collections
    BY <1>3, CollectTyped
  <2> QED
    BY <2>1 DEF Collecting
<1>4. ASSUME NEW x \in Kinds, NEW c, NEW d, \A y \in Links(x) : c[y] \in Collecting /\ c[y] = d[y]
      PROVE At(c, x) = At(d, x)
  <2>1. \A a \in Collections : CollectAt(c, x, a) = CollectAt(d, x, a)
    BY <1>4, CollectSame
  <2> QED
    BY <2>1
<1> HIDE DEF At
<1>5. rule \in [Kinds -> [[Kinds -> Collecting] -> Collecting]]
      /\ \A x \in Kinds : \A f \in [Kinds -> Collecting] : rule[x][f] = At(f, x)
  <2>1. \A x \in Kinds : \A f \in [Kinds -> Collecting] : At(f, x) \in Collecting
    BY <1>2, <1>3
  <2> QED
    BY <2>1
<1> HIDE DEF rule
<1>6. LooksAlong(rule, Graph, Kinds, Collecting)
  <2>1. ASSUME NEW x \in Kinds, NEW f \in [Kinds -> Collecting], NEW g \in [Kinds -> Collecting],
               \A y \in Graph[x] : f[y] = g[y]
        PROVE rule[x][f] = rule[x][g]
    <3>1. \A y \in Links(x) : f[y] \in Collecting /\ f[y] = g[y]
      BY <1>2, <2>1
    <3>2. At(f, x) = At(g, x)
      BY <1>4, <3>1
    <3> QED
      BY <1>5, <3>2
  <2> QED
    BY <1>5, <2>1 DEF LooksAlong
<1>7. PICK h \in [Kinds -> Collecting] : Obeys(h, rule, Kinds)
  <2>1. PICK R, L, K, V, e : /\ R = rule /\ L = Graph /\ K = Kinds /\ V = Collecting
                             /\ e = [a \in Collections |-> a]
    OBVIOUS
  <2>2. WellLinked(L, K) /\ LooksAlong(R, L, K, V) /\ e \in V
    BY <1>6, <2>1 DEF Acyclic, Collecting
  <2>3. \E h \in [K -> V] : Obeys(h, R, K)
    BY <2>2, RecursionAlongLinks
  <2> QED
    BY <2>1, <2>3, Zenon
<1>8. \A x \in Kinds : h[x] = At(h, x)
  BY <1>5, <1>7 DEF Obeys
<1>9. h = [x \in Kinds |-> At(h, x)]
  <2>1. h = [x \in Kinds |-> h[x]]
    OBVIOUS
  <2> QED
    BY <1>8, <2>1, Zenon
<1>10. Unfolds(h)
  BY <1>9, Zenon DEF At
<1> HIDE DEF Unfolds
<1>11. Unfolds(chosen)
  BY <1>10, Zenon
<1> HIDE DEF chosen
<1>12. PICK f : f = chosen
  OBVIOUS
<1>13. f = [x \in Kinds |-> At(f, x)]
  <2>1. Unfolds(f)
    BY <1>11, <1>12, Zenon
  <2> QED
    BY <2>1, Zenon DEF Unfolds, At
<1>14. DOMAIN f = Kinds /\ \A x \in Kinds : f[x] = At(f, x)
  BY <1>13, Zenon
<1>15. \A x \in Kinds : f[x] \in Collecting
  <2> DEFINE T == {x \in Kinds : f[x] \in Collecting}
  <2>1. ASSUME NEW x \in Kinds, Graph[x] \subseteq T PROVE x \in T
    BY <1>2, <1>3, <1>14, <2>1
  <2>2. PICK L, K : L = Graph /\ K = Kinds
    OBVIOUS
  <2> HIDE DEF T
  <2>3. K \subseteq T
    BY <2>1, <2>2, AlongLinks DEF Acyclic
  <2> QED
    BY <2>2, <2>3 DEF T
<1>16. f \in [Kinds -> Collecting]
  <2>1. f = [x \in Kinds |-> f[x]]
    BY <1>13, <1>14, Zenon
  <2> QED
    BY <1>15, <2>1
<1>17. \A x \in Kinds : \A a \in Collections : f[x][a] = CollectAt(f, x, a)
  BY <1>14 DEF At
<1>18. Collects(f)
  BY <1>1, <1>12, <1>16, <1>17 DEF Collects
<1> QED
  BY <1>18

\* Ancestors(k) holds k, what its members are linked to, and nothing else.
LEMMA AncestorsFacts ==
  ASSUME ListsOK, Acyclic, NEW k \in Kinds
  PROVE /\ Ancestors(k) \in Seq(Kinds) /\ k \in ToSet(Ancestors(k))
        /\ \A y \in ToSet(Ancestors(k)) : Links(y) \subseteq ToSet(Ancestors(k))
        /\ \A C \in SUBSET Kinds : Around(C) /\ k \in C => ToSet(Ancestors(k)) \subseteq C
        /\ \A t : Contains(Ancestors(k), t) <=> t \in ToSet(Ancestors(k))
<1>1. PICK c : Collects(c)
  BY CollectUnfold
<1>2. \A x \in Kinds : \A a \in Collections : Visit(x, a, c[x][a])
  <2> DEFINE T == {x \in Kinds : \A a \in Collections : Visit(x, a, c[x][a])}
  <2>1. ASSUME NEW x \in Kinds, Graph[x] \subseteq T PROVE x \in T
    <3>1. Visits(c, Links(x))
      BY <2>1, LinksFacts DEF Visits
    <3>2. \A a \in Collections : Visit(x, a, CollectAt(c, x, a))
      BY <3>1, CollectVisits
    <3> QED
      BY <1>1, <3>2 DEF Collects
  <2>2. PICK L, K : L = Graph /\ K = Kinds
    OBVIOUS
  <2> HIDE DEF T
  <2>3. K \subseteq T
    BY <2>1, <2>2, AlongLinks DEF Acyclic
  <2> QED
    BY <2>2, <2>3 DEF T
<1>3. PICK n : n = Nothing
  OBVIOUS
<1>4. n \in Collections /\ n.visited = {} /\ n.list = << >>
  BY <1>3 DEF Nothing, Collections
<1>5. PICK r : r = c[k][n]
  OBVIOUS
<1>6. Visit(k, n, r) /\ Ancestors(k) = r.list
  BY <1>1, <1>2, <1>3, <1>4, <1>5 DEF Collects
<1>7. ToSet(<< >>) = {}
  BY DEF ToSet
<1>8. r.list \in Seq(Kinds)
  BY <1>6 DEF Visit, Collections
<1>9. ToSet(r.list) = r.visited /\ \A y \in r.visited : Links(y) \subseteq r.visited
  BY <1>4, <1>6, <1>7 DEF Visit, Grown
<1>10. k \in r.visited /\ \A C \in SUBSET Kinds : Around(C) /\ k \in C => r.visited \subseteq C
  BY <1>4, <1>6 DEF Visit, Within
<1>11. \A t : Contains(r.list, t) <=> t \in ToSet(r.list)
  BY <1>8, InSequence
<1> QED
  BY <1>6, <1>8, <1>9, <1>10, <1>11

(***************************************************************************)
(* Owners and callers.                                                     *)
(***************************************************************************)
LEMMA LineInAncestors ==
  ASSUME ListsOK, Acyclic, NEW k \in Kinds
  PROVE /\ ToSet(Line(k)) \subseteq ToSet(Ancestors(k))
        /\ ToSet(Ancestors(k)) \cap Classes \subseteq ToSet(Line(k))
        /\ ToSet(Ancestors(k)) \subseteq Kinds
<1>1. ToSet(Line(k)) \subseteq ToSet(Ancestors(k))
  <2>1. PICK C : C = ToSet(Ancestors(k))
    OBVIOUS
  <2>2. k \in C /\ \A y \in C : Links(y) \subseteq C
    BY <2>1, AncestorsFacts
  <2>3. \A x \in C \cap Kinds : Above(x) # Nil => Above(x) \in C
    BY <2>2, LinksFacts
  <2> QED
    BY <2>1, <2>2, <2>3, LineFacts
<1>2. ToSet(Ancestors(k)) \subseteq ToSet(Line(k)) \union Modules
  <2>1. PICK C : C = ToSet(Line(k)) \union Modules
    OBVIOUS
  <2>2. k \in C /\ C \subseteq Kinds
    BY <2>1, LineFacts DEF Kinds
  <2>3. ASSUME NEW x \in C PROVE Graph[x] \subseteq C
    <3>1. x \in Kinds /\ Graph[x] = Links(x)
      BY <2>2, LinksFacts
    <3>2. ToSet(prepended[x]) \subseteq Modules /\ ToSet(included[x]) \subseteq Modules
      BY <3>1, LinksFacts
    <3>3. Above(x) # Nil => Above(x) \in C
      BY <2>1, <2>3, <3>1, AboveFacts, LineFacts
    <3> QED
      BY <2>1, <3>1, <3>2, <3>3 DEF Links
  <2>4. Around(C)
    BY <2>2, <2>3 DEF Around, Closed
  <2> QED
    BY <2>1, <2>2, <2>4, AncestorsFacts
<1>3. Classes \cap Modules = {}
  BY LookupAssumption
<1>4. ToSet(Ancestors(k)) \subseteq Kinds
  BY <1>2, LineFacts DEF Kinds
<1> QED
  BY <1>1, <1>2, <1>3, <1>4

\* A method is found in a class or module of the walk; a class among them is on
\* the line.
LEMMA OwnerFacts ==
  ASSUME ListsOK, MethodsOK, Acyclic, NEW k \in Kinds, NEW n \in Names
  PROVE LET found == FindInstance(k, n)
        IN  /\ found \in Hits
            /\ found # NotFound => /\ found[2] \in Kinds /\ found[1] \in Visibilities \union {"undef"}
                                   /\ found = <<found[1], found[2]>>
                                   /\ found[2] \in Classes => found[2] \in ToSet(Line(k))
<1>1. PICK f : Finds(f, n)
  BY FindUnfold
<1>2. /\ f \in [Kinds -> Hits]
      /\ \A x \in Kinds : f[x] = FindAt(f, x, n) /\ FindInstance(x, n) = f[x]
  BY <1>1 DEF Finds
<1> DEFINE Good(x) == f[x] # NotFound => /\ f[x][2] \in Kinds /\ f[x][1] \in Visibilities \union {"undef"}
                                         /\ f[x] = <<f[x][1], f[x][2]>>
                                         /\ f[x][2] \in Classes => f[x][2] \in ToSet(Line(x))
           T == {x \in Kinds : Good(x)}
<1>3. ASSUME NEW x \in Kinds, Graph[x] \subseteq T PROVE x \in T
  <2>1. PICK p, i : p = prepended[x] /\ i = included[x]
    OBVIOUS
  <2>2. p \in Seq(Modules) /\ i \in Seq(Modules) /\ ToSet(p) \subseteq Modules /\ ToSet(i) \subseteq Modules
        /\ ToSet(p) \subseteq Graph[x] /\ ToSet(i) \subseteq Graph[x]
        /\ (Above(x) # Nil => Above(x) \in Graph[x])
    BY <2>1, LinksFacts DEF ListsOK
  <2>3. x \in ToSet(Line(x))
    BY LineFacts
  <2>4. ASSUME NEW m \in ToSet(p) \union ToSet(i), f[x] = f[m] PROVE Good(x)
    <3>1. m \in Modules /\ m \in Kinds /\ Good(m)
      BY <1>3, <2>2 DEF Kinds
    <3>2. Line(m) = <<m>>
      BY <3>1, LineUnfold, AboveFacts
    <3>3. ToSet(Line(m)) = {m}
      BY <3>1, <3>2, OneElement
    <3>4. m \notin Classes
      BY <3>1, LookupAssumption
    <3> HIDE DEF T
    <3> QED
      BY <2>4, <3>1, <3>3, <3>4
  <2>5. CASE Among(f, p) # NotFound
    <3>1. f[x] = Among(f, p)
      BY <1>2, <2>1, <2>5, FindStep
    <3>2. \E m \in ToSet(p) : f[x] = f[m]
      BY <2>2, <2>5, <3>1, AmongFacts
    <3> QED
      BY <2>4, <3>2
  <2>6. CASE Among(f, p) = NotFound /\ InstanceHit(x, n) # NotFound
    <3>1. f[x] = InstanceHit(x, n)
      BY <1>2, <2>1, <2>6, FindStep
    <3>2. f[x] = <<own[x][n], x>> /\ own[x][n] \notin {"none", "symbol"}
      BY <2>6, <3>1, HitFacts
    <3>3. own[x][n] \in Visibilities \union {"undef"}
      BY <3>2 DEF MethodsOK, Tables, Entries
    <3>4. PICK o : o = own[x][n]
      OBVIOUS
    <3>5. f[x][1] = o /\ f[x][2] = x /\ f[x] = <<o, x>>
      BY <3>2, <3>4
    <3> QED
      BY <2>3, <3>3, <3>4, <3>5
  <2>7. CASE Among(f, p) = NotFound /\ InstanceHit(x, n) = NotFound /\ Among(f, i) # NotFound
    <3>1. f[x] = Among(f, i)
      BY <1>2, <2>1, <2>7, FindStep
    <3>2. \E m \in ToSet(i) : f[x] = f[m]
      BY <2>2, <2>7, <3>1, AmongFacts
    <3> QED
      BY <2>4, <3>2
  <2>8. CASE /\ Among(f, p) = NotFound /\ InstanceHit(x, n) = NotFound /\ Among(f, i) = NotFound
             /\ Above(x) = Nil
    <3>1. f[x] = NotFound
      BY <1>2, <2>1, <2>8, FindStep
    <3> QED
      BY <3>1
  <2>9. CASE /\ Among(f, p) = NotFound /\ InstanceHit(x, n) = NotFound /\ Among(f, i) = NotFound
             /\ Above(x) # Nil
    <3>1. f[x] = f[Above(x)]
      BY <1>2, <2>1, <2>9, FindStep
    <3>2. Above(x) \in Kinds /\ Good(Above(x))
      BY <1>3, <2>2, <2>9
    <3>3. PICK y \in Kinds : y = Above(x)
      BY <3>2
    <3>4. y \in ToSet(Line(x))
      BY <2>3, <2>9, <3>3, LineFacts
    <3>5. \A z \in ToSet(Line(x)) \cap Kinds : Above(z) # Nil => Above(z) \in ToSet(Line(x))
      BY LineFacts
    <3>6. ToSet(Line(y)) \subseteq ToSet(Line(x))
      <4>1. PICK C : C = ToSet(Line(x))
        OBVIOUS
      <4> QED
        BY <3>4, <3>5, <4>1, LineFacts
    <3>7. Good(x)
      <4> HIDE DEF T
      <4> QED
        BY <3>1, <3>2, <3>3, <3>6
    <3> QED
      BY <3>7
  <2> QED
    BY <2>5, <2>6, <2>7, <2>8, <2>9
<1>4. k \in T
  <2>1. PICK L, K : L = Graph /\ K = Kinds
    OBVIOUS
  <2> HIDE DEF T
  <2>2. K \subseteq T
    BY <1>3, <2>1, AlongLinks DEF Acyclic
  <2> QED
    BY <2>1, <2>2
<1>5. Good(k) /\ FindInstance(k, n) = f[k] /\ f[k] \in Hits
  BY <1>2, <1>4
<1> QED
  BY <1>5

LEMMA DispatchSelf ==
  ASSUME ListsOK, MethodsOK, Acyclic, NEW n \in Names, NEW caller \in Classes \union {Nil},
         Dispatch(n, caller, "explicit") # NoMethodError
  PROVE Bare(n) # NoMethodError
<1>1. PICK s, found : s = single[n] /\ found = FindInstance(ObjClass, n)
  OBVIOUS
<1>2. s \in Visibilities \union {"none"} /\ ObjClass \in Classes /\ ObjClass \in Kinds
  BY <1>1, LookupAssumption DEF MethodsOK, Kinds
<1>3. /\ found \in Hits
      /\ found # NotFound => /\ found[2] \in Kinds /\ found[1] \in Visibilities \union {"undef"}
                             /\ found = <<found[1], found[2]>>
  BY <1>1, <1>2, OwnerFacts
<1>4. InheritsFrom(ObjClass, ObjClass)
  BY <1>2, LineFacts
<1>5. Self # Nil /\ caller # Self
  BY LookupAssumption DEF Self
<1>6. \A c, how :
         Dispatch(n, c, how) =
            IF Method(s) /\ Allows(s, ObjClass, c, how) THEN <<s, Self>>
            ELSE IF Method(s) /\ s = "protected" THEN NoMethodError
            ELSE IF found # NotFound
                 THEN IF Method(found[1]) /\ Allows(found[1], found[2], c, how)
                      THEN found ELSE NoMethodError
            ELSE NoMethodError
  BY <1>1, Zenon DEF Dispatch
<1>7. Method(s) => <<s, Self>> # NoMethodError
  BY DEF Method, Visibilities, NoMethodError
<1>8. found # NotFound => found # NoMethodError
  <2> SUFFICES ASSUME found # NotFound PROVE found # NoMethodError
    OBVIOUS
  <2>1. found[1] # "NoMethodError"
    BY <1>3 DEF Visibilities
  <2>2. NoMethodError[1] = "NoMethodError"
    BY DEF NoMethodError
  <2> QED
    BY <2>1, <2>2
<1>9. \A v, o : Allows(v, o, caller, "explicit") =>
                    v = "public" \/ (v = "protected" /\ InheritsFrom(ObjClass, o))
  BY <1>5 DEF Allows
<1>10. \A v, o : v = "public" \/ (v = "protected" /\ InheritsFrom(ObjClass, o))
                    => Allows(v, o, Self, "implicit")
  BY <1>5 DEF Allows
<1>11. \A v, o : Allows(v, o, caller, "explicit") => Allows(v, o, Self, "implicit")
  BY <1>9, <1>10
<1>12. CASE found = NotFound
  <2>1. Method(s) /\ Allows(s, ObjClass, caller, "explicit")
    BY <1>6, <1>12
  <2>2. Dispatch(n, Self, "implicit") = <<s, Self>>
    BY <1>6, <1>11, <2>1
  <2>3. <<"public", Nil>> # NoMethodError
    BY DEF NoMethodError
  <2>4. Bare(n) = IF n \in top THEN <<"public", Nil>> ELSE Dispatch(n, Self, "implicit")
    BY <1>1, <1>12 DEF Bare
  <2> QED
    BY <1>7, <2>1, <2>2, <2>3, <2>4
<1>13. CASE found # NotFound
  <2>1. Bare(n) = Dispatch(n, Self, "implicit")
    BY <1>1, <1>13 DEF Bare
  <2>2. CASE Method(s) /\ Allows(s, ObjClass, Self, "implicit")
    BY <1>6, <1>7, <2>1, <2>2
  <2>3. CASE ~(Method(s) /\ Allows(s, ObjClass, Self, "implicit"))
    <3>1. ~(Method(s) /\ Allows(s, ObjClass, caller, "explicit"))
      BY <1>11, <2>3
    <3>2. ~(Method(s) /\ s = "protected") /\ Method(found[1]) /\ Allows(found[1], found[2], caller, "explicit")
      BY <1>6, <1>13, <3>1
    <3>3. Dispatch(n, Self, "implicit") = found
      BY <1>6, <1>11, <1>13, <2>3, <3>2
    <3> QED
      BY <1>8, <1>13, <2>1, <3>3
  <2> QED
    BY <2>2, <2>3
<1> QED
  BY <1>12, <1>13

\* The tables alone decide who may call what.
LEMMA HiddenLemma ==
  ASSUME ListsOK, MethodsOK, Acyclic
  PROVE HiddenMethodsStayHidden
<1> SUFFICES ASSUME NEW n \in Names, NEW caller \in Classes \union {Nil}
             PROVE LET run == Dispatch(n, caller, "explicit")
                       found == FindInstance(ObjClass, n)
                       InFamily(k) == caller # Nil /\ Contains(Ancestors(caller), k)
                   IN  /\ run # NoMethodError =>
                              run[1] = "public" \/ (run[1] = "protected"
                                                     /\ InFamily(IF run[2] = Self THEN ObjClass ELSE run[2]))
                       /\ (single[n] = "none" /\ found[1] = "protected" /\ found[2] \in Classes
                             /\ InFamily(found[2])) => run = found
                       /\ run # NoMethodError => Bare(n) # NoMethodError
  BY Zenon DEF HiddenMethodsStayHidden
<1> DEFINE InFamily(k) == caller # Nil /\ Contains(Ancestors(caller), k)
<1>1. PICK s, found, run : /\ s = single[n] /\ found = FindInstance(ObjClass, n)
                           /\ run = Dispatch(n, caller, "explicit")
  OBVIOUS
<1>2. s \in Visibilities \union {"none"} /\ ObjClass \in Classes /\ ObjClass \in Kinds /\ Self \notin Kinds
  BY <1>1, LookupAssumption DEF MethodsOK, Kinds, Self
<1>3. /\ found \in Hits
      /\ found # NotFound => /\ found[2] \in Kinds /\ found[1] \in Visibilities \union {"undef"}
                             /\ found = <<found[1], found[2]>>
                             /\ found[2] \in Classes => found[2] \in ToSet(Line(ObjClass))
  BY <1>1, <1>2, OwnerFacts
<1>4. Self # Nil /\ caller # Self
  BY LookupAssumption DEF Self
<1>5. run = IF Method(s) /\ Allows(s, ObjClass, caller, "explicit") THEN <<s, Self>>
            ELSE IF Method(s) /\ s = "protected" THEN NoMethodError
            ELSE IF found # NotFound
                 THEN IF Method(found[1]) /\ Allows(found[1], found[2], caller, "explicit")
                      THEN found ELSE NoMethodError
            ELSE NoMethodError
  BY <1>1, Zenon DEF Dispatch
<1>6. \A v, o : Allows(v, o, caller, "explicit") <=>
                    \/ v = "public"
                    \/ /\ v = "protected" /\ caller # Nil
                       /\ InheritsFrom(caller, o) /\ InheritsFrom(ObjClass, o)
  BY <1>4 DEF Allows
<1>7. \A o : caller # Nil /\ InheritsFrom(caller, o) => InFamily(o)
  <2> SUFFICES ASSUME NEW o, caller # Nil, InheritsFrom(caller, o) PROVE InFamily(o)
    OBVIOUS
  <2>1. caller \in Kinds
    BY DEF Kinds
  <2>2. o \in ToSet(Ancestors(caller))
    BY <2>1, LineFacts, LineInAncestors
  <2> QED
    BY <2>1, <2>2, AncestorsFacts
<1>8. \A o \in Classes : InFamily(o) => InheritsFrom(caller, o)
  <2> SUFFICES ASSUME NEW o \in Classes, InFamily(o) PROVE InheritsFrom(caller, o)
    OBVIOUS
  <2>1. caller \in Kinds
    BY DEF Kinds
  <2>2. o \in ToSet(Ancestors(caller))
    BY <2>1, AncestorsFacts
  <2> QED
    BY <2>1, <2>2, LineFacts, LineInAncestors
<1> HIDE DEF InFamily
<1>9. ASSUME run # NoMethodError
      PROVE run[1] = "public" \/ (run[1] = "protected" /\ InFamily(IF run[2] = Self THEN ObjClass ELSE run[2]))
  <2>1. CASE Method(s) /\ Allows(s, ObjClass, caller, "explicit")
    <3>1. run = <<s, Self>>
      BY <1>5, <2>1
    <3>2. run[1] = s /\ run[2] = Self
      BY <3>1
    <3> QED
      BY <1>6, <1>7, <2>1, <3>2
  <2>2. CASE ~(Method(s) /\ Allows(s, ObjClass, caller, "explicit"))
    <3>1. found # NotFound /\ Allows(found[1], found[2], caller, "explicit") /\ run = found
      BY <1>5, <1>9, <2>2
    <3>2. run[2] # Self
      BY <1>2, <1>3, <3>1
    <3> QED
      BY <1>6, <1>7, <3>1, <3>2
  <2> QED
    BY <2>1, <2>2
<1>10. ASSUME s = "none", found[1] = "protected", found[2] \in Classes, InFamily(found[2])
       PROVE run = found
  <2>1. ~Method(s) /\ Method(found[1])
    BY <1>10 DEF Method, Visibilities
  <2>2. found # NotFound
    <3>1. NotFound[1] = "none"
      BY DEF NotFound
    <3> QED
      BY <1>10, <3>1
  <2>3. InheritsFrom(ObjClass, found[2])
    BY <1>2, <1>3, <1>10, <2>2, LineFacts
  <2>4. InheritsFrom(caller, found[2]) /\ caller # Nil
    BY <1>8, <1>10 DEF InFamily
  <2>5. Allows(found[1], found[2], caller, "explicit")
    BY <1>6, <1>10, <2>3, <2>4
  <2> QED
    BY <1>5, <2>1, <2>2, <2>5
<1>11. run # NoMethodError => Bare(n) # NoMethodError
  BY <1>1, DispatchSelf
<1> QED
  BY <1>1, <1>9, <1>10, <1>11 DEF InFamily

(***************************************************************************)
(* Class bodies.                                                           *)
(***************************************************************************)
\* Body i is the last one of its class; body i is the last one of its class
\* before j.
Latest(bs, i) == \A j \in 1 .. Len(bs) : j > i => bs[j].of # bs[i].of
Beneath(bs, i, j) == /\ i < j /\ bs[i].of = bs[j].of
                     /\ \A m \in 1 .. Len(bs) : i < m /\ m < j => bs[m].of # bs[j].of

\* The two variables say what the last body of the class says, if it is not
\* spoilt, and a singleton body keeps what the one beneath it says.
Says(t, m, b) == t[b.of] = (b.kind = "singleton") /\ m[b.of] = b.vis
Saved(c, b) == c.wasTarget = (b.kind = "singleton") /\ c.wasMode = b.vis
Kept(bs, t, m) ==
  /\ \A i \in 1 .. Len(bs) : ~bs[i].spoilt /\ Latest(bs, i) => Says(t, m, bs[i])
  /\ \A i, j \in 1 .. Len(bs) :
        Beneath(bs, i, j) /\ ~bs[i].spoilt /\ bs[j].kind = "singleton" => Saved(bs[j], bs[i])

LEMMA BodyFields ==
  ASSUME NEW bs \in Seq(Bodies)
  PROVE /\ Len(bs) \in Nat /\ (bs # << >> => Len(bs) \in 1 .. Len(bs))
        /\ \A i \in 1 .. Len(bs) : bs[i] \in Bodies
        /\ \A i \in 1 .. Len(bs) : bs[i].of \in Kinds /\ bs[i].kind \in {"class", "singleton"}
                                   /\ bs[i].vis \in Modes /\ bs[i].spoilt \in BOOLEAN
                                   /\ bs[i].wasTarget \in BOOLEAN /\ bs[i].wasMode \in Modes
<1>1. Len(bs) \in Nat /\ (bs # << >> => Len(bs) \in 1 .. Len(bs)) /\ \A i \in 1 .. Len(bs) : bs[i] \in Bodies
  OBVIOUS
<1>2. \A b \in Bodies : b.of \in Kinds /\ b.kind \in {"class", "singleton"} /\ b.vis \in Modes
                        /\ b.spoilt \in BOOLEAN /\ b.wasTarget \in BOOLEAN /\ b.wasMode \in Modes
  BY DEF Bodies
<1> QED
  BY <1>1, <1>2

\* A body is opened.
LEMMA OpenedKept ==
  ASSUME NEW bs \in Seq(Bodies), NEW t \in [Kinds -> BOOLEAN], NEW m \in [Kinds -> Modes], Kept(bs, t, m),
         NEW b \in Bodies, NEW u \in [Kinds -> BOOLEAN], NEW w \in [Kinds -> Modes],
         \A k \in Kinds \ {b.of} : u[k] = t[k] /\ w[k] = m[k], Says(u, w, b),
         b.kind = "singleton" => bs # << >> /\ b.of = bs[Len(bs)].of /\ b.wasTarget = t[b.of] /\ b.wasMode = m[b.of]
  PROVE Append(bs, b) \in Seq(Bodies) /\ Kept(Append(bs, b), u, w)
<1>1. PICK c, n : c = Append(bs, b) /\ n = Len(bs)
  OBVIOUS
<1>2. /\ c \in Seq(Bodies) /\ n \in Nat /\ Len(c) = n + 1 /\ c[n + 1] = b
      /\ \A i \in 1 .. n : c[i] = bs[i]
  BY <1>1
<1>3. \A i \in 1 .. n : bs[i].of \in Kinds
  BY <1>1, BodyFields
<1>4. ASSUME NEW i \in 1 .. n + 1, ~c[i].spoilt, Latest(c, i) PROVE Says(u, w, c[i])
  <2>1. CASE i = n + 1
    BY <1>2, <2>1
  <2>2. CASE i # n + 1
    <3>1. i \in 1 .. n /\ c[i] = bs[i]
      BY <1>2, <2>2
    <3>2. n + 1 \in 1 .. Len(c) /\ n + 1 > i
      BY <1>2, <3>1
    <3>3. b.of # c[i].of
      BY <1>2, <1>4, <3>2 DEF Latest
    <3>4. ASSUME NEW j \in 1 .. Len(bs), j > i PROVE bs[j].of # bs[i].of
      <4>1. j \in 1 .. Len(c) /\ c[j] = bs[j]
        BY <1>1, <1>2
      <4> QED
        BY <1>4, <3>1, <3>4, <4>1 DEF Latest
    <3>5. Latest(bs, i)
      BY <3>4 DEF Latest
    <3>6. Says(t, m, bs[i])
      BY <1>1, <1>4, <3>1, <3>5 DEF Kept
    <3> QED
      BY <1>3, <3>1, <3>3, <3>6 DEF Says
  <2> QED
    BY <2>1, <2>2
<1>5. ASSUME NEW i \in 1 .. n + 1, NEW j \in 1 .. n + 1, Beneath(c, i, j), ~c[i].spoilt, c[j].kind = "singleton"
      PROVE Saved(c[j], c[i])
  <2>1. i < j /\ c[i].of = c[j].of /\ i \in 1 .. n /\ c[i] = bs[i]
    <3>1. i < j /\ c[i].of = c[j].of
      BY <1>5 DEF Beneath
    <3>2. n \in Nat
      BY <1>2
    <3>3. i \in 1 .. n
      BY <3>1, <3>2
    <3> QED
      BY <1>2, <3>1, <3>3
  <2>2. CASE j = n + 1
    <3>1. bs # << >> /\ b.of = bs[n].of /\ b.wasTarget = t[b.of] /\ b.wasMode = m[b.of]
      BY <1>1, <1>2, <1>5, <2>2
    <3>2. n \in 1 .. n /\ n < j /\ c[n] = bs[n] /\ n \in 1 .. Len(c)
      BY <1>2, <2>1, <2>2
    <3>3. ~(i < n)
      BY <1>2, <1>5, <2>2, <3>1, <3>2 DEF Beneath
    <3>4. i = n
      BY <1>2, <2>1, <3>3
    <3>5. Latest(bs, i)
      BY <1>1, <1>2, <3>4 DEF Latest
    <3>6. Says(t, m, bs[i])
      BY <1>1, <1>5, <2>1, <3>5 DEF Kept
    <3>7. b.wasTarget = (bs[i].kind = "singleton") /\ b.wasMode = bs[i].vis
      BY <3>1, <3>4, <3>6 DEF Says
    <3> QED
      BY <1>2, <2>1, <2>2, <3>7 DEF Saved
  <2>3. CASE j # n + 1
    <3>1. j \in 1 .. n /\ c[j] = bs[j]
      BY <1>2, <2>3
    <3>2. ASSUME NEW l \in 1 .. Len(bs), i < l, l < j PROVE bs[l].of # bs[j].of
      <4>1. l \in 1 .. Len(c) /\ c[l] = bs[l]
        BY <1>1, <1>2
      <4> QED
        BY <1>5, <3>1, <3>2, <4>1 DEF Beneath
    <3>3. Beneath(bs, i, j)
      BY <2>1, <3>1, <3>2 DEF Beneath
    <3> QED
      BY <1>1, <1>5, <2>1, <3>1, <3>3 DEF Kept
  <2> QED
    BY <2>2, <2>3
<1>6. Kept(c, u, w)
  BY <1>2, <1>4, <1>5 DEF Kept
<1> QED
  BY <1>1, <1>2, <1>6

\* The last body is left: what it saved is put back, or what is beneath it is
\* spoilt.
Carries(c, bs) ==
  /\ Len(c) = Len(bs) - 1
  /\ \A i \in 1 .. Len(c) : /\ c[i].of = bs[i].of /\ c[i].kind = bs[i].kind /\ c[i].vis = bs[i].vis
                            /\ c[i].wasTarget = bs[i].wasTarget /\ c[i].wasMode = bs[i].wasMode
                            /\ (~c[i].spoilt => ~bs[i].spoilt)
PutsBack(b, u, w) == b.kind = "singleton" /\ u[b.of] = b.wasTarget /\ w[b.of] = b.wasMode
Spoils(c, bs, k) == \A i \in 1 .. Len(c) : bs[i].of = k => c[i].spoilt

Differs(k, t, m, u, w) == \A x \in Kinds \ {k} : u[x] = t[x] /\ w[x] = m[x]

LEMMA LeftKept ==
  ASSUME NEW bs \in Seq(Bodies), bs # << >>, NEW t \in [Kinds -> BOOLEAN], NEW m \in [Kinds -> Modes],
         Kept(bs, t, m), NEW b, b = bs[Len(bs)], NEW u \in [Kinds -> BOOLEAN], NEW w \in [Kinds -> Modes],
         Differs(b.of, t, m, u, w),
         NEW c \in Seq(Bodies), Carries(c, bs),
         PutsBack(b, u, w) \/ Spoils(c, bs, b.of)
  PROVE Kept(c, u, w)
<1>1. PICK n : n = Len(c)
  OBVIOUS
<1>2. n \in Nat /\ Len(bs) = n + 1 /\ b = bs[n + 1] /\ n + 1 \in 1 .. Len(bs) /\ \A i \in 1 .. n : i \in 1 .. Len(bs)
  BY <1>1 DEF Carries
<1>3. /\ \A i \in 1 .. n + 1 : bs[i].of \in Kinds
      /\ \A i \in 1 .. n : /\ c[i].of = bs[i].of /\ c[i].kind = bs[i].kind /\ c[i].vis = bs[i].vis
                           /\ c[i].wasTarget = bs[i].wasTarget /\ c[i].wasMode = bs[i].wasMode
                           /\ (~c[i].spoilt => ~bs[i].spoilt)
  BY <1>1, <1>2, BodyFields DEF Carries
<1>4. ASSUME NEW i \in 1 .. n, ~c[i].spoilt, Latest(c, i) PROVE Says(u, w, c[i])
  <2>1. ASSUME NEW j \in 1 .. n, j > i PROVE bs[j].of # bs[i].of
    BY <1>1, <1>3, <1>4, <2>1 DEF Latest
  <2>2. CASE bs[i].of = b.of
    <3>1. b.kind = "singleton" /\ u[b.of] = b.wasTarget /\ w[b.of] = b.wasMode
      BY <1>1, <1>4, <2>2 DEF Spoils, PutsBack
    <3>2. ASSUME NEW l \in 1 .. Len(bs), i < l, l < n + 1 PROVE bs[l].of # bs[n + 1].of
      <4>1. l \in 1 .. n
        BY <1>2, <3>2
      <4> QED
        BY <1>2, <2>1, <2>2, <3>2, <4>1
    <3>3. Beneath(bs, i, n + 1)
      BY <1>2, <2>2, <3>2 DEF Beneath
    <3>4. Saved(bs[n + 1], bs[i])
      BY <1>2, <1>3, <1>4, <3>1, <3>3 DEF Kept
    <3>5. b.wasTarget = (bs[i].kind = "singleton") /\ b.wasMode = bs[i].vis
      BY <1>2, <3>4 DEF Saved
    <3>6. u[b.of] = (c[i].kind = "singleton") /\ w[b.of] = c[i].vis /\ c[i].of = b.of
      BY <1>3, <2>2, <3>1, <3>5
    <3> QED
      BY <3>6 DEF Says
  <2>3. CASE bs[i].of # b.of
    <3>1. ASSUME NEW j \in 1 .. Len(bs), j > i PROVE bs[j].of # bs[i].of
      <4>1. j = n + 1 \/ j \in 1 .. n
        BY <1>2
      <4> QED
        BY <1>2, <2>1, <2>3, <3>1, <4>1
    <3>2. Latest(bs, i)
      BY <3>1 DEF Latest
    <3>3. Says(t, m, bs[i])
      BY <1>2, <1>3, <1>4, <3>2 DEF Kept
    <3>4. bs[i].of \in Kinds \ {b.of}
      BY <1>2, <1>3, <2>3
    <3>5. u[bs[i].of] = t[bs[i].of] /\ w[bs[i].of] = m[bs[i].of]
      BY <3>4 DEF Differs
    <3> QED
      BY <1>3, <3>3, <3>5 DEF Says
  <2> QED
    BY <2>2, <2>3
<1>5. ASSUME NEW i \in 1 .. n, NEW j \in 1 .. n, Beneath(c, i, j), ~c[i].spoilt, c[j].kind = "singleton"
      PROVE Saved(c[j], c[i])
  <2>1. i < j /\ bs[i].of = bs[j].of
    BY <1>3, <1>5 DEF Beneath
  <2>2. ASSUME NEW l \in 1 .. Len(bs), i < l, l < j PROVE bs[l].of # bs[j].of
    <3>1. l \in 1 .. n
      BY <1>2, <2>2
    <3> QED
      BY <1>1, <1>3, <1>5, <2>2, <3>1 DEF Beneath
  <2>3. Beneath(bs, i, j)
    BY <2>1, <2>2 DEF Beneath
  <2>4. Saved(bs[j], bs[i])
    BY <1>2, <1>3, <1>5, <2>3 DEF Kept
  <2> QED
    BY <1>3, <2>4 DEF Saved
<1> QED
  BY <1>1, <1>4, <1>5 DEF Kept

\* A body without a name after it sets its visibility.
LEMMA SetKept ==
  ASSUME NEW bs \in Seq(Bodies), bs # << >>, NEW t \in [Kinds -> BOOLEAN], NEW m \in [Kinds -> Modes],
         Kept(bs, t, m), NEW v \in Modes, NEW w \in [Kinds -> Modes],
         NEW b, b = bs[Len(bs)], w[b.of] = v, Differs(b.of, t, m, t, w),
         NEW c, c = [bs EXCEPT ![Len(bs)]["vis"] = v]
  PROVE c \in Seq(Bodies) /\ Kept(c, t, w)
<1>1. PICK n : n = Len(bs) /\ b = bs[n] /\ c = [bs EXCEPT ![n]["vis"] = v]
  OBVIOUS
<1>2. n \in Nat /\ n \in 1 .. n /\ b \in Bodies /\ bs \in [1 .. n -> Bodies]
  BY <1>1
<1>3. PICK d : d = [b EXCEPT !["vis"] = v]
  OBVIOUS
<1>4. d \in Bodies /\ d.of = b.of /\ d.kind = b.kind /\ d.vis = v /\ d.spoilt = b.spoilt
      /\ d.wasTarget = b.wasTarget /\ d.wasMode = b.wasMode
  BY <1>2, <1>3 DEF Bodies
<1>5. c = [bs EXCEPT ![n] = d]
  BY <1>1, <1>2, <1>3
<1>6. c \in [1 .. n -> Bodies] /\ c[n] = d /\ \A i \in 1 .. n : i # n => c[i] = bs[i]
  BY <1>2, <1>4, <1>5
<1>7. c \in Seq(Bodies) /\ Len(c) = n
  BY <1>2, <1>6
<1>8. /\ \A i \in 1 .. n : /\ c[i].of = bs[i].of /\ c[i].kind = bs[i].kind /\ c[i].spoilt = bs[i].spoilt
                           /\ c[i].wasTarget = bs[i].wasTarget /\ c[i].wasMode = bs[i].wasMode
      /\ \A i \in 1 .. n : i # n => c[i].vis = bs[i].vis
      /\ \A i \in 1 .. n : bs[i].of \in Kinds
  BY <1>1, <1>4, <1>6, BodyFields
<1>9. ASSUME NEW i \in 1 .. n, ~c[i].spoilt, Latest(c, i) PROVE Says(t, w, c[i])
  <2>1. Latest(bs, i)
    BY <1>1, <1>7, <1>8, <1>9 DEF Latest
  <2>2. Says(t, m, bs[i])
    BY <1>1, <1>8, <1>9, <2>1 DEF Kept
  <2>3. t[c[i].of] = (c[i].kind = "singleton")
    BY <1>8, <2>2 DEF Says
  <2>4. CASE i = n
    BY <1>1, <1>4, <1>6, <2>3, <2>4 DEF Says
  <2>5. CASE i # n
    <3>1. n \in 1 .. Len(bs) /\ n > i
      BY <1>1, <1>2, <2>5
    <3>2. bs[i].of \in Kinds \ {b.of}
      BY <1>1, <1>8, <2>1, <3>1 DEF Latest
    <3>3. w[bs[i].of] = m[bs[i].of]
      BY <3>2 DEF Differs
    <3> QED
      BY <1>8, <2>2, <2>3, <2>5, <3>3 DEF Says
  <2> QED
    BY <2>4, <2>5
<1>10. ASSUME NEW i \in 1 .. n, NEW j \in 1 .. n, Beneath(c, i, j), ~c[i].spoilt, c[j].kind = "singleton"
       PROVE Saved(c[j], c[i])
  <2>1. Beneath(bs, i, j)
    BY <1>1, <1>7, <1>8, <1>10 DEF Beneath
  <2>2. Saved(bs[j], bs[i])
    BY <1>1, <1>8, <1>10, <2>1 DEF Kept
  <2>3. i # n
    BY <1>2, <2>1 DEF Beneath
  <2> QED
    BY <1>8, <2>2, <2>3 DEF Saved
<1>11. Kept(c, t, w)
  BY <1>7, <1>9, <1>10 DEF Kept
<1> QED
  BY <1>1, <1>7, <1>11

(***************************************************************************)
(* The invariant, action by action.                                        *)
(***************************************************************************)
IInv == TypeOK /\ Acyclic /\ Kept(bodies, target, mode)

LEMMA SameLists ==
  ASSUME ListsOK, Acyclic, UNCHANGED lists
  PROVE ListsOK' /\ Acyclic'
<1>1. UNCHANGED <<included, prepended, extended>>
  BY DEF lists
<1>2. ListsOK'
  BY <1>1 DEF ListsOK
<1>3. \A x \in Kinds : Links(x)' = Links(x)
  BY <1>1 DEF Links
<1>4. Graph' = Graph
  BY <1>3 DEF Graph
<1> QED
  BY <1>2, <1>4 DEF Acyclic

\* A module is put before a list.
LEMMA ListGrown ==
  ASSUME NEW t \in [Kinds -> Seq(Modules)], NEW k \in Kinds, NEW m \in Modules
  PROVE LET u == [t EXCEPT ![k] = <<m>> \o @]
        IN  /\ u \in [Kinds -> Seq(Modules)] /\ ToSet(u[k]) = ToSet(t[k]) \union {m}
            /\ \A x \in Kinds \ {k} : u[x] = t[x]
<1>1. PICK s, r : s = t[k] /\ r = <<m>> \o s
  OBVIOUS
<1>2. s \in Seq(Modules) /\ r \in Seq(Modules) /\ ToSet(r) = ToSet(s) \union {m}
  BY <1>1, FrontSet
<1>3. PICK u : u = [t EXCEPT ![k] = r]
  OBVIOUS
<1>4. u \in [Kinds -> Seq(Modules)] /\ u[k] = r /\ \A x \in Kinds \ {k} : u[x] = t[x]
  BY <1>2, <1>3
<1> QED
  BY <1>1, <1>2, <1>3, <1>4

LEMMA ListsStep ==
  ASSUME IInv, Next
  PROVE ListsOK' /\ Acyclic'
<1>1. ListsOK /\ Acyclic
  BY DEF IInv, TypeOK
<1>2. ASSUME NEW k \in Kinds, NEW m \in Modules, Include(k, m) PROVE ListsOK' /\ Acyclic'
  <2>1. included \in [Kinds -> Seq(Modules)] /\ prepended \in [Kinds -> Seq(Modules)]
        /\ extended \in [Kinds -> Seq(Modules)]
    BY <1>1 DEF ListsOK
  <2>2. included' = [included EXCEPT ![k] = <<m>> \o @] /\ prepended' = prepended /\ extended' = extended
        /\ k \notin Reaches(m)
    BY <1>2 DEF Include
  <2>3. /\ included' \in [Kinds -> Seq(Modules)] /\ ToSet(included'[k]) = ToSet(included[k]) \union {m}
        /\ \A x \in Kinds \ {k} : included'[x] = included[x]
    <3>1. PICK t : t = included
      OBVIOUS
    <3> QED
      BY <2>1, <2>2, <3>1, ListGrown
  <2>4. ListsOK'
    BY <2>1, <2>2, <2>3 DEF ListsOK
  <2>5. Links(k)' \subseteq Links(k) \union {m}
    BY <2>2, <2>3 DEF Links
  <2>6. \A x \in Kinds \ {k} : Links(x)' = Links(x)
    BY <2>2, <2>3 DEF Links
  <2> QED
    BY <1>1, <2>2, <2>4, <2>5, <2>6, NewLink
<1>3. ASSUME NEW k \in Kinds, NEW m \in Modules, Prepend(k, m) PROVE ListsOK' /\ Acyclic'
  <2>1. included \in [Kinds -> Seq(Modules)] /\ prepended \in [Kinds -> Seq(Modules)]
        /\ extended \in [Kinds -> Seq(Modules)]
    BY <1>1 DEF ListsOK
  <2>2. prepended' = [prepended EXCEPT ![k] = <<m>> \o @] /\ included' = included /\ extended' = extended
        /\ k \notin Reaches(m)
    BY <1>3 DEF Prepend
  <2>3. /\ prepended' \in [Kinds -> Seq(Modules)] /\ ToSet(prepended'[k]) = ToSet(prepended[k]) \union {m}
        /\ \A x \in Kinds \ {k} : prepended'[x] = prepended[x]
    <3>1. PICK t : t = prepended
      OBVIOUS
    <3> QED
      BY <2>1, <2>2, <3>1, ListGrown
  <2>4. ListsOK'
    BY <2>1, <2>2, <2>3 DEF ListsOK
  <2>5. Links(k)' \subseteq Links(k) \union {m}
    BY <2>2, <2>3 DEF Links
  <2>6. \A x \in Kinds \ {k} : Links(x)' = Links(x)
    BY <2>2, <2>3 DEF Links
  <2> QED
    BY <1>1, <2>2, <2>4, <2>5, <2>6, NewLink
<1>4. ASSUME NEW k \in Kinds, NEW m \in Modules, ExtendClass(k, m) PROVE ListsOK' /\ Acyclic'
  <2>1. extended \in [Kinds -> Seq(Modules)]
    BY <1>1 DEF ListsOK
  <2>2. extended' = [extended EXCEPT ![k] = <<m>> \o @] /\ included' = included /\ prepended' = prepended
    BY <1>4 DEF ExtendClass
  <2>3. extended' \in [Kinds -> Seq(Modules)]
    <3>1. PICK t : t = extended
      OBVIOUS
    <3> QED
      BY <2>1, <2>2, <3>1, ListGrown
  <2>4. ListsOK'
    BY <1>1, <2>2, <2>3 DEF ListsOK
  <2>5. Graph' = Graph
    <3>1. \A x \in Kinds : Links(x)' = Links(x)
      BY <2>2 DEF Links
    <3> QED
      BY <3>1 DEF Graph
  <2> QED
    BY <1>1, <2>4, <2>5 DEF Acyclic
<1>5. ASSUME \/ \E k \in Kinds : OpenClass(k)
             \/ OpenSingleton \/ CloseBody \/ LeaveBody
             \/ \E v \in Visibilities \union {"module_function"} : SetMode(v)
      PROVE UNCHANGED lists
  BY <1>5 DEF OpenClass, OpenSingleton, CloseBody, LeaveBody, SetMode, lists
<1>6. ASSUME \/ \E n \in Defined : Def(n) \/ DefTop(n) \/ ModuleFunction(n) \/ DefSingleton(n)
             \/ \E k \in Kinds, n \in Defined : DefSelf(k, n) \/ RemoveMethod(k, n) \/ UndefMethod(k, n)
      PROVE UNCHANGED lists
  BY <1>6 DEF Def, DefTop, ModuleFunction, DefSingleton, DefSelf, RemoveMethod, UndefMethod, lists
<1>7. ASSUME \/ \E n \in Names, v \in Visibilities : SetVisibility(n, v) \/ SetClassVisibility(n, v)
             \/ \E new \in Aliases, old \in Defined : Alias(new, old) \/ AliasClassMethod(new, old)
             \/ \E m \in Modules : ExtendObject(m)
      PROVE UNCHANGED lists
  BY <1>7 DEF SetVisibility, SetClassVisibility, Alias, AliasClassMethod, ExtendObject, lists
<1>8. (\E k \in Kinds, m \in Modules : Include(k, m) \/ Prepend(k, m) \/ ExtendClass(k, m)) \/ UNCHANGED lists
  BY <1>5, <1>6, <1>7 DEF Next
<1> QED
  BY <1>1, <1>2, <1>3, <1>4, <1>8, SameLists

LEMMA TableSet ==
  ASSUME NEW t \in Tables, NEW k \in Kinds, NEW n \in Names, NEW v \in Entries
  PROVE [t EXCEPT ![k][n] = v] \in Tables
<1>1. PICK r : r = [t[k] EXCEPT ![n] = v]
  OBVIOUS
<1>2. r \in [Names -> Entries]
  BY <1>1 DEF Tables
<1>3. [t EXCEPT ![k][n] = v] = [t EXCEPT ![k] = r]
  BY <1>1 DEF Tables
<1> QED
  BY <1>2, <1>3 DEF Tables

LEMMA TableRenewed ==
  ASSUME NEW t \in Tables, NEW k \in Kinds, NEW n \in Names, NEW v \in Visibilities
  PROVE [t EXCEPT ![k] = Renewed(@, n, v)] \in Tables
<1>1. PICK r : r = Renewed(t[k], n, v)
  OBVIOUS
<1>2. v \in Entries
  BY DEF Entries
<1>3. r \in [Names -> Entries]
  BY <1>1, <1>2 DEF Tables, Renewed
<1>4. [t EXCEPT ![k] = Renewed(@, n, v)] = [t EXCEPT ![k] = r]
  BY <1>1 DEF Tables
<1> QED
  BY <1>3, <1>4 DEF Tables

LEMMA HereFacts ==
  ASSUME BodiesOK, InBody
  PROVE Here \in Bodies /\ Here.of \in Kinds /\ mode[Here.of] \in Modes
        /\ Len(bodies) \in 1 .. Len(bodies)
<1>1. bodies # << >> /\ bodies \in Seq(Bodies) /\ mode \in [Kinds -> Modes]
  BY DEF InBody, BodiesOK
<1>2. Len(bodies) \in 1 .. Len(bodies) /\ bodies[Len(bodies)] \in Bodies /\ bodies[Len(bodies)].of \in Kinds
  BY <1>1, BodyFields
<1>3. Here \in Bodies /\ Here.of \in Kinds
  BY <1>2 DEF Here
<1> QED
  BY <1>1, <1>2, <1>3

LEMMA FoundEntry ==
  ASSUME ListsOK, MethodsOK, Acyclic, NEW k \in Kinds, NEW n \in Names, FindInstance(k, n) # NotFound
  PROVE FindInstance(k, n)[1] \in Entries
BY OwnerFacts DEF Entries

LEMMA MethodsStep ==
  ASSUME IInv, Next
  PROVE MethodsOK'
<1>1. ListsOK /\ MethodsOK /\ BodiesOK /\ Acyclic
  BY DEF IInv, TypeOK
<1>2. own \in Tables /\ selfs \in Tables
      /\ single \in [Names -> Visibilities \union {"none"}] /\ top \subseteq Names /\ mixed \in Seq(Modules)
  BY <1>1 DEF MethodsOK
<1>3. /\ Visibilities \subseteq Entries /\ "none" \in Entries /\ "undef" \in Entries /\ "symbol" \in Entries
      /\ "public" \in Visibilities /\ "private" \in Visibilities
      /\ Defined \subseteq Names /\ Aliases \subseteq Names
      /\ \A e : Method(e) => e \in Entries
  BY DEF Entries, Visibilities, Names, Method
<1>4. ASSUME own' \in Tables, selfs' \in Tables, UNCHANGED <<single, mixed, top>> PROVE MethodsOK'
  BY <1>2, <1>4 DEF MethodsOK
<1>5. ASSUME NEW n \in Defined, Def(n) PROVE MethodsOK'
  <2>1. InBody /\ UNCHANGED <<single, mixed, top>>
    BY <1>5 DEF Def
  <2>2. PICK k, g : k = Here.of /\ g = mode[Here.of]
    OBVIOUS
  <2>3. k \in Kinds /\ g \in Modes /\ n \in Names
    BY <1>1, <1>3, <2>1, <2>2, HereFacts
  <2>4. PICK v : v = IF g = "module_function" THEN "private" ELSE g
    OBVIOUS
  <2>5. v \in Entries
    BY <1>3, <2>3, <2>4 DEF Modes
  <2>6. \/ selfs' = [selfs EXCEPT ![k][n] = v] /\ own' = own
        \/ own' = [own EXCEPT ![k][n] = v] /\ (selfs' = selfs \/ selfs' = [selfs EXCEPT ![k][n] = "public"])
    BY <1>5, <2>2, <2>4, Zenon DEF Def, DefIn
  <2>7. own' \in Tables /\ selfs' \in Tables
    BY <1>2, <1>3, <2>3, <2>5, <2>6, TableSet
  <2> QED
    BY <1>4, <2>1, <2>7
<1>6. ASSUME NEW n \in Defined, DefTop(n) \/ DefSingleton(n) PROVE MethodsOK'
  <2>1. own' = own /\ selfs' = selfs /\ mixed' = mixed /\ n \in Names
    BY <1>3, <1>6 DEF DefTop, DefSingleton
  <2>2. (top' = top \union {n} /\ single' = single) \/ (top' = top /\ single' = [single EXCEPT ![n] = "public"])
    BY <1>6 DEF DefTop, DefSingleton
  <2>3. top' \subseteq Names /\ single' \in [Names -> Visibilities \union {"none"}]
    BY <1>2, <1>3, <2>1, <2>2
  <2> QED
    BY <1>2, <2>1, <2>3 DEF MethodsOK
<1>7. ASSUME NEW n \in Defined, ModuleFunction(n) PROVE MethodsOK'
  <2>1. InBody /\ UNCHANGED <<single, mixed, top>> /\ FindInstance(Here.of, n) # NotFound
    BY <1>7 DEF ModuleFunction
  <2>2. PICK k : k = Here.of
    OBVIOUS
  <2>3. k \in Kinds /\ n \in Names
    BY <1>1, <1>3, <2>1, <2>2, HereFacts
  <2>4. PICK e \in Entries : e = FindInstance(k, n)[1]
    BY <1>1, <2>1, <2>2, <2>3, FoundEntry
  <2>5. selfs' = [selfs EXCEPT ![k][n] = e] /\ own' = [own EXCEPT ![k] = Renewed(@, n, "private")]
    BY <1>7, <2>2, <2>4, Zenon DEF ModuleFunction
  <2>6. own' \in Tables /\ selfs' \in Tables
    BY <1>2, <1>3, <2>3, <2>5, TableSet, TableRenewed
  <2> QED
    BY <1>4, <2>1, <2>6
<1>8. ASSUME NEW k \in Kinds, NEW n \in Defined, DefSelf(k, n) \/ RemoveMethod(k, n) \/ UndefMethod(k, n)
      PROVE MethodsOK'
  <2>1. n \in Names /\ UNCHANGED <<single, mixed, top>>
    BY <1>3, <1>8 DEF DefSelf, RemoveMethod, UndefMethod
  <2>2. \/ selfs' = [selfs EXCEPT ![k][n] = "public"] /\ own' = own
        \/ own' = [own EXCEPT ![k][n] = "none"] /\ selfs' = selfs
        \/ own' = [own EXCEPT ![k][n] = "undef"] /\ selfs' = selfs
    BY <1>8 DEF DefSelf, RemoveMethod, UndefMethod, DefIn
  <2>3. own' \in Tables /\ selfs' \in Tables
    BY <1>2, <1>3, <2>1, <2>2, TableSet
  <2> QED
    BY <1>4, <2>1, <2>3
<1>9. ASSUME NEW n \in Names, NEW v \in Visibilities, SetVisibility(n, v) \/ SetClassVisibility(n, v)
      PROVE MethodsOK'
  <2>1. InBody /\ UNCHANGED <<single, mixed, top>>
    BY <1>9 DEF SetVisibility, SetClassVisibility
  <2>2. PICK k \in Kinds : k = Here.of
    BY <1>1, <2>1, HereFacts
  <2>3. /\ selfs' = [selfs EXCEPT ![k] = Renewed(@, n, v)]
        /\ own' = own \/ own' = [own EXCEPT ![k] = Renewed(@, n, v)]
    BY <1>9, <2>2, Zenon DEF SetVisibility, SetClassVisibility
  <2>4. \A t \in Tables : [t EXCEPT ![k] = Renewed(@, n, v)] \in Tables
    BY <1>3, TableRenewed
  <2>5. [selfs EXCEPT ![k] = Renewed(@, n, v)] \in Tables /\ [own EXCEPT ![k] = Renewed(@, n, v)] \in Tables
    BY <1>2, <2>4
  <2>6. own' \in Tables /\ selfs' \in Tables
    BY <1>2, <2>3, <2>5, Zenon
  <2> QED
    BY <1>4, <2>1, <2>6
<1>10. ASSUME NEW new \in Aliases, NEW old \in Defined, Alias(new, old) PROVE MethodsOK'
  <2>1. InBody /\ UNCHANGED <<selfs, single, mixed, top>> /\ FindInstance(Here.of, old) # NotFound
    BY <1>10 DEF Alias
  <2>2. PICK k \in Kinds : k = Here.of
    BY <1>1, <2>1, HereFacts
  <2>3. new \in Names /\ old \in Names
    BY <1>3
  <2>4. PICK e \in Entries : e = FindInstance(k, old)[1]
    BY <1>1, <2>1, <2>2, <2>3, FoundEntry
  <2>5. own' = [own EXCEPT ![k][new] = e]
    BY <1>10, <2>2, <2>4, Zenon DEF Alias, DefIn
  <2>6. own' \in Tables /\ selfs' \in Tables
    BY <1>2, <2>1, <2>3, <2>5, TableSet
  <2> QED
    BY <1>4, <2>1, <2>6
<1>11. ASSUME NEW new \in Aliases, NEW old \in Defined, AliasClassMethod(new, old) PROVE MethodsOK'
  <2>1. InBody /\ UNCHANGED <<own, single, mixed, top>>
    BY <1>11 DEF AliasClassMethod
  <2>2. PICK k \in Kinds : k = Here.of
    BY <1>1, <2>1, HereFacts
  <2>3. new \in Names
    BY <1>3
  <2>4. PICK e : e = ScopeGetSelf(k, old)
    OBVIOUS
  <2>5. (Method(e) /\ selfs' = [selfs EXCEPT ![k][new] = e]) \/ selfs' = [selfs EXCEPT ![k][new] = "symbol"]
    BY <1>11, <2>2, <2>4, Zenon DEF AliasClassMethod, DefIn
  <2>6. own' \in Tables /\ selfs' \in Tables
    BY <1>2, <1>3, <2>1, <2>3, <2>5, TableSet
  <2> QED
    BY <1>4, <2>1, <2>6
<1>12. ASSUME NEW m \in Modules, ExtendObject(m) PROVE MethodsOK'
  <2>1. own' = own /\ selfs' = selfs /\ top' = top /\ mixed' = <<m>> \o mixed
        /\ single' = [n \in Names |-> IF Method(own[m][n]) THEN own[m][n] ELSE single[n]]
    BY <1>12 DEF ExtendObject
  <2>2. mixed' \in Seq(Modules)
    BY <1>2, <2>1, FrontSet
  <2>3. single' \in [Names -> Visibilities \union {"none"}]
    BY <1>2, <2>1 DEF Method
  <2> QED
    BY <1>2, <2>1, <2>2, <2>3 DEF MethodsOK
<1>13. ASSUME UNCHANGED <<own, selfs, single, mixed, top>> PROVE MethodsOK'
  BY <1>2, <1>13 DEF MethodsOK
<1>14. ASSUME \/ \E k \in Kinds : OpenClass(k)
              \/ OpenSingleton \/ CloseBody \/ LeaveBody
              \/ \E v \in Visibilities \union {"module_function"} : SetMode(v)
              \/ \E k \in Kinds, m \in Modules : Include(k, m) \/ Prepend(k, m) \/ ExtendClass(k, m)
       PROVE UNCHANGED <<own, selfs, single, mixed, top>>
  BY <1>14 DEF OpenClass, OpenSingleton, CloseBody, LeaveBody, SetMode, Include, Prepend, ExtendClass
<1> QED
  BY <1>5, <1>6, <1>7, <1>8, <1>9, <1>10, <1>11, <1>12, <1>13, <1>14 DEF Next

LEMMA FrontFacts ==
  ASSUME NEW bs \in Seq(Bodies), bs # << >>
  PROVE /\ Front(bs) \in Seq(Bodies) /\ Len(Front(bs)) = Len(bs) - 1
        /\ \A i \in 1 .. Len(bs) - 1 : Front(bs)[i] = bs[i]
<1>1. PICK n, s : n = Len(bs) - 1 /\ s = SubSeq(bs, 1, n)
  OBVIOUS
<1>2. n \in Nat /\ n <= Len(bs)
  BY <1>1
<1>3. s = [i \in 1 .. n |-> bs[i]]
  BY <1>1, <1>2
<1>4. \A i \in 1 .. n : bs[i] \in Bodies
  BY <1>1, <1>2
<1>5. s \in Seq(Bodies) /\ Len(s) = n /\ \A i \in 1 .. n : s[i] = bs[i]
  BY <1>2, <1>3, <1>4
<1> QED
  BY <1>1, <1>5 DEF Front

LEMMA SpoilFacts ==
  ASSUME NEW bs \in Seq(Bodies), NEW k
  PROVE /\ Spoil(bs, k) \in Seq(Bodies) /\ Len(Spoil(bs, k)) = Len(bs)
        /\ \A i \in 1 .. Len(bs) : LET b == bs[i]
                                       c == Spoil(bs, k)[i]
                                   IN  /\ c.of = b.of /\ c.kind = b.kind /\ c.vis = b.vis
                                       /\ c.wasTarget = b.wasTarget /\ c.wasMode = b.wasMode
                                       /\ (c.spoilt <=> b.spoilt \/ b.of = k)
<1>1. PICK n, s : n = Len(bs) /\ s = Spoil(bs, k)
  OBVIOUS
<1>2. s = [i \in 1 .. n |-> [bs[i] EXCEPT !.spoilt = bs[i].spoilt \/ bs[i].of = k]]
  BY <1>1 DEF Spoil
<1>3. ASSUME NEW i \in 1 .. n
      PROVE /\ s[i] \in Bodies
            /\ s[i].of = bs[i].of /\ s[i].kind = bs[i].kind /\ s[i].vis = bs[i].vis
            /\ s[i].wasTarget = bs[i].wasTarget /\ s[i].wasMode = bs[i].wasMode
            /\ (s[i].spoilt <=> bs[i].spoilt \/ bs[i].of = k)
  <2>1. PICK b, v : b = bs[i] /\ v = (bs[i].spoilt \/ bs[i].of = k)
    OBVIOUS
  <2>2. b \in Bodies /\ v \in BOOLEAN
    BY <1>1, <2>1, BodyFields
  <2>3. s[i] = [b EXCEPT !.spoilt = v]
    BY <1>2, <2>1
  <2>4. PICK c : c = [b EXCEPT !.spoilt = v]
    OBVIOUS
  <2>5. c \in Bodies /\ c.of = b.of /\ c.kind = b.kind /\ c.vis = b.vis
        /\ c.wasTarget = b.wasTarget /\ c.wasMode = b.wasMode /\ c.spoilt = v
    BY <2>2, <2>4 DEF Bodies
  <2> QED
    BY <2>1, <2>3, <2>4, <2>5
<1>4. n \in Nat /\ DOMAIN s = 1 .. n
  BY <1>1, <1>2
<1>5. s \in Seq(Bodies) /\ Len(s) = n
  BY <1>2, <1>3, <1>4
<1> QED
  BY <1>1, <1>3, <1>5

LEMMA BodiesStep ==
  ASSUME IInv, Next
  PROVE BodiesOK' /\ Kept(bodies, target, mode)'
<1>1. PICK bs, t, m : bs = bodies /\ t = target /\ m = mode
  OBVIOUS
<1>2. bs \in Seq(Bodies) /\ t \in [Kinds -> BOOLEAN] /\ m \in [Kinds -> Modes] /\ Kept(bs, t, m)
  BY <1>1 DEF IInv, TypeOK, BodiesOK
<1>3. BodiesOK
  BY DEF IInv, TypeOK
<1>4. PICK n : n = Len(bs)
  OBVIOUS
<1>5. ASSUME InBody
      PROVE bs # << >> /\ Here = bs[n] /\ n \in 1 .. n /\ bs[n] \in Bodies /\ bs[n].of \in Kinds
  BY <1>1, <1>2, <1>3, <1>4, <1>5, HereFacts DEF InBody, Here
<1>6. ASSUME bodies' \in Seq(Bodies), target' \in [Kinds -> BOOLEAN], mode' \in [Kinds -> Modes],
             Kept(bodies', target', mode')
      PROVE BodiesOK' /\ Kept(bodies, target, mode)'
  BY <1>6 DEF BodiesOK
<1>7. \A v \in Visibilities \union {"module_function"} : v \in Modes
  BY DEF Modes
<1>8. ASSUME NEW k \in Kinds, NEW kind \in {"class", "singleton"}, NEW was \in BOOLEAN, NEW wasM \in Modes,
             OpenBody(k, kind, was, wasM),
             target' = [target EXCEPT ![k] = (kind = "singleton")], mode' = [mode EXCEPT ![k] = "public"],
             kind = "singleton" => bs # << >> /\ k = bs[n].of /\ was = t[k] /\ wasM = m[k]
      PROVE BodiesOK' /\ Kept(bodies, target, mode)'
  <2>1. PICK b : b = [of |-> k, kind |-> kind, vis |-> "public", spoilt |-> FALSE,
                      wasTarget |-> was, wasMode |-> wasM]
    OBVIOUS
  <2>2. "public" \in Modes
    BY DEF Modes, Visibilities
  <2>3. b \in Bodies /\ b.of = k /\ b.kind = kind /\ b.vis = "public" /\ b.wasTarget = was /\ b.wasMode = wasM
    BY <2>1, <2>2 DEF Bodies
  <2>4. PICK d \in BOOLEAN : d = (kind = "singleton")
    OBVIOUS
  <2>5. PICK u, w : u = [t EXCEPT ![k] = d] /\ w = [m EXCEPT ![k] = "public"]
    OBVIOUS
  <2>6. u \in [Kinds -> BOOLEAN] /\ w \in [Kinds -> Modes] /\ u[k] = d /\ w[k] = "public"
        /\ \A x \in Kinds \ {k} : u[x] = t[x] /\ w[x] = m[x]
    BY <1>2, <2>2, <2>4, <2>5
  <2>7. Says(u, w, b)
    BY <2>3, <2>4, <2>6 DEF Says
  <2>8. Append(bs, b) \in Seq(Bodies) /\ Kept(Append(bs, b), u, w)
    BY <1>2, <1>4, <1>8, <2>3, <2>6, <2>7, OpenedKept
  <2>9. bodies' = Append(bs, b) /\ target' = u /\ mode' = w
    BY <1>1, <1>8, <2>1, <2>4, <2>5 DEF OpenBody
  <2> QED
    BY <1>6, <2>6, <2>8, <2>9
<1>9. ASSUME NEW k \in Kinds, OpenClass(k) PROVE BodiesOK' /\ Kept(bodies, target, mode)'
  <2>1. OpenBody(k, "class", FALSE, "public") /\ target' = [target EXCEPT ![k] = FALSE]
        /\ mode' = [mode EXCEPT ![k] = "public"]
    BY <1>9, Zenon DEF OpenClass
  <2>2. ("class" = "singleton") = FALSE /\ "public" \in Modes
    BY DEF Modes, Visibilities
  <2>3. target' = [target EXCEPT ![k] = ("class" = "singleton")]
    BY <2>1, <2>2
  <2> QED
    BY <1>8, <2>1, <2>2, <2>3
<1>10. ASSUME OpenSingleton PROVE BodiesOK' /\ Kept(bodies, target, mode)'
  <2>1. InBody /\ OpenBody(Here.of, "singleton", target[Here.of], mode[Here.of])
        /\ target' = [target EXCEPT ![Here.of] = TRUE] /\ mode' = [mode EXCEPT ![Here.of] = "public"]
    BY <1>10, Zenon DEF OpenSingleton
  <2>2. PICK k, was, wasM : k = Here.of /\ was = target[Here.of] /\ wasM = mode[Here.of]
    OBVIOUS
  <2>3. bs # << >> /\ k = bs[n].of /\ k \in Kinds
    BY <1>5, <2>1, <2>2
  <2>4. was = t[k] /\ wasM = m[k]
    BY <1>1, <2>2
  <2>5. was \in BOOLEAN /\ wasM \in Modes
    BY <1>2, <2>3, <2>4
  <2>6. OpenBody(k, "singleton", was, wasM) /\ target' = [target EXCEPT ![k] = TRUE]
        /\ mode' = [mode EXCEPT ![k] = "public"]
    BY <2>1, <2>2
  <2>7. target' = [target EXCEPT ![k] = ("singleton" = "singleton")]
    BY <2>6
  <2> QED
    BY <1>8, <2>3, <2>4, <2>5, <2>6, <2>7
\* The last body goes.
<1>11. ASSUME InBody, NEW c \in Seq(Bodies), bodies' = c, Carries(c, bs),
              \/ /\ bs[n].kind = "singleton" /\ target' = [target EXCEPT ![bs[n].of] = bs[n].wasTarget]
                 /\ mode' = [mode EXCEPT ![bs[n].of] = bs[n].wasMode]
              \/ UNCHANGED <<target, mode>> /\ Spoils(c, bs, bs[n].of)
       PROVE BodiesOK' /\ Kept(bodies, target, mode)'
  <2>1. PICK b : b = bs[n]
    OBVIOUS
  <2>2. b \in Bodies /\ bs # << >> /\ b.of \in Kinds /\ b.wasTarget \in BOOLEAN /\ b.wasMode \in Modes
    BY <1>2, <1>4, <1>5, <1>11, <2>1, BodyFields
  <2>3. PICK k, was, wasM : k = b.of /\ was = b.wasTarget /\ wasM = b.wasMode
    OBVIOUS
  <2>4. CASE b.kind = "singleton" /\ target' = [target EXCEPT ![b.of] = b.wasTarget]
             /\ mode' = [mode EXCEPT ![b.of] = b.wasMode]
    <3>1. PICK u, w : u = [t EXCEPT ![k] = was] /\ w = [m EXCEPT ![k] = wasM]
      OBVIOUS
    <3>2. u \in [Kinds -> BOOLEAN] /\ w \in [Kinds -> Modes] /\ u[k] = was /\ w[k] = wasM
          /\ \A x \in Kinds \ {k} : u[x] = t[x] /\ w[x] = m[x]
      BY <1>2, <2>2, <2>3, <3>1
    <3>3. target' = u /\ mode' = w
      BY <1>1, <2>3, <2>4, <3>1
    <3>4. PutsBack(b, u, w)
      BY <2>3, <2>4, <3>2 DEF PutsBack
    <3>5. Differs(b.of, t, m, u, w)
      BY <2>3, <3>2 DEF Differs
    <3>6. b = bs[Len(bs)] /\ Carries(c, bs)
      BY <1>4, <1>11, <2>1
    <3>7. u \in [Kinds -> BOOLEAN] /\ w \in [Kinds -> Modes]
      BY <3>2
    <3>8. Kept(c, u, w)
      BY <1>2, <2>2, <3>4, <3>5, <3>6, <3>7, LeftKept
    <3> QED
      BY <1>6, <1>11, <3>2, <3>3, <3>8
  <2>5. CASE UNCHANGED <<target, mode>> /\ Spoils(c, bs, b.of)
    <3>1. Differs(b.of, t, m, t, m)
      BY DEF Differs
    <3>2. b = bs[Len(bs)] /\ Carries(c, bs)
      BY <1>4, <1>11, <2>1
    <3>3. Kept(c, t, m)
      BY <1>2, <2>2, <2>5, <3>1, <3>2, LeftKept
    <3> QED
      BY <1>1, <1>2, <1>6, <1>11, <2>5, <3>3
  <2> QED
    BY <1>11, <2>1, <2>4, <2>5
<1>12. ASSUME InBody
       PROVE /\ Front(bs) \in Seq(Bodies) /\ Len(Front(bs)) = n - 1 /\ \A i \in 1 .. n - 1 : Front(bs)[i] = bs[i]
  BY <1>2, <1>4, <1>5, <1>12, FrontFacts
<1>13. ASSUME InBody, bodies' = Spoil(Front(bodies), Here.of), UNCHANGED <<target, mode>>
       PROVE BodiesOK' /\ Kept(bodies, target, mode)'
  <2>1. PICK f, k, c : f = Front(bs) /\ k = bs[n].of /\ c = Spoil(f, k)
    OBVIOUS
  <2>2. f \in Seq(Bodies) /\ Len(f) = n - 1 /\ \A i \in 1 .. n - 1 : f[i] = bs[i]
    BY <1>12, <1>13, <2>1
  <2>3. bodies' = c
    BY <1>1, <1>5, <1>13, <2>1
  <2>4. /\ c \in Seq(Bodies) /\ Len(c) = n - 1
        /\ \A i \in 1 .. n - 1 : /\ c[i].of = f[i].of /\ c[i].kind = f[i].kind /\ c[i].vis = f[i].vis
                                 /\ c[i].wasTarget = f[i].wasTarget /\ c[i].wasMode = f[i].wasMode
                                 /\ (c[i].spoilt <=> f[i].spoilt \/ f[i].of = k)
    BY <2>1, <2>2, SpoilFacts
  <2>5. ASSUME NEW i \in 1 .. n - 1
        PROVE /\ c[i].of = bs[i].of /\ c[i].kind = bs[i].kind /\ c[i].vis = bs[i].vis
              /\ c[i].wasTarget = bs[i].wasTarget /\ c[i].wasMode = bs[i].wasMode
              /\ (c[i].spoilt <=> bs[i].spoilt \/ bs[i].of = k)
    BY <2>2, <2>4
  <2>6. Carries(c, bs) /\ Spoils(c, bs, bs[n].of)
    BY <1>4, <2>1, <2>4, <2>5 DEF Carries, Spoils
  <2> QED
    BY <1>11, <1>13, <2>3, <2>4, <2>6
<1>14. ASSUME CloseBody PROVE BodiesOK' /\ Kept(bodies, target, mode)'
  <2>1. InBody
    BY <1>14 DEF CloseBody
  <2>2. CASE Here.kind = "singleton"
    <3>1. /\ bodies' = Front(bs) /\ target' = [target EXCEPT ![bs[n].of] = bs[n].wasTarget]
          /\ mode' = [mode EXCEPT ![bs[n].of] = bs[n].wasMode] /\ bs[n].kind = "singleton"
      BY <1>1, <1>5, <1>14, <2>1, <2>2 DEF CloseBody, Restore
    <3>2. PICK f : f = Front(bs)
      OBVIOUS
    <3>3. f \in Seq(Bodies) /\ Len(f) = n - 1 /\ \A i \in 1 .. n - 1 : f[i] = bs[i]
      BY <1>12, <2>1, <3>2
    <3>4. Carries(f, bs)
      BY <1>4, <3>3 DEF Carries
    <3> QED
      BY <1>11, <2>1, <3>1, <3>2, <3>3, <3>4
  <2>3. CASE Here.kind # "singleton"
    BY <1>13, <1>14, <2>1, <2>3 DEF CloseBody
  <2> QED
    BY <2>2, <2>3
<1>15. ASSUME LeaveBody PROVE BodiesOK' /\ Kept(bodies, target, mode)'
  BY <1>13, <1>15 DEF LeaveBody
<1>16. ASSUME NEW v \in Visibilities \union {"module_function"}, SetMode(v)
       PROVE BodiesOK' /\ Kept(bodies, target, mode)'
  <2>1. InBody /\ target' = target /\ mode' = [mode EXCEPT ![Here.of] = v] /\ bodies' = SetTop("vis", v)
    BY <1>16 DEF SetMode
  <2>2. PICK k : k = bs[n].of
    OBVIOUS
  <2>3. bs # << >> /\ k \in Kinds /\ Here.of = k /\ v \in Modes
    BY <1>5, <1>7, <2>1, <2>2
  <2>4. PICK w : w = [m EXCEPT ![k] = v]
    OBVIOUS
  <2>5. w \in [Kinds -> Modes] /\ w[k] = v /\ \A x \in Kinds \ {k} : w[x] = m[x]
    BY <1>2, <2>3, <2>4
  <2>6. mode' = w
    BY <1>1, <2>1, <2>3, <2>4
  <2>7. PICK c : c = [bs EXCEPT ![n]["vis"] = v]
    OBVIOUS
  <2>8. bodies' = c
    BY <1>1, <1>4, <2>1, <2>7 DEF SetTop
  <2>9. c \in Seq(Bodies) /\ Kept(c, t, w)
    <3>1. PICK b : b = bs[Len(bs)]
      OBVIOUS
    <3>2. b.of = k /\ w[b.of] = v
      BY <1>4, <2>2, <2>5, <3>1
    <3>3. Differs(b.of, t, m, t, w)
      BY <2>5, <3>2 DEF Differs
    <3>4. c = [bs EXCEPT ![Len(bs)]["vis"] = v] /\ bs # << >> /\ v \in Modes /\ w \in [Kinds -> Modes]
      BY <1>4, <2>3, <2>5, <2>7
    <3> QED
      BY <1>2, <3>1, <3>2, <3>3, <3>4, SetKept
  <2> QED
    BY <1>1, <1>2, <1>6, <2>1, <2>5, <2>6, <2>8, <2>9
<1>17. ASSUME UNCHANGED bodyVars PROVE BodiesOK' /\ Kept(bodies, target, mode)'
  BY <1>1, <1>2, <1>6, <1>17 DEF bodyVars
<1>18. ASSUME \/ \E l \in Defined : Def(l) \/ DefTop(l) \/ ModuleFunction(l) \/ DefSingleton(l)
              \/ \E k \in Kinds, l \in Defined : DefSelf(k, l) \/ RemoveMethod(k, l) \/ UndefMethod(k, l)
              \/ \E k \in Kinds, l \in Modules : Include(k, l) \/ Prepend(k, l) \/ ExtendClass(k, l)
       PROVE UNCHANGED bodyVars
  BY <1>18 DEF Def, DefTop, ModuleFunction, DefSingleton, DefSelf, RemoveMethod, UndefMethod,
               Include, Prepend, ExtendClass
<1>19. ASSUME \/ \E l \in Names, v \in Visibilities : SetVisibility(l, v) \/ SetClassVisibility(l, v)
              \/ \E new \in Aliases, old \in Defined : Alias(new, old) \/ AliasClassMethod(new, old)
              \/ \E l \in Modules : ExtendObject(l)
       PROVE UNCHANGED bodyVars
  BY <1>19 DEF SetVisibility, SetClassVisibility, Alias, AliasClassMethod, ExtendObject
<1> QED
  BY <1>9, <1>10, <1>14, <1>15, <1>16, <1>17, <1>18, <1>19 DEF Next

LEMMA InitInv == Init => IInv
<1> SUFFICES ASSUME Init PROVE IInv
  OBVIOUS
<1>1. NoMethods \in [Names -> Entries] /\ NoMethods \in [Names -> Visibilities \union {"none"}]
      /\ "public" \in Modes
  BY DEF NoMethods, Entries, Modes, Visibilities
<1>2. ListsOK
  BY DEF Init, ListsOK
<1>3. MethodsOK
  BY <1>1 DEF Init, MethodsOK, Tables
<1>4. BodiesOK /\ bodies = << >>
  BY <1>1 DEF Init, BodiesOK
<1>5. Kept(bodies, target, mode)
  <2>1. 1 .. Len(<< >>) = {}
    OBVIOUS
  <2> QED
    BY <1>4, <2>1 DEF Kept
<1>6. Graph = Up
  <2>1. ToSet(<< >>) = {}
    BY DEF ToSet
  <2>2. \A x \in Kinds : included[x] = << >> /\ prepended[x] = << >>
    BY DEF Init
  <2>3. \A x \in Kinds : Links(x) = IF Above(x) = Nil THEN {} ELSE {Above(x)}
    BY <2>1, <2>2 DEF Links
  <2> QED
    BY <2>3 DEF Graph, Up
<1>7. Acyclic
  BY <1>6, UpLinked DEF Acyclic
<1> QED
  BY <1>2, <1>3, <1>4, <1>5, <1>7 DEF IInv, TypeOK

LEMMA StepInv == IInv /\ [Next]_vars => IInv'
<1>1. IInv /\ Next => IInv'
  BY ListsStep, MethodsStep, BodiesStep DEF IInv, TypeOK
<1>2. ASSUME IInv, UNCHANGED vars PROVE IInv'
  <2>1. ListsOK /\ MethodsOK /\ BodiesOK /\ Acyclic /\ Kept(bodies, target, mode)
    BY <1>2 DEF IInv, TypeOK
  <2>2. ListsOK' /\ Acyclic'
    BY <1>2, <2>1, SameLists DEF vars, lists
  <2>3. MethodsOK'
    BY <1>2, <2>1 DEF vars, MethodsOK
  <2>4. BodiesOK' /\ Kept(bodies, target, mode)'
    BY <1>2, <2>1 DEF vars, BodiesOK
  <2> QED
    BY <2>2, <2>3, <2>4 DEF IInv, TypeOK
<1> QED
  BY <1>1, <1>2

\* The last body of all is the last one of its class.
LEMMA ModeLemma == IInv => BodiesKeepTheirMode
<1> SUFFICES ASSUME IInv, InBody, ~Here.spoilt
             PROVE target[Here.of] = (Here.kind = "singleton") /\ mode[Here.of] = Here.vis
  BY DEF BodiesKeepTheirMode
<1>1. PICK n : n = Len(bodies)
  OBVIOUS
<1>2. Here = bodies[n] /\ n \in 1 .. Len(bodies)
  BY <1>1, HereFacts DEF IInv, TypeOK, Here
<1>3. Latest(bodies, n)
  BY <1>1, <1>2 DEF Latest
<1>4. Says(target, mode, bodies[n])
  BY <1>2, <1>3 DEF IInv, Kept
<1> QED
  BY <1>2, <1>4 DEF Says

(***************************************************************************)
(* Reflection.                                                             *)
(***************************************************************************)
LEMMA RespondLemma ==
  ASSUME ListsOK, MethodsOK, Acyclic
  PROVE RespondToHonest
<1> SUFFICES ASSUME NEW n \in Names, single[n] # "protected"
             PROVE /\ RespondTo(n, FALSE) <=> Dispatch(n, Nil, "explicit") # NoMethodError
                   /\ RespondTo(n, FALSE) <=> PublicSend(n) # NoMethodError
                   /\ \A k \in Classes : RespondToClass(k, n) <=> DispatchClass(k, n, FALSE) # NoMethodError
  BY DEF RespondToHonest
<1>1. PICK s, found, a : s = single[n] /\ found = FindInstance(ObjClass, n) /\ a = found[1]
  OBVIOUS
<1>2. s \in {"public", "private", "none"} /\ ObjClass \in Classes /\ ObjClass \in Kinds
  BY <1>1, LookupAssumption DEF MethodsOK, Kinds, Visibilities
<1>3. /\ found # NotFound => a \in Visibilities \union {"undef"}
      /\ found = NotFound => a = "none"
  <2>1. found # NotFound => found[1] \in Visibilities \union {"undef"}
    BY <1>1, <1>2, OwnerFacts
  <2>2. NotFound[1] = "none"
    BY DEF NotFound
  <2> QED
    BY <1>1, <2>1, <2>2
<1>4. NoMethodError[1] = "NoMethodError"
  BY DEF NoMethodError
<1>5. Self # Nil
  BY LookupAssumption DEF Self
<1>6. \A v, o : \A how \in {"explicit", "public_send"} : Allows(v, o, Nil, how) <=> v = "public"
  BY <1>5 DEF Allows
<1>7. \A how :
         Dispatch(n, Nil, how) =
            IF Method(s) /\ Allows(s, ObjClass, Nil, how) THEN <<s, Self>>
            ELSE IF Method(s) /\ s = "protected" THEN NoMethodError
            ELSE IF found # NotFound
                 THEN IF Method(a) /\ Allows(a, found[2], Nil, how)
                      THEN found ELSE NoMethodError
            ELSE NoMethodError
  BY <1>1, Zenon DEF Dispatch
<1>8. <<s, Self>> # NoMethodError /\ (a = "public" => found # NoMethodError)
  <2>1. PICK p : p = <<s, Self>>
    OBVIOUS
  <2>2. p[1] = s
    BY <2>1
  <2> QED
    BY <1>1, <1>2, <1>4, <2>1, <2>2
<1>9. ASSUME NEW how \in {"explicit", "public_send"}
      PROVE Dispatch(n, Nil, how) # NoMethodError <=> s = "public" \/ a = "public"
  <2>1. CASE s = "public"
    <3>1. Method(s) /\ Allows(s, ObjClass, Nil, how)
      BY <1>6, <2>1 DEF Method, Visibilities
    <3> QED
      BY <1>7, <1>8, <2>1, <3>1
  <2>2. CASE s # "public"
    <3>1. ~Allows(s, ObjClass, Nil, how) /\ s # "protected"
      BY <1>2, <1>6, <2>2
    <3>2. a = "public" => found # NotFound /\ Method(a)
      BY <1>3 DEF Method, Visibilities
    <3>3. Allows(a, found[2], Nil, how) <=> a = "public"
      BY <1>6
    <3>4. Dispatch(n, Nil, how) = IF a = "public" THEN found ELSE NoMethodError
      BY <1>7, <3>1, <3>2, <3>3
    <3> QED
      BY <1>8, <2>2, <3>4
  <2> QED
    BY <2>1, <2>2
<1>10. /\ RespondTo(n, FALSE) <=> s = "public" \/ a = "public"
       /\ RespondTo(n, TRUE) <=> s = "public" \/ Method(s) \/ a = "public" \/ Method(a)
  BY <1>1 DEF RespondTo
<1>11. PublicSend(n) # NoMethodError <=> s = "public" \/ a = "public"
  <2>1. PublicSend(n) = IF ~RespondTo(n, FALSE) /\ RespondTo(n, TRUE) THEN NoMethodError
                        ELSE Dispatch(n, Nil, "public_send")
    BY DEF PublicSend
  <2> QED
    BY <1>9, <1>10, <2>1
<1>12. ASSUME NEW k \in Classes PROVE RespondToClass(k, n) <=> DispatchClass(k, n, FALSE) # NoMethodError
  <2>1. PICK hit : hit = FindClassMethod(k, n)
    OBVIOUS
  <2>2. DispatchClass(k, n, FALSE) = IF hit[1] = "public" THEN hit ELSE NoMethodError
    BY <2>1 DEF DispatchClass
  <2>3. RespondToClass(k, n) <=> hit[1] = "public"
    BY <2>1 DEF RespondToClass
  <2>4. hit[1] = "public" => hit # NoMethodError
    BY <1>4
  <2> QED
    BY <2>2, <2>3, <2>4
<1> QED
  BY <1>9, <1>10, <1>11, <1>12

\* The modules x was given.
Given(x) == ToSet(included[x] \o prepended[x])

LEMMA GivenFacts ==
  ASSUME ListsOK, NEW x \in Kinds
  PROVE /\ Given(x) = ToSet(included[x]) \union ToSet(prepended[x]) /\ Given(x) \subseteq Modules
        /\ Links(x) = Given(x) \union (IF Above(x) = Nil THEN {} ELSE {Above(x)})
        /\ Above(x) = Nil => Links(x) = Given(x)
        /\ \A m : Contains(included[x] \o prepended[x], m) <=> m \in Given(x)
        /\ prepended[x] = << >> => Given(x) = ToSet(included[x])
        /\ included[x] \o prepended[x] = << >> => Given(x) = {}
<1>1. PICK i, p, j : i = included[x] /\ p = prepended[x] /\ j = i \o p
  OBVIOUS
<1>2. i \in Seq(Modules) /\ p \in Seq(Modules)
  BY <1>1 DEF ListsOK
<1>3. j \in Seq(Modules) /\ ToSet(j) = ToSet(i) \union ToSet(p)
  BY <1>1, <1>2, JoinedSets
<1>4. ToSet(j) \subseteq Modules /\ \A m : Contains(j, m) <=> m \in ToSet(j)
  BY <1>3, InSequence
<1>5. Given(x) = ToSet(j)
  BY <1>1 DEF Given
<1>6. ToSet(<< >>) = {}
  BY DEF ToSet
<1>7. Links(x) = Given(x) \union (IF Above(x) = Nil THEN {} ELSE {Above(x)})
  BY <1>1, <1>3, <1>5 DEF Links
<1>8. Above(x) = Nil => Links(x) = Given(x)
  <2> SUFFICES ASSUME Above(x) = Nil PROVE Links(x) = Given(x)
    OBVIOUS
  <2>1. (IF Above(x) = Nil THEN {} ELSE {Above(x)}) = {}
    OBVIOUS
  <2> QED
    BY <1>7, <2>1
<1> QED
  BY <1>1, <1>3, <1>4, <1>5, <1>6, <1>7, <1>8

\* ThroughIncludes(ms) is the least set around ms closed under `included`.
LEMMA ThroughIncludesFacts ==
  ASSUME ListsOK, NEW ms, ms \subseteq Modules
  PROVE /\ ms \subseteq ThroughIncludes(ms) /\ ThroughIncludes(ms) \subseteq Modules
        /\ \A x \in ThroughIncludes(ms) : ToSet(included[x]) \subseteq ThroughIncludes(ms)
        /\ \A S \in SUBSET Modules : ms \subseteq S /\ (\A x \in S : ToSet(included[x]) \subseteq S)
               => ThroughIncludes(ms) \subseteq S
<1>1. \A m : m \in ThroughIncludes(ms) <=>
                m \in Modules /\ \A S \in SUBSET Modules :
                    ms \subseteq S /\ (\A x \in S : ToSet(included[x]) \subseteq S) => m \in S
  BY DEF ThroughIncludes
<1>2. ASSUME NEW x \in ThroughIncludes(ms), NEW y \in ToSet(included[x]) PROVE y \in ThroughIncludes(ms)
  <2>1. x \in Modules /\ x \in Kinds
    BY <1>1, <1>2 DEF Kinds
  <2>2. y \in Modules
    BY <2>1, LinksFacts
  <2>3. ASSUME NEW S \in SUBSET Modules, ms \subseteq S, \A z \in S : ToSet(included[z]) \subseteq S
        PROVE y \in S
    <3>1. x \in S
      BY <1>1, <1>2, <2>3
    <3> QED
      BY <2>3, <3>1
  <2> QED
    BY <1>1, <2>2, <2>3
<1>3. \A S \in SUBSET Modules : ms \subseteq S /\ (\A x \in S : ToSet(included[x]) \subseteq S)
               => ThroughIncludes(ms) \subseteq S
  BY <1>1
<1> QED
  BY <1>1, <1>2, <1>3

\* A class has classes above it.
LEMMA ClassLine ==
  ASSUME NEW k \in Classes
  PROVE ToSet(Line(k)) \subseteq Classes /\ k \in Kinds
<1>1. k \in Kinds
  BY DEF Kinds
<1>2. \A x \in Classes \cap Kinds : Above(x) # Nil => Above(x) \in Classes
  BY AboveFacts
<1>3. PICK C : C = Classes
  OBVIOUS
<1>4. ToSet(Line(k)) \subseteq C
  BY <1>1, <1>2, <1>3, LineFacts
<1> QED
  BY <1>1, <1>3, <1>4

\* The given modules of the line, and what they include, are the modules among
\* the ancestors.
LEMMA IncludedAreAncestors ==
  ASSUME ListsOK, Acyclic, NEW k \in Classes, \A x \in Modules : prepended[x] = << >>, NEW m \in Modules
  PROVE m \in ThroughIncludes(UNION {Given(c) : c \in ToSet(Line(k))}) <=> Contains(Ancestors(k), m)
<1>1. PICK A, L, ms : A = ToSet(Ancestors(k)) /\ L = ToSet(Line(k)) /\ ms = UNION {Given(c) : c \in L}
  OBVIOUS
<1>2. k \in Kinds /\ L \subseteq Classes /\ L \subseteq Kinds /\ k \in L
  BY <1>1, ClassLine, LineFacts
<1>3. \A x \in L : Above(x) # Nil => Above(x) \in L
  BY <1>1, <1>2, LineFacts
<1>4. L \subseteq A /\ A \subseteq Kinds /\ k \in A /\ \A y \in A : Links(y) \subseteq A
  BY <1>1, <1>2, LineInAncestors, AncestorsFacts
<1>5. Contains(Ancestors(k), m) <=> m \in A
  BY <1>1, <1>2, AncestorsFacts
<1>6. ms \subseteq Modules /\ \A c \in L : Given(c) \subseteq ms
  BY <1>1, <1>2, GivenFacts
<1>7. PICK T : T = ThroughIncludes(ms)
  OBVIOUS
<1>8. /\ ms \subseteq T /\ T \subseteq Modules /\ \A x \in T : ToSet(included[x]) \subseteq T
      /\ \A S \in SUBSET Modules : ms \subseteq S /\ (\A x \in S : ToSet(included[x]) \subseteq S) => T \subseteq S
  BY <1>6, <1>7, ThroughIncludesFacts
<1>9. T \subseteq A
  <2>1. PICK S : S = A \cap Modules
    OBVIOUS
  <2>2. ms \subseteq S
    <3>1. \A c \in L : Given(c) \subseteq A
      BY <1>2, <1>4, GivenFacts
    <3> QED
      BY <1>1, <1>6, <2>1, <3>1
  <2>3. \A x \in S : ToSet(included[x]) \subseteq S
    <3>1. \A x \in S : x \in Kinds /\ x \in A
      BY <1>4, <2>1
    <3> QED
      BY <1>4, <2>1, <3>1, LinksFacts
  <2> QED
    BY <1>8, <2>1, <2>2, <2>3
<1>10. A \subseteq L \union T
  <2>1. PICK C : C = L \union T
    OBVIOUS
  <2>2. C \subseteq Kinds /\ k \in C
    BY <1>2, <1>8, <2>1 DEF Kinds
  <2>3. ASSUME NEW x \in C PROVE Graph[x] \subseteq C
    <3>1. x \in Kinds /\ Graph[x] = Links(x)
      BY <2>2, LinksFacts
    <3>2. CASE x \in L
      BY <1>3, <1>6, <1>8, <2>1, <3>1, <3>2, GivenFacts
    <3>3. CASE x \in T
      <4>1. x \in Modules /\ prepended[x] = << >> /\ Above(x) = Nil
        BY <1>8, <3>1, <3>3, AboveFacts
      <4>2. Links(x) = ToSet(included[x])
        <5>1. Given(x) = ToSet(included[x])
          BY <3>1, <4>1, GivenFacts
        <5>2. Links(x) = Given(x)
          BY <3>1, <4>1, GivenFacts
        <5> QED
          BY <5>1, <5>2
      <4> QED
        BY <1>8, <2>1, <3>1, <3>3, <4>2
    <3> QED
      BY <2>1, <3>2, <3>3
  <2>4. Around(C)
    BY <2>2, <2>3 DEF Around, Closed
  <2> QED
    BY <1>1, <1>2, <2>1, <2>2, <2>4, AncestorsFacts
<1>11. m \notin L
  BY <1>2, LookupAssumption
<1> QED
  BY <1>1, <1>5, <1>7, <1>9, <1>10, <1>11

LEMMA ReflectionLemma ==
  ASSUME ListsOK, MethodsOK, Acyclic
  PROVE ReflectionAgrees
<1> SUFFICES ASSUME NEW m \in Modules
             PROVE /\ \A k \in Classes :
                         (\A x \in Modules : prepended[x] = << >>) =>
                            /\ IncludeP(k, m) <=> Contains(Ancestors(k), m)
                            /\ (\A c \in ToSet(Line(k)) : prepended[c] = << >>) =>
                                  (m \in IncludedModules(k) <=> Contains(Ancestors(k), m))
                   /\ IsA(m) => Contains(mixed, m) \/ Contains(Ancestors(ObjClass), m)
                   /\ (\A x \in Modules : included[x] \o prepended[x] = << >>) /\ Contains(Ancestors(ObjClass), m)
                         => IsA(m)
  BY Zenon DEF ReflectionAgrees
<1>1. ASSUME NEW k \in Classes, \A x \in Modules : prepended[x] = << >>
      PROVE /\ IncludeP(k, m) <=> Contains(Ancestors(k), m)
            /\ (\A c \in ToSet(Line(k)) : prepended[c] = << >>) =>
                  (m \in IncludedModules(k) <=> Contains(Ancestors(k), m))
  <2>1. PICK ms : ms = UNION {Given(c) : c \in ToSet(Line(k))}
    OBVIOUS
  <2>2. m \in ThroughIncludes(ms) <=> Contains(Ancestors(k), m)
    BY <1>1, <2>1, IncludedAreAncestors
  <2>3. IncludeP(k, m) <=> m \in ThroughIncludes(ms)
    BY <2>1, Zenon DEF IncludeP, Given
  <2>4. ASSUME \A c \in ToSet(Line(k)) : prepended[c] = << >>
        PROVE m \in IncludedModules(k) <=> m \in ThroughIncludes(ms)
    <3>1. \A c \in ToSet(Line(k)) : Given(c) = ToSet(included[c])
      BY <2>4, ClassLine, GivenFacts DEF Kinds
    <3>2. UNION {ToSet(included[c]) : c \in ToSet(Line(k))} = ms
      BY <2>1, <3>1
    <3> QED
      BY <3>2, Zenon DEF IncludedModules
  <2> QED
    BY <2>2, <2>3, <2>4
<1>2. PICK A, L : A = ToSet(Ancestors(ObjClass)) /\ L = ToSet(Line(ObjClass))
  OBVIOUS
<1>3. ObjClass \in Classes /\ ObjClass \in Kinds /\ L \subseteq Classes /\ L \subseteq Kinds /\ ObjClass \in L
      /\ L \subseteq A /\ A \subseteq Kinds
  BY <1>2, LookupAssumption, ClassLine, LineFacts, LineInAncestors DEF Kinds
<1>4. Contains(Ancestors(ObjClass), m) <=> m \in A
  BY <1>2, <1>3, AncestorsFacts
<1>5. IsA(m) <=> Contains(mixed, m) \/ \E c \in L : m \in Given(c)
  <2>1. PICK s \in Seq(Kinds) : s = Line(ObjClass)
    BY <1>3, LineUnfold
  <2>2. IsA(m) <=> Contains(mixed, m) \/ \E i \in DOMAIN s : DirectlyIn(s[i], m)
    BY <2>1, Zenon DEF IsA
  <2>3. \A c \in L : DirectlyIn(c, m) <=> m \in Given(c)
    BY <1>3, GivenFacts DEF DirectlyIn
  <2>4. (\E i \in DOMAIN s : DirectlyIn(s[i], m)) <=> \E c \in L : DirectlyIn(c, m)
    BY <1>2, <2>1, InSequence
  <2> QED
    BY <2>2, <2>3, <2>4
<1>6. ASSUME NEW c \in L, m \in Given(c) PROVE m \in A
  <2>1. c \in A /\ c \in Kinds /\ m \in Links(c)
    BY <1>3, <1>6, GivenFacts
  <2> QED
    BY <1>2, <1>3, <2>1, AncestorsFacts
<1>7. ASSUME \A x \in Modules : included[x] \o prepended[x] = << >>, m \in A
      PROVE \E c \in L : m \in Given(c)
  <2>1. PICK G, C : G = UNION {Given(c) : c \in L} /\ C = L \union G
    OBVIOUS
  <2>2. G \subseteq Modules /\ \A c \in L : Given(c) \subseteq G
    BY <1>3, <2>1, GivenFacts
  <2>3. C \subseteq Kinds /\ ObjClass \in C
    BY <1>3, <2>1, <2>2 DEF Kinds
  <2>4. \A x \in L : Above(x) # Nil => Above(x) \in L
    BY <1>2, <1>3, LineFacts
  <2>5. ASSUME NEW x \in C PROVE Graph[x] \subseteq C
    <3>1. x \in Kinds /\ Graph[x] = Links(x)
      BY <2>3, LinksFacts
    <3>2. CASE x \in L
      BY <2>1, <2>2, <2>4, <3>1, <3>2, GivenFacts
    <3>3. CASE x \in Modules
      BY <1>7, <3>1, <3>3, GivenFacts, AboveFacts
    <3> QED
      BY <2>1, <2>2, <3>2, <3>3
  <2>6. Around(C)
    BY <2>3, <2>5 DEF Around, Closed
  <2>7. m \in C
    BY <1>2, <1>3, <1>7, <2>3, <2>6, AncestorsFacts
  <2>8. m \notin L
    BY <1>3, LookupAssumption
  <2> QED
    BY <2>1, <2>7, <2>8
<1> QED
  BY <1>1, <1>4, <1>5, <1>6, <1>7

(***************************************************************************)
(* Chains.  A walk that stops at its first hit, and one that passes places *)
(* by, goes through the list of all the places in their order.             *)
(***************************************************************************)
LEMMA Joined ==
  ASSUME NEW S, NEW s \in Seq(S), NEW t \in Seq(S)
  PROVE LET j == s \o t
        IN  /\ j \in Seq(S) /\ Len(j) = Len(s) + Len(t) /\ Len(s) \in Nat /\ Len(t) \in Nat
            /\ DOMAIN s = 1 .. Len(s) /\ DOMAIN t = 1 .. Len(t) /\ DOMAIN j = 1 .. Len(s) + Len(t)
            /\ \A i \in 1 .. Len(s) : i \in 1 .. Len(j) /\ j[i] = s[i]
            /\ \A i \in 1 .. Len(t) : i + Len(s) \in 1 .. Len(j) /\ j[i + Len(s)] = t[i]
            /\ ToSet(j) = ToSet(s) \union ToSet(t)
<1>1. PICK j : j = s \o t
  OBVIOUS
<1>2. /\ j \in Seq(S) /\ Len(j) = Len(s) + Len(t) /\ Len(s) \in Nat /\ Len(t) \in Nat
      /\ \A i \in 1 .. Len(s) : j[i] = s[i]
      /\ \A i \in 1 .. Len(t) : j[i + Len(s)] = t[i]
  BY <1>1
<1>3. ToSet(j) = ToSet(s) \union ToSet(t)
  BY <1>1, JoinedSets
<1>4. DOMAIN s = 1 .. Len(s) /\ DOMAIN t = 1 .. Len(t) /\ DOMAIN j = 1 .. Len(j)
  BY <1>2
<1>5. /\ \A i \in 1 .. Len(s) : i \in 1 .. Len(j)
      /\ \A i \in 1 .. Len(t) : i + Len(s) \in 1 .. Len(j)
  BY <1>2
<1> QED
  BY <1>1, <1>2, <1>3, <1>4, <1>5

LEMMA ThroughNone ==
  ASSUME NEW V, NEW f, NEW v \in V
  PROVE Through(<< >>, f, v) = v /\ Steps(<< >>, f, V)
<1>1. PICK e : e = << >>
  OBVIOUS
<1>2. ToSet(e) = {} /\ Len(e) = 0 /\ e \in Seq(V)
  BY <1>1 DEF ToSet
<1>3. Steps(e, f, V)
  BY <1>2 DEF Steps
<1>4. PICK b \in [0 .. Len(e) -> V] : Runs(b, e, f, v)
  BY <1>2, <1>3, ThroughFacts
<1> QED
  BY <1>1, <1>2, <1>3, <1>4 DEF Runs

LEMMA ThroughOne ==
  ASSUME NEW V, NEW f, NEW v \in V, NEW x, Steps(<<x>>, f, V)
  PROVE Through(<<x>>, f, v) = f[x][v]
<1>1. PICK s, S : s = <<x>> /\ S = {x}
  OBVIOUS
<1>2. s \in Seq(S) /\ Len(s) = 1 /\ s[1] = x /\ Steps(s, f, V)
  BY <1>1
<1>3. PICK a \in [0 .. Len(s) -> V] : Runs(a, s, f, v)
  BY <1>2, ThroughFacts
<1>4. a[0] = v /\ (\A i \in 1 .. 1 : a[i] = f[s[i]][a[i - 1]]) /\ Through(s, f, v) = a[1]
  BY <1>2, <1>3 DEF Runs
<1>5. 1 \in 1 .. 1 /\ 1 - 1 = 0
  OBVIOUS
<1>6. a[1] = f[x][v]
  BY <1>2, <1>4, <1>5
<1> QED
  BY <1>1, <1>4, <1>6

\* Two ways through the same list that keep in step.
LEMMA ThroughAlike ==
  ASSUME NEW S, NEW mods \in Seq(S), NEW V, NEW f, NEW v \in V, NEW W, NEW g, NEW w \in W,
         NEW Rel, <<v, w>> \in Rel, Steps(mods, f, V), Steps(mods, g, W),
         \A m \in ToSet(mods) : \A a \in V, b \in W : <<a, b>> \in Rel => <<f[m][a], g[m][b]>> \in Rel
  PROVE <<Through(mods, f, v), Through(mods, g, w)>> \in Rel
<1>1. PICK a \in [0 .. Len(mods) -> V] : Runs(a, mods, f, v)
  BY ThroughFacts
<1>2. PICK b \in [0 .. Len(mods) -> W] : Runs(b, mods, g, w)
  BY ThroughFacts
<1>3. PICK n : n = Len(mods)
  OBVIOUS
<1>4. n \in Nat /\ \A i \in 1 .. n : mods[i] \in ToSet(mods)
  BY <1>3, InSequence
<1>5. /\ a[0] = v /\ (\A i \in 1 .. n : a[i] = f[mods[i]][a[i - 1]]) /\ Through(mods, f, v) = a[n]
      /\ b[0] = w /\ (\A i \in 1 .. n : b[i] = g[mods[i]][b[i - 1]]) /\ Through(mods, g, w) = b[n]
  BY <1>1, <1>2, <1>3 DEF Runs
<1> DEFINE T == {i \in 0 .. n : <<a[i], b[i]>> \in Rel}
<1>6. 0 \in T
  <2>1. a[0] = v /\ b[0] = w /\ 0 \in 0 .. n
    BY <1>4, <1>5
  <2>2. <<a[0], b[0]>> \in Rel
    BY <2>1
  <2> QED
    BY <2>1, <2>2
<1>7. ASSUME NEW i \in 1 .. n, i - 1 \in T PROVE i \in T
  <2>1. i \in 0 .. n /\ i - 1 \in 0 .. n
    BY <1>4
  <2>2. PICK u, x, m : u = a[i - 1] /\ x = b[i - 1] /\ m = mods[i]
    OBVIOUS
  <2>3. u \in V /\ x \in W /\ <<u, x>> \in Rel /\ m \in ToSet(mods)
    BY <1>3, <1>4, <1>7, <2>1, <2>2
  <2>4. <<f[m][u], g[m][x]>> \in Rel
    BY <2>3
  <2>5. a[i] = f[m][u] /\ b[i] = g[m][x]
    BY <1>5, <2>2
  <2> QED
    BY <2>1, <2>4, <2>5
<1> HIDE DEF T
<1>8. \A i \in 0 .. n : i \in T
  BY <1>4, <1>6, <1>7, UpTo
<1>9. n \in 0 .. n
  BY <1>4
<1> QED
  BY <1>5, <1>8, <1>9 DEF T

\* What every step keeps, the whole keeps.
LEMMA ThroughKeeps ==
  ASSUME NEW S, NEW mods \in Seq(S), NEW V, NEW f, NEW v \in V, Steps(mods, f, V)
  PROVE Through(mods, f, v) \in V
<1>1. PICK a \in [0 .. Len(mods) -> V] : Runs(a, mods, f, v)
  BY ThroughFacts
<1>2. Len(mods) \in 0 .. Len(mods)
  BY InSequence
<1> QED
  BY <1>1, <1>2 DEF Runs

\* Going through one sequence after another.
LEMMA ThroughJoined ==
  ASSUME NEW S, NEW s \in Seq(S), NEW t \in Seq(S), NEW V, NEW f, NEW v \in V,
         Steps(s, f, V), Steps(t, f, V)
  PROVE Through(s \o t, f, v) = Through(t, f, Through(s, f, v)) /\ Steps(s \o t, f, V)
<1>1. PICK j, n, m : j = s \o t /\ n = Len(s) /\ m = Len(t)
  OBVIOUS
<1>2. /\ j \in Seq(S) /\ Len(j) = n + m /\ n \in Nat /\ m \in Nat
      /\ \A i \in 1 .. n : i \in 1 .. n + m /\ j[i] = s[i]
      /\ \A i \in 1 .. m : i + n \in 1 .. n + m /\ j[i + n] = t[i]
      /\ ToSet(j) = ToSet(s) \union ToSet(t)
  BY <1>1, Joined
<1>3. Steps(j, f, V)
  BY <1>2 DEF Steps
<1>4. PICK a \in [0 .. Len(s) -> V] : Runs(a, s, f, v)
  BY ThroughFacts
<1>5. PICK w \in V : w = Through(s, f, v)
  BY ThroughTyped
<1>6. PICK b \in [0 .. Len(t) -> V] : Runs(b, t, f, w)
  BY ThroughFacts
<1>7. PICK c \in [0 .. Len(j) -> V] : Runs(c, j, f, v)
  BY <1>2, <1>3, ThroughFacts
<1>8. /\ a[0] = v /\ (\A i \in 1 .. n : a[i] = f[s[i]][a[i - 1]]) /\ w = a[n]
      /\ b[0] = w /\ (\A i \in 1 .. m : b[i] = f[t[i]][b[i - 1]]) /\ Through(t, f, w) = b[m]
      /\ c[0] = v /\ (\A i \in 1 .. n + m : c[i] = f[j[i]][c[i - 1]]) /\ Through(j, f, v) = c[n + m]
  BY <1>1, <1>2, <1>4, <1>5, <1>6, <1>7 DEF Runs
<1>9. \A i \in 0 .. n : c[i] = a[i]
  <2> DEFINE T == {i \in 0 .. n : c[i] = a[i]}
  <2>1. 0 \in T
    BY <1>2, <1>8
  <2>2. ASSUME NEW i \in 1 .. n, i - 1 \in T PROVE i \in T
    <3>1. c[i - 1] = a[i - 1]
      BY <2>2
    <3>2. i \in 0 .. n /\ i \in 1 .. n + m /\ j[i] = s[i]
      BY <1>2
    <3>3. c[i] = f[j[i]][c[i - 1]] /\ a[i] = f[s[i]][a[i - 1]]
      BY <1>8, <3>2
    <3> QED
      BY <3>1, <3>2, <3>3
  <2> HIDE DEF T
  <2>3. \A i \in 0 .. n : i \in T
    BY <1>2, <2>1, <2>2, UpTo
  <2> QED
    BY <2>3 DEF T
<1>10. \A i \in 0 .. m : c[i + n] = b[i]
  <2> DEFINE T == {i \in 0 .. m : c[i + n] = b[i]}
  <2>1. 0 \in T
    <3>1. n \in 0 .. n /\ 0 + n = n /\ 0 \in 0 .. m
      BY <1>2
    <3>2. c[n] = b[0]
      BY <1>8, <1>9, <3>1
    <3> QED
      BY <3>1, <3>2
  <2>2. ASSUME NEW i \in 1 .. m, i - 1 \in T PROVE i \in T
    <3>1. c[(i - 1) + n] = b[i - 1]
      BY <2>2
    <3>2. i + n \in 1 .. n + m /\ (i + n) - 1 = (i - 1) + n /\ i \in 0 .. m
      BY <1>2
    <3>3. c[i + n] = f[j[i + n]][c[(i + n) - 1]]
      BY <1>8, <3>2
    <3>4. b[i] = f[t[i]][b[i - 1]] /\ j[i + n] = t[i]
      BY <1>2, <1>8
    <3>5. c[i + n] = b[i]
      BY <3>1, <3>2, <3>3, <3>4
    <3> QED
      BY <3>2, <3>5
  <2> HIDE DEF T
  <2>3. \A i \in 0 .. m : i \in T
    BY <1>2, <2>1, <2>2, UpTo
  <2> QED
    BY <2>3 DEF T
<1>11. c[n + m] = b[m]
  <2>1. m \in 0 .. m /\ m + n = n + m
    BY <1>2
  <2> QED
    BY <1>10, <2>1
<1> QED
  BY <1>1, <1>3, <1>5, <1>8, <1>11

\* To try one after another, from what was found so far.
OrElse(a, b) == IF a # NotFound THEN a ELSE b
Tries(S, h) == [x \in S |-> [v \in Hits |-> OrElse(v, h[x])]]

LEMMA TriesFacts ==
  ASSUME NEW S, NEW h, \A x \in S : h[x] \in Hits
  PROVE /\ \A x \in S : \A v \in Hits : Tries(S, h)[x][v] = OrElse(v, h[x]) /\ Tries(S, h)[x][v] \in Hits
        /\ \A s \in Seq(S) : Steps(s, Tries(S, h), Hits)
<1>1. PICK f : f = Tries(S, h)
  OBVIOUS
<1>2. \A x \in S : \A v \in Hits : f[x][v] = OrElse(v, h[x])
  BY <1>1 DEF Tries
<1>3. \A x \in S : \A v \in Hits : f[x][v] \in Hits
  BY <1>2 DEF OrElse
<1>4. \A s \in Seq(S) : Steps(s, f, Hits)
  BY <1>3, InSequence DEF Steps
<1> QED
  BY <1>1, <1>2, <1>3, <1>4

LEMMA AmongThrough ==
  ASSUME NEW S, NEW s \in Seq(S), NEW h, \A x \in S : h[x] \in Hits
  PROVE Through(s, Tries(S, h), NotFound) = Among(h, s) /\ Among(h, s) \in Hits
<1>1. PICK f, n, hits : f = Tries(S, h) /\ n = Len(s) /\ hits = [i \in DOMAIN s |-> h[s[i]]]
  OBVIOUS
<1>2. NotFound \in Hits
  BY DEF Hits, NotFound
<1>3. n \in Nat /\ DOMAIN s = 1 .. n /\ \A i \in 1 .. n : s[i] \in S
  BY <1>1, InSequence
<1>4. DOMAIN hits = 1 .. n /\ \A i \in 1 .. n : hits[i] = h[s[i]]
  BY <1>1, <1>3
<1>5. Among(h, s) = FirstHit(hits)
  BY <1>1 DEF Among
<1>6. Steps(s, f, Hits) /\ \A x \in S : \A v \in Hits : f[x][v] = OrElse(v, h[x])
  BY <1>1, TriesFacts
<1>7. PICK a \in [0 .. Len(s) -> Hits] : Runs(a, s, f, NotFound)
  BY <1>2, <1>6, ThroughFacts
<1>8. /\ a[0] = NotFound /\ (\A i \in 1 .. n : a[i] = f[s[i]][a[i - 1]])
      /\ Through(s, f, NotFound) = a[n]
  BY <1>1, <1>7 DEF Runs
<1>9. \A i \in 1 .. n : a[i] = OrElse(a[i - 1], hits[i])
  <2> TAKE i \in 1 .. n
  <2>1. i - 1 \in 0 .. n
    BY <1>3
  <2> QED
    BY <1>1, <1>3, <1>4, <1>6, <1>7, <1>8, <2>1
<1> DEFINE Misses(i) == \A j \in 1 .. i : hits[j] = NotFound
           Stands(i) == IF a[i] = NotFound THEN Misses(i)
                        ELSE \E j \in 1 .. i : a[i] = hits[j] /\ Misses(j - 1)
           T == {i \in 0 .. n : Stands(i)}
<1>10. 0 \in T
  BY <1>3, <1>8
<1>11. ASSUME NEW i \in 1 .. n, i - 1 \in T PROVE i \in T
  <2>1. i \in 0 .. n /\ a[i] = OrElse(a[i - 1], hits[i]) /\ i \in 1 .. i
    BY <1>9
  <2>2. CASE a[i - 1] # NotFound
    <3>1. PICK j \in 1 .. i - 1 : a[i - 1] = hits[j] /\ Misses(j - 1)
      BY <1>11, <2>2
    <3>2. j \in 1 .. i /\ a[i] = hits[j] /\ a[i] # NotFound
      BY <2>1, <2>2, <3>1 DEF OrElse
    <3> QED
      BY <2>1, <3>1, <3>2
  <2>3. CASE a[i - 1] = NotFound
    <3>1. Misses(i - 1) /\ a[i] = hits[i]
      BY <1>11, <2>1, <2>3 DEF OrElse
    <3>2. CASE hits[i] = NotFound
      <4>1. Misses(i)
        BY <3>1, <3>2
      <4> QED
        BY <2>1, <3>1, <3>2, <4>1
    <3>3. CASE hits[i] # NotFound
      BY <2>1, <3>1, <3>3
    <3> QED
      BY <3>2, <3>3
  <2> QED
    BY <2>2, <2>3
<1> HIDE DEF T
<1>12. \A i \in 0 .. n : i \in T
  BY <1>3, <1>10, <1>11, UpTo
<1>13. n \in 0 .. n /\ a[n] \in Hits
  BY <1>1, <1>3, <1>7
<1>14. Stands(n)
  BY <1>12, <1>13 DEF T
<1>15. a[n] = FirstHit(hits)
  <2>1. CASE a[n] = NotFound
    BY <1>3, <1>4, <1>14, <2>1, FirstHitFacts
  <2>2. CASE a[n] # NotFound
    <3>1. PICK j \in 1 .. n : a[n] = hits[j] /\ Misses(j - 1)
      BY <1>14, <2>2
    <3> QED
      BY <1>3, <1>4, <2>2, <3>1, FirstHitFacts
  <2> QED
    BY <2>1, <2>2
<1> QED
  BY <1>1, <1>5, <1>8, <1>13, <1>15

LEMMA AmongJoined ==
  ASSUME NEW S, NEW s \in Seq(S), NEW t \in Seq(S), NEW h, \A x \in S : h[x] \in Hits
  PROVE Among(h, s \o t) = OrElse(Among(h, s), Among(h, t))
<1>1. PICK f, j, e : f = Tries(S, h) /\ j = s \o t /\ e = NotFound
  OBVIOUS
<1>2. e \in Hits
  BY <1>1 DEF Hits, NotFound
<1>3. /\ Steps(s, f, Hits) /\ Steps(t, f, Hits)
      /\ \A x \in S : \A v \in Hits : f[x][v] = OrElse(v, h[x])
  BY <1>1, TriesFacts
<1>4. j \in Seq(S)
  BY <1>1, JoinedSets
<1>5. PICK a, b : a = Through(s, f, e) /\ b = Through(t, f, e)
  OBVIOUS
<1>6. a = Among(h, s) /\ b = Among(h, t) /\ a \in Hits /\ Among(h, j) = Through(j, f, e)
  BY <1>1, <1>4, <1>5, AmongThrough
<1>7. Through(j, f, e) = Through(t, f, a)
  BY <1>1, <1>2, <1>3, <1>5, ThroughJoined
<1>8. Through(t, f, a) = OrElse(a, b)
  <2> DEFINE Rel == {p \in Hits \X Hits : p[1] = OrElse(a, p[2])}
  <2>1. PICK R : R = Rel
    OBVIOUS
  <2>2. \A u, v : <<u, v>> \in R <=> u \in Hits /\ v \in Hits /\ u = OrElse(a, v)
    BY <2>1
  <2> HIDE DEF Rel
  <2>3. <<a, e>> \in R
    BY <1>1, <1>2, <1>6, <2>2 DEF OrElse
  <2>4. ASSUME NEW m \in ToSet(t), NEW u \in Hits, NEW v \in Hits, <<u, v>> \in R
        PROVE <<f[m][u], f[m][v]>> \in R
    <3>1. m \in S
      BY InSequence
    <3>2. f[m][u] = OrElse(u, h[m]) /\ f[m][v] = OrElse(v, h[m]) /\ u = OrElse(a, v) /\ h[m] \in Hits
      BY <1>3, <2>2, <2>4, <3>1
    <3>3. f[m][u] \in Hits /\ f[m][v] \in Hits
      BY <3>2 DEF OrElse
    <3>4. f[m][u] = OrElse(a, f[m][v])
      BY <3>2 DEF OrElse
    <3> QED
      BY <2>2, <3>3, <3>4
  <2>5. <<Through(t, f, a), Through(t, f, e)>> \in R
    BY <1>2, <1>3, <1>6, <2>3, <2>4, ThroughAlike
  <2> QED
    BY <1>5, <2>2, <2>5
<1> QED
  BY <1>1, <1>6, <1>7, <1>8

LEMMA AmongEnds ==
  ASSUME NEW h, NEW x, h[x] \in Hits
  PROVE Among(h, << >>) = NotFound /\ Among(h, <<x>>) = h[x]
<1>1. PICK s, S, e, f, v : s = <<x>> /\ S = {x} /\ e = << >> /\ f = Tries(S, h) /\ v = NotFound
  OBVIOUS
<1>2. s \in Seq(S) /\ e \in Seq(S) /\ v \in Hits /\ \A y \in S : h[y] \in Hits
  BY <1>1 DEF Hits, NotFound
<1>3. \A u \in Hits : f[x][u] = OrElse(u, h[x]) /\ f[x][u] \in Hits
  BY <1>1, <1>2, TriesFacts
<1>4. Through(e, f, v) = v /\ Through(s, f, v) = f[x][v]
  <2>1. Steps(s, f, Hits)
    BY <1>1, <1>2, TriesFacts
  <2>2. Through(s, f, v) = f[x][v]
    BY <1>1, <1>2, <2>1, ThroughOne
  <2>3. Through(e, f, v) = v
    BY <1>1, <1>2, ThroughNone
  <2> QED
    BY <2>2, <2>3
<1>5. Through(e, f, v) = Among(h, e) /\ Through(s, f, v) = Among(h, s)
  BY <1>1, <1>2, AmongThrough
<1> QED
  BY <1>1, <1>2, <1>3, <1>4, <1>5 DEF OrElse

\* The sequences w gives for some places, joined.
Flat(w, mods) == FlattenSeq([i \in DOMAIN mods |-> w[mods[i]]])
Joins(S, V, w) == [m \in S |-> [l \in Seq(V) |-> l \o w[m]]]

LEMMA JoinsFacts ==
  ASSUME NEW S, NEW V, NEW w, \A m \in S : w[m] \in Seq(V)
  PROVE /\ \A m \in S : \A l \in Seq(V) : Joins(S, V, w)[m][l] = l \o w[m]
        /\ \A s \in Seq(S) : Steps(s, Joins(S, V, w), Seq(V))
<1>1. PICK f : f = Joins(S, V, w)
  OBVIOUS
<1>2. \A m \in S : \A l \in Seq(V) : f[m][l] = l \o w[m]
  BY <1>1 DEF Joins
<1>3. \A m \in S : \A l \in Seq(V) : f[m][l] \in Seq(V)
  BY <1>2, JoinedSets
<1>4. \A s \in Seq(S) : Steps(s, f, Seq(V))
  BY <1>3, InSequence DEF Steps
<1> QED
  BY <1>1, <1>2, <1>4

LEMMA FlatThrough ==
  ASSUME NEW S, NEW mods \in Seq(S), NEW V, NEW w, \A m \in S : w[m] \in Seq(V)
  PROVE /\ Flat(w, mods) = Through(mods, Joins(S, V, w), << >>)
        /\ Flat(w, mods) \in Seq(V)
<1>1. PICK f, n, ss, e, W : /\ f = Joins(S, V, w) /\ n = Len(mods) /\ e = << >> /\ W = Seq(V)
                            /\ ss = [i \in DOMAIN mods |-> w[mods[i]]]
  OBVIOUS
<1>2. n \in Nat /\ DOMAIN mods = 1 .. n /\ \A i \in 1 .. n : mods[i] \in S
  BY <1>1, InSequence
<1>3. DOMAIN ss = 1 .. n /\ \A i \in 1 .. n : ss[i] = w[mods[i]] /\ ss[i] \in W
  BY <1>1, <1>2
<1>4. ss \in Seq(W) /\ Len(ss) = n
  <2>1. ss = [i \in 1 .. n |-> ss[i]]
    BY <1>1, <1>2
  <2> QED
    BY <1>2, <1>3, <2>1
<1>5. e \in W /\ e \in Seq(V)
  BY <1>1
<1>6. Steps(mods, f, W) /\ \A m \in S : \A l \in W : f[m][l] = l \o w[m]
  BY <1>1, JoinsFacts
<1>7. PICK a \in [0 .. Len(mods) -> W] : Runs(a, mods, f, e)
  BY <1>5, <1>6, ThroughFacts
<1>8. /\ a[0] = e /\ (\A i \in 1 .. n : a[i] = f[mods[i]][a[i - 1]])
      /\ Through(mods, f, e) = a[n]
  BY <1>1, <1>7 DEF Runs
<1>9. \A i \in 0 .. n : a[i] \in W
  BY <1>1, <1>7
<1>10. \A i \in 1 .. n : a[i] = a[i - 1] \o ss[i]
  <2> TAKE i \in 1 .. n
  <2>1. i - 1 \in 0 .. n
    BY <1>2
  <2>2. PICK m, r : m = mods[i] /\ r = a[i - 1]
    OBVIOUS
  <2>3. m \in S /\ r \in W /\ ss[i] = w[m]
    BY <1>2, <1>3, <1>9, <2>1, <2>2
  <2>4. a[i] = f[m][r] /\ f[m][r] = r \o w[m]
    BY <1>6, <1>8, <2>2, <2>3
  <2> QED
    BY <2>2, <2>3, <2>4
<1>11. n > 0 => a[1] = ss[1]
  <2> SUFFICES ASSUME n > 0 PROVE a[1] = ss[1]
    OBVIOUS
  <2>1. 1 \in 1 .. n /\ 1 - 1 = 0
    BY <1>2
  <2>2. PICK s : s = ss[1]
    OBVIOUS
  <2>3. a[1] = e \o s /\ s \in W
    BY <1>3, <1>8, <1>10, <2>1, <2>2
  <2>4. s \in Seq(V)
    BY <1>1, <2>3
  <2>5. << >> \o s = s
    BY <2>4
  <2> QED
    BY <1>1, <2>2, <2>3, <2>5
<1>12. FlattenSeq(ss) = a[n]
  <2>1. CASE n = 0
    <3>1. FlattenSeq(ss) = ss
      BY <1>4, <2>1 DEF FlattenSeq
    <3>2. ss = e
      BY <1>1, <1>4, <2>1
    <3> QED
      BY <1>8, <2>1, <3>1, <3>2
  <2>2. CASE n # 0
    <3> DEFINE Unfolds(g) == g = [i \in 1 .. Len(ss) |-> IF i = 1 THEN ss[i] ELSE g[i - 1] \o ss[i]]
               chosen == CHOOSE g : Unfolds(g)
               h == [i \in 1 .. n |-> a[i]]
    <3>1. FlattenSeq(ss) = chosen[Len(ss)]
      BY <1>4, <2>2, Zenon DEF FlattenSeq
    <3>2. h = [i \in 1 .. n |-> IF i = 1 THEN ss[i] ELSE h[i - 1] \o ss[i]]
      <4>1. ASSUME NEW i \in 1 .. n PROVE a[i] = IF i = 1 THEN ss[i] ELSE h[i - 1] \o ss[i]
        <5>1. CASE i = 1
          BY <1>2, <1>11, <2>2, <5>1
        <5>2. CASE i # 1
          <6>1. i - 1 \in 1 .. n
            BY <1>2, <5>2
          <6> QED
            BY <1>10, <5>2, <6>1
        <5> QED
          BY <5>1, <5>2
      <4> QED
        BY <4>1
    <3> HIDE DEF h
    <3>3. Unfolds(h)
      BY <1>4, <3>2
    <3> HIDE DEF Unfolds
    <3>4. Unfolds(chosen)
      BY <3>3, Zenon
    <3> HIDE DEF chosen
    <3>5. PICK g : g = chosen
      OBVIOUS
    <3>6. g = [i \in 1 .. n |-> IF i = 1 THEN ss[i] ELSE g[i - 1] \o ss[i]]
      <4>1. Unfolds(g)
        BY <3>4, <3>5, Zenon
      <4> QED
        BY <1>4, <4>1 DEF Unfolds
    <3>7. \A i \in 1 .. n : g[i] = IF i = 1 THEN ss[i] ELSE g[i - 1] \o ss[i]
      BY <3>6, Zenon
    <3> DEFINE T == {i \in 0 .. n : i = 0 \/ g[i] = a[i]}
    <3>8. 0 \in T
      BY <1>2
    <3>9. ASSUME NEW i \in 1 .. n, i - 1 \in T PROVE i \in T
      <4>1. CASE i = 1
        BY <1>2, <1>11, <2>2, <3>7, <4>1
      <4>2. CASE i # 1
        <5>1. i - 1 # 0 /\ i \in 0 .. n
          BY <4>2
        <5>2. g[i - 1] = a[i - 1]
          BY <3>9, <5>1
        <5>3. g[i] = g[i - 1] \o ss[i]
          BY <3>7, <4>2
        <5> QED
          BY <1>10, <5>1, <5>2, <5>3
      <4> QED
        BY <4>1, <4>2
    <3> HIDE DEF T
    <3>10. \A i \in 0 .. n : i \in T
      BY <1>2, <3>8, <3>9, UpTo
    <3>11. g[n] = a[n]
      <4>1. n \in 0 .. n
        BY <1>2
      <4> QED
        BY <2>2, <3>10, <4>1 DEF T
    <3> QED
      BY <1>4, <3>1, <3>5, <3>11
  <2> QED
    BY <2>1, <2>2
<1>13. Flat(w, mods) = a[n]
  BY <1>1, <1>12 DEF Flat
<1>14. n \in 0 .. n
  BY <1>2
<1> QED
  BY <1>1, <1>8, <1>9, <1>13, <1>14

JoinsTo(f, mods, w, S, W) ==
  /\ Steps(mods, f, W) /\ \A m \in S : \A l \in W : f[m][l] = l \o w[m]
  /\ Flat(w, mods) = Through(mods, f, << >>)

LEMMA FlatJoins ==
  ASSUME NEW S, NEW mods \in Seq(S), NEW V, NEW w, \A m \in S : w[m] \in Seq(V)
  PROVE JoinsTo(Joins(S, V, w), mods, w, S, Seq(V)) /\ << >> \in Seq(V)
<1>1. Steps(mods, Joins(S, V, w), Seq(V))
  BY JoinsFacts
<1>2. \A m \in S : \A l \in Seq(V) : Joins(S, V, w)[m][l] = l \o w[m]
  BY JoinsFacts
<1>3. Flat(w, mods) = Through(mods, Joins(S, V, w), << >>)
  BY FlatThrough
<1>4. << >> \in Seq(V)
  OBVIOUS
<1> QED
  BY <1>1, <1>2, <1>3, <1>4 DEF JoinsTo

\* To go through the joined sequences is to go through each in turn.
\* f goes through the sequence of w at each place.
Follows(f, w, S, g, V, U) ==
  /\ \A m \in S : w[m] \in Seq(V)
  /\ \A l \in Seq(V) : Steps(l, g, U)
  /\ \A m \in S : \A v \in U : f[m][v] = Through(w[m], g, v)

LEMMA ThroughFlat ==
  ASSUME NEW S, NEW mods \in Seq(S), NEW V, NEW w, NEW U, NEW g, NEW u \in U,
         NEW f, Follows(f, w, S, g, V, U)
  PROVE /\ Through(mods, f, u) = Through(Flat(w, mods), g, u)
        /\ Steps(mods, f, U)
<1> USE DEF Follows
<1>1. PICK j, e, W : j = Joins(S, V, w) /\ e = << >> /\ W = Seq(V)
  OBVIOUS
<1>2. /\ Steps(mods, j, W) /\ (\A m \in S : \A l \in W : j[m][l] = l \o w[m])
      /\ Flat(w, mods) = Through(mods, j, e) /\ e \in W
  <2>1. JoinsTo(j, mods, w, S, W) /\ e \in W
    BY <1>1, FlatJoins
  <2> QED
    BY <1>1, <2>1 DEF JoinsTo
<1>3. \A l \in Seq(V) : \A v \in U : Through(l, g, v) \in U
  BY ThroughKeeps
<1>4. \A m \in S : \A v \in U : f[m][v] \in U
  BY <1>3
<1>5. \A m \in ToSet(mods) : m \in S
  BY InSequence
<1>6. Steps(mods, f, U)
  BY <1>4, <1>5 DEF Steps
<1> DEFINE Rel == {p \in U \X W : p[1] = Through(p[2], g, u)}
<1>7. PICK R : R = Rel
  OBVIOUS
<1>8. \A v, l : <<v, l>> \in R <=> v \in U /\ l \in W /\ v = Through(l, g, u)
  BY <1>7
<1> HIDE DEF Rel
<1>9. <<u, e>> \in R
  <2>1. Through(<< >>, g, u) = u
    BY ThroughNone
  <2> QED
    BY <1>1, <1>2, <1>8, <2>1
<1>10. ASSUME NEW m \in ToSet(mods), NEW v \in U, NEW l \in W, <<v, l>> \in R
       PROVE <<f[m][v], j[m][l]>> \in R
  <2>1. PICK t : t = w[m]
    OBVIOUS
  <2>2. m \in S /\ t \in Seq(V) /\ l \in Seq(V) /\ v = Through(l, g, u)
    BY <1>1, <1>5, <1>8, <1>10, <2>1
  <2>3. Steps(l, g, U) /\ Steps(t, g, U)
    BY <2>2
  <2>4. Through(l \o t, g, u) = Through(t, g, v)
    BY <2>2, <2>3, ThroughJoined
  <2>5. f[m][v] = Through(t, g, v) /\ j[m][l] = l \o t
    BY <1>1, <1>2, <2>1, <2>2
  <2>6. f[m][v] \in U /\ l \o t \in W
    BY <1>1, <1>4, <2>2, JoinedSets
  <2>7. PICK p, q : p = f[m][v] /\ q = j[m][l]
    OBVIOUS
  <2>8. p \in U /\ q \in W /\ p = Through(q, g, u)
    BY <2>4, <2>5, <2>6, <2>7
  <2> QED
    BY <1>8, <2>7, <2>8
<1>11. <<Through(mods, f, u), Through(mods, j, e)>> \in R
  BY <1>2, <1>6, <1>9, <1>10, ThroughAlike
<1> QED
  BY <1>2, <1>6, <1>8, <1>11

\* f gives the first hit of h in the sequences of w.
Firsts(f, h, w, S, V) == /\ \A x \in V : h[x] \in Hits
                         /\ \A m \in S : w[m] \in Seq(V) /\ f[m] = Among(h, w[m])

LEMMA AmongFlat ==
  ASSUME NEW S, NEW mods \in Seq(S), NEW V, NEW w, NEW h, NEW f, Firsts(f, h, w, S, V)
  PROVE Among(f, mods) = Among(h, Flat(w, mods))
<1> USE DEF Firsts
<1>1. PICK j, e, W, t, z : /\ j = Joins(S, V, w) /\ e = << >> /\ W = Seq(V) /\ t = Tries(S, f)
                           /\ z = NotFound
  OBVIOUS
<1>2. /\ Steps(mods, j, W) /\ (\A m \in S : \A l \in W : j[m][l] = l \o w[m])
      /\ Flat(w, mods) = Through(mods, j, e) /\ e \in W
  <2>1. JoinsTo(j, mods, w, S, W) /\ e \in W
    BY <1>1, FlatJoins
  <2> QED
    BY <1>1, <2>1 DEF JoinsTo
<1>3. \A l \in Seq(V) : Among(h, l) \in Hits
  BY AmongThrough
<1>4. z \in Hits /\ \A m \in S : f[m] \in Hits
  BY <1>1, <1>3 DEF Hits, NotFound
<1>5. /\ Steps(mods, t, Hits) /\ (\A m \in S : \A v \in Hits : t[m][v] = OrElse(v, f[m]))
      /\ Through(mods, t, z) = Among(f, mods)
  BY <1>1, <1>4, TriesFacts, AmongThrough
<1> DEFINE Rel == {p \in Hits \X W : p[1] = Among(h, p[2])}
<1>6. PICK R : R = Rel
  OBVIOUS
<1>7. \A v, l : <<v, l>> \in R <=> v \in Hits /\ l \in W /\ v = Among(h, l)
  BY <1>6
<1> HIDE DEF Rel
<1>8. <<z, e>> \in R
  <2>1. Through(e, Tries(V, h), z) = z /\ Through(e, Tries(V, h), z) = Among(h, e)
    BY <1>1, <1>2, <1>4, ThroughNone, AmongThrough
  <2> QED
    BY <1>2, <1>4, <1>7, <2>1
<1>9. ASSUME NEW m \in ToSet(mods), NEW v \in Hits, NEW l \in W, <<v, l>> \in R
      PROVE <<t[m][v], j[m][l]>> \in R
  <2>1. PICK s : s = w[m]
    OBVIOUS
  <2>2. m \in S /\ s \in Seq(V) /\ l \in Seq(V) /\ v = Among(h, l) /\ f[m] = Among(h, s)
    BY <1>1, <1>7, <1>9, <2>1, InSequence
  <2>3. Among(h, l \o s) = OrElse(v, f[m]) /\ l \o s \in W
    BY <1>1, <2>2, AmongJoined, JoinedSets
  <2>4. t[m][v] = OrElse(v, f[m]) /\ j[m][l] = l \o s
    BY <1>2, <1>5, <2>1, <2>2
  <2>5. Among(h, l \o s) \in Hits
    BY <1>1, <1>3, <2>3
  <2>6. PICK p, q : p = t[m][v] /\ q = j[m][l]
    OBVIOUS
  <2>7. p \in Hits /\ q \in W /\ p = Among(h, q)
    BY <2>3, <2>4, <2>5, <2>6
  <2> QED
    BY <1>7, <2>6, <2>7
<1>10. <<Through(mods, t, z), Through(mods, j, e)>> \in R
  BY <1>2, <1>4, <1>5, <1>8, <1>9, ThroughAlike
<1> QED
  BY <1>2, <1>5, <1>7, <1>10

LEMMA FlatSet ==
  ASSUME NEW S, NEW mods \in Seq(S), NEW V, NEW w, \A m \in S : w[m] \in Seq(V)
  PROVE \A z : z \in ToSet(Flat(w, mods)) <=> \E m \in ToSet(mods) : z \in ToSet(w[m])
<1>1. PICK j, e, W, c : j = Joins(S, V, w) /\ e = << >> /\ W = Seq(V) /\ c = Flat(w, mods)
  OBVIOUS
<1>2. /\ (\A m \in S : \A l \in W : j[m][l] = l \o w[m]) /\ Steps(mods, j, W)
      /\ c = Through(mods, j, e) /\ e \in W
  <2>1. JoinsTo(j, mods, w, S, W) /\ e \in W
    BY <1>1, FlatJoins
  <2> QED
    BY <1>1, <2>1 DEF JoinsTo
<1>3. \A m \in ToSet(mods) : m \in S
  BY InSequence
<1> DEFINE U == {z \in V : \E m \in ToSet(mods) : z \in ToSet(w[m])}
           Rel == {p \in W \X W : ToSet(p[1]) \subseteq ToSet(p[2]) /\ ToSet(p[2]) \subseteq ToSet(p[1]) \union U}
<1>4. PICK R : R = Rel
  OBVIOUS
<1>5. \A a, b : <<a, b>> \in R <=> /\ a \in W /\ b \in W /\ ToSet(a) \subseteq ToSet(b)
                                   /\ ToSet(b) \subseteq ToSet(a) \union U
  BY <1>4
<1>6. \A m \in ToSet(mods) : ToSet(w[m]) \subseteq U
  <2> TAKE m \in ToSet(mods)
  <2>1. PICK t : t = w[m]
    OBVIOUS
  <2>2. t \in Seq(V)
    BY <1>3, <2>1
  <2>3. ToSet(t) \subseteq V
    BY <2>2, InSequence
  <2> QED
    BY <2>1, <2>3
<1>7. \A z \in U : \E m \in ToSet(mods) : z \in ToSet(w[m])
  OBVIOUS
<1> HIDE DEF Rel, U
<1>8. \A a \in W : <<a, a>> \in R
  BY <1>5
<1>9. \A a, b, d \in W : <<a, b>> \in R /\ <<b, d>> \in R => <<a, d>> \in R
  BY <1>5
<1>10. ASSUME NEW m \in ToSet(mods), NEW l \in W
       PROVE j[m][l] \in W /\ <<l, j[m][l]>> \in R /\ ToSet(w[m]) \subseteq ToSet(j[m][l])
  <2>1. PICK t, q : t = w[m] /\ q = j[m][l]
    OBVIOUS
  <2>2. t \in Seq(V) /\ l \in Seq(V) /\ q = l \o t
    BY <1>1, <1>2, <1>3, <2>1
  <2>3. q \in W /\ ToSet(q) = ToSet(l) \union ToSet(t)
    BY <1>1, <2>2, JoinedSets
  <2>4. ToSet(t) \subseteq U
    BY <1>6, <2>1
  <2>5. <<l, q>> \in R
    BY <1>5, <2>3, <2>4
  <2> QED
    BY <2>1, <2>3, <2>5
<1>11. /\ c \in W /\ <<e, c>> \in R
       /\ \A m \in ToSet(mods) : \E l \in W : <<j[m][l], c>> \in R
  <2>1. \A m \in ToSet(mods) : \A l \in W : j[m][l] \in W /\ <<l, j[m][l]>> \in R
    BY <1>10
  <2>2. /\ Through(mods, j, e) \in W /\ <<e, Through(mods, j, e)>> \in R
        /\ \A m \in ToSet(mods) : \E l \in W : <<j[m][l], Through(mods, j, e)>> \in R
    BY <1>2, <1>8, <1>9, <2>1, ThroughLeads
  <2> QED
    BY <1>2, <2>2
<1>12. ToSet(e) = {}
  BY <1>1 DEF ToSet
<1>13. ASSUME NEW m \in ToSet(mods) PROVE ToSet(w[m]) \subseteq ToSet(c)
  <2>1. PICK l \in W : <<j[m][l], c>> \in R
    BY <1>11
  <2> QED
    BY <1>5, <1>10, <2>1
<1>14. ToSet(c) \subseteq U
  BY <1>5, <1>11, <1>12
<1> QED
  BY <1>1, <1>7, <1>13, <1>14

\* The places of a walk without the rule that each is met once.
LEMMA WalkStep ==
  ASSUME NEW w, NEW x
  PROVE WalkAt(w, x) = IF Above(x) = Nil THEN Flat(w, prepended[x]) \o <<x>> \o Flat(w, included[x])
                       ELSE Flat(w, prepended[x]) \o <<x>> \o Flat(w, included[x]) \o w[Above(x)]
BY Zenon DEF WalkAt, Flat

LEMMA OverItself ==
  ASSUME NEW S, NEW s \in Seq(S)
  PROVE s \in Seq(ToSet(s))
<1>1. PICK n, T : n = Len(s) /\ T = ToSet(s)
  OBVIOUS
<1>2. n \in Nat /\ DOMAIN s = 1 .. n /\ \A i \in 1 .. n : s[i] \in T
  BY <1>1, InSequence
<1>3. s = [i \in 1 .. n |-> s[i]]
  BY <1>1
<1>4. s \in Seq(T)
  BY <1>2, <1>3
<1> QED
  BY <1>1, <1>4

LEMMA WalkTyped ==
  ASSUME ListsOK, NEW x \in Kinds, NEW w, \A y \in Links(x) : w[y] \in Seq(Kinds)
  PROVE LET p == Flat(w, prepended[x])
            i == Flat(w, included[x])
        IN  p \in Seq(Kinds) /\ i \in Seq(Kinds) /\ WalkAt(w, x) \in Seq(Kinds)
<1>1. PICK p, i, S, T : p = prepended[x] /\ i = included[x] /\ S = ToSet(p) /\ T = ToSet(i)
  OBVIOUS
<1>2. p \in Seq(Modules) /\ i \in Seq(Modules)
  BY <1>1 DEF ListsOK
<1>3. p \in Seq(S) /\ i \in Seq(T)
  BY <1>1, <1>2, OverItself
<1>4. (\A y \in S : w[y] \in Seq(Kinds)) /\ \A y \in T : w[y] \in Seq(Kinds)
  BY <1>1, LinksFacts
<1>5. PICK a, b, V : a = Flat(w, p) /\ b = Flat(w, i) /\ V = Kinds
  OBVIOUS
<1>6. a \in Seq(V) /\ b \in Seq(V)
  <2>1. (\A y \in S : w[y] \in Seq(V)) /\ \A y \in T : w[y] \in Seq(V)
    BY <1>4, <1>5
  <2>2. Flat(w, p) \in Seq(V)
    BY <1>3, <2>1, FlatThrough
  <2>3. Flat(w, i) \in Seq(V)
    BY <1>3, <2>1, FlatThrough
  <2> QED
    BY <1>5, <2>2, <2>3
<1>7. PICK o : o = <<x>>
  OBVIOUS
<1>8. o \in Seq(V)
  BY <1>5, <1>7, OneElement
<1>9. a \o o \o b \in Seq(V)
  BY <1>6, <1>8
<1>10. Above(x) # Nil => w[Above(x)] \in Seq(V)
  BY <1>5, LinksFacts
<1>11. Above(x) # Nil => a \o o \o b \o w[Above(x)] \in Seq(V)
  <2>1. PICK t : t = a \o o \o b
    OBVIOUS
  <2> QED
    BY <1>9, <1>10, <2>1
<1>12. WalkAt(w, x) = IF Above(x) = Nil THEN a \o o \o b ELSE a \o o \o b \o w[Above(x)]
  BY <1>1, <1>5, <1>7, WalkStep
<1> QED
  BY <1>1, <1>5, <1>6, <1>9, <1>11, <1>12

LEMMA WalkSame ==
  ASSUME ListsOK, NEW x \in Kinds, NEW f, NEW g, \A y \in Links(x) : f[y] = g[y]
  PROVE WalkAt(f, x) = WalkAt(g, x)
<1>1. PICK p, i : p = prepended[x] /\ i = included[x]
  OBVIOUS
<1>2. p \in Seq(Modules) /\ i \in Seq(Modules)
  BY <1>1 DEF ListsOK
<1>3. (\A m \in ToSet(p) : f[m] = g[m]) /\ \A m \in ToSet(i) : f[m] = g[m]
  BY <1>1, LinksFacts
<1>4. (\A l \in DOMAIN p : f[p[l]] = g[p[l]]) /\ \A l \in DOMAIN i : f[i[l]] = g[i[l]]
  BY <1>2, <1>3, InSequence
<1>5. Flat(f, p) = Flat(g, p)
  <2>1. [l \in DOMAIN p |-> f[p[l]]] = [l \in DOMAIN p |-> g[p[l]]]
    BY <1>4
  <2> QED
    BY <2>1 DEF Flat
<1>6. Flat(f, i) = Flat(g, i)
  <2>1. [l \in DOMAIN i |-> f[i[l]]] = [l \in DOMAIN i |-> g[i[l]]]
    BY <1>4
  <2> QED
    BY <2>1 DEF Flat
<1>7. Above(x) # Nil => f[Above(x)] = g[Above(x)]
  BY LinksFacts
<1> QED
  BY <1>1, <1>5, <1>6, <1>7, WalkStep

\* w gives the walk from each class and module.
WalksAs(w) == /\ w \in [Kinds -> Seq(Kinds)]
              /\ \A x \in Kinds : w[x] = WalkAt(w, x) /\ Walk(x) = w[x]

LEMMA WalkUnfold ==
  ASSUME ListsOK, Acyclic
  PROVE \E w : WalksAs(w)
<1> DEFINE rule == [x \in Kinds |-> [f \in [Kinds -> Seq(Kinds)] |-> WalkAt(f, x)]]
           Unfolds(f) == f = [x \in Kinds |-> WalkAt(f, x)]
           chosen == CHOOSE f : Unfolds(f)
<1>1. \A x \in Kinds : Walk(x) = chosen[x]
  BY Zenon DEF Walk
<1>2. \A x \in Kinds : Links(x) \subseteq Kinds /\ Graph[x] = Links(x)
  BY LinksFacts
<1>3. PICK V : V = Seq(Kinds)
  OBVIOUS
<1>4. ASSUME NEW x \in Kinds, NEW f \in [Kinds -> V] PROVE WalkAt(f, x) \in V
  <2>1. \A y \in Links(x) : f[y] \in Seq(Kinds)
    BY <1>2, <1>3
  <2> QED
    BY <1>3, <2>1, WalkTyped
<1>5. rule \in [Kinds -> [[Kinds -> V] -> V]]
      /\ \A x \in Kinds : \A f \in [Kinds -> V] : rule[x][f] = WalkAt(f, x)
  <2>1. rule = [x \in Kinds |-> [f \in [Kinds -> V] |-> WalkAt(f, x)]]
    BY <1>3
  <2> HIDE DEF rule
  <2> QED
    BY <1>4, <2>1
<1> HIDE DEF rule
<1>6. LooksAlong(rule, Graph, Kinds, V)
  <2>1. ASSUME NEW x \in Kinds, NEW f \in [Kinds -> V], NEW g \in [Kinds -> V],
               \A y \in Graph[x] : f[y] = g[y]
        PROVE rule[x][f] = rule[x][g]
    <3>1. WalkAt(f, x) = WalkAt(g, x)
      BY <1>2, <2>1, WalkSame
    <3> QED
      BY <1>5, <3>1
  <2> QED
    BY <1>5, <2>1 DEF LooksAlong
<1>7. PICK h \in [Kinds -> V] : Obeys(h, rule, Kinds)
  <2>1. PICK R, L, K, e : R = rule /\ L = Graph /\ K = Kinds /\ e = << >>
    OBVIOUS
  <2>2. WellLinked(L, K) /\ LooksAlong(R, L, K, V) /\ e \in V
    BY <1>3, <1>6, <2>1 DEF Acyclic
  <2>3. \E h \in [K -> V] : Obeys(h, R, K)
    BY <2>2, RecursionAlongLinks
  <2> QED
    BY <2>1, <2>3, Zenon
<1>8. \A x \in Kinds : h[x] = WalkAt(h, x)
  BY <1>5, <1>7 DEF Obeys
<1>9. h = [x \in Kinds |-> WalkAt(h, x)]
  <2>1. h = [x \in Kinds |-> h[x]]
    OBVIOUS
  <2> QED
    BY <1>8, <2>1, Zenon
<1>10. Unfolds(h)
  BY <1>9, Zenon
<1> HIDE DEF Unfolds
<1>11. Unfolds(chosen)
  BY <1>10, Zenon
<1> HIDE DEF chosen
<1>12. PICK f : f = chosen
  OBVIOUS
<1>13. f = [x \in Kinds |-> WalkAt(f, x)]
  BY <1>11, <1>12, Zenon DEF Unfolds
<1>14. DOMAIN f = Kinds /\ \A x \in Kinds : f[x] = WalkAt(f, x)
  BY <1>13, Zenon
<1>15. \A x \in Kinds : f[x] \in V
  <2> DEFINE T == {x \in Kinds : f[x] \in V}
  <2>1. ASSUME NEW x \in Kinds, Graph[x] \subseteq T PROVE x \in T
    <3>1. \A y \in Links(x) : f[y] \in Seq(Kinds)
      BY <1>2, <1>3, <2>1
    <3>2. WalkAt(f, x) \in V
      BY <1>3, <3>1, WalkTyped
    <3> QED
      BY <1>14, <3>2
  <2>2. PICK L, K : L = Graph /\ K = Kinds
    OBVIOUS
  <2> HIDE DEF T
  <2>3. K \subseteq T
    BY <2>1, <2>2, AlongLinks DEF Acyclic
  <2> QED
    BY <2>2, <2>3 DEF T
<1>16. f \in [Kinds -> V]
  <2>1. f = [x \in Kinds |-> f[x]]
    BY <1>13, <1>14, Zenon
  <2> QED
    BY <1>15, <2>1
<1>17. \A x \in Kinds : Walk(x) = f[x]
  BY <1>1, <1>12
<1>18. WalksAs(f)
  BY <1>3, <1>14, <1>16, <1>17 DEF WalksAs
<1> QED
  BY <1>18

\* A walk holds where it begins and the walks from there.
LEMMA WalkHolds ==
  ASSUME ListsOK, NEW w, WalksAs(w), NEW x \in Kinds
  PROVE \A z : z \in ToSet(w[x]) <=> z = x \/ \E y \in Links(x) : z \in ToSet(w[y])
<1>1. PICK p, i, S, T, V : p = prepended[x] /\ i = included[x] /\ S = ToSet(p) /\ T = ToSet(i) /\ V = Kinds
  OBVIOUS
<1>2. p \in Seq(S) /\ i \in Seq(T)
  BY <1>1, OverItself DEF ListsOK
<1>3. (\A y \in Links(x) : w[y] \in Seq(V)) /\ Links(x) = S \union T \union (IF Above(x) = Nil THEN {} ELSE {Above(x)})
  BY <1>1, LinksFacts DEF WalksAs, Links
<1>4. PICK a, b, o : a = Flat(w, p) /\ b = Flat(w, i) /\ o = <<x>>
  OBVIOUS
<1>5. (\A y \in S : w[y] \in Seq(V)) /\ \A y \in T : w[y] \in Seq(V)
  BY <1>3
<1>6. \A z : z \in ToSet(a) <=> \E y \in S : z \in ToSet(w[y])
  BY <1>1, <1>2, <1>4, <1>5, FlatSet
<1>7. \A z : z \in ToSet(b) <=> \E y \in T : z \in ToSet(w[y])
  BY <1>1, <1>2, <1>4, <1>5, FlatSet
<1>8. a \in Seq(V) /\ b \in Seq(V) /\ o \in Seq(V) /\ ToSet(o) = {x}
  <2>1. a \in Seq(V)
    BY <1>2, <1>4, <1>5, FlatThrough
  <2>2. b \in Seq(V)
    BY <1>2, <1>4, <1>5, FlatThrough
  <2> QED
    BY <1>1, <1>4, <2>1, <2>2, OneElement
<1>9. PICK c : c = a \o o
  OBVIOUS
<1>13. PICK d : d = c \o b
  OBVIOUS
<1>10. /\ c \in Seq(V) /\ ToSet(c) = ToSet(a) \union ToSet(o)
       /\ d \in Seq(V) /\ ToSet(d) = ToSet(c) \union ToSet(b)
  <2>1. c \in Seq(V) /\ ToSet(c) = ToSet(a) \union ToSet(o)
    BY <1>8, <1>9, JoinedSets
  <2>2. d \in Seq(V) /\ ToSet(d) = ToSet(c) \union ToSet(b)
    BY <1>8, <1>13, <2>1, JoinedSets
  <2> QED
    BY <2>1, <2>2
<1>11. w[x] = IF Above(x) = Nil THEN d ELSE d \o w[Above(x)]
  BY <1>1, <1>4, <1>9, <1>13, WalkStep DEF WalksAs
<1>12. ToSet(w[x]) = ToSet(d) \union IF Above(x) = Nil THEN {} ELSE ToSet(w[Above(x)])
  <2>1. CASE Above(x) = Nil
    BY <1>11, <2>1
  <2>2. CASE Above(x) # Nil
    <3>1. PICK t : t = w[Above(x)]
      OBVIOUS
    <3>2. t \in Seq(V)
      BY <1>3, <2>2, <3>1
    <3>3. ToSet(d \o t) = ToSet(d) \union ToSet(t)
      BY <1>10, <3>2, JoinedSets
    <3> QED
      BY <1>11, <2>2, <3>1, <3>3
  <2> QED
    BY <2>1, <2>2
<1> QED
  BY <1>3, <1>6, <1>7, <1>8, <1>10, <1>12

\* What is met after a place is met after what comes before it, and no walk
\* comes back to where it came from.
LEMMA WalkOrder ==
  ASSUME ListsOK, Acyclic, NEW w, WalksAs(w)
  PROVE /\ \A x \in Kinds : \A z \in ToSet(w[x]) : z \in Kinds /\ ToSet(w[z]) \subseteq ToSet(w[x])
        /\ \A x \in Kinds : \A y \in Links(x) : x \notin ToSet(w[y])
<1>1. \A x \in Kinds : Graph[x] = Links(x) /\ Links(x) \subseteq Kinds
  BY LinksFacts
<1>2. \A x \in Kinds : \A z : z \in ToSet(w[x]) <=> z = x \/ \E y \in Links(x) : z \in ToSet(w[y])
  BY WalkHolds
<1>3. PICK L, K : L = Graph /\ K = Kinds
  OBVIOUS
<1>4. \A x \in Kinds : \A z \in ToSet(w[x]) : z \in Kinds /\ ToSet(w[z]) \subseteq ToSet(w[x])
  <2> DEFINE T == {x \in Kinds : \A z \in ToSet(w[x]) : z \in Kinds /\ ToSet(w[z]) \subseteq ToSet(w[x])}
  <2>1. ASSUME NEW x \in Kinds, Graph[x] \subseteq T PROVE x \in T
    <3>1. ASSUME NEW z \in ToSet(w[x]) PROVE z \in Kinds /\ ToSet(w[z]) \subseteq ToSet(w[x])
      <4>1. CASE z = x
        BY <4>1
      <4>2. CASE z # x
        <5>1. PICK y \in Links(x) : z \in ToSet(w[y])
          BY <1>2, <3>1, <4>2
        <5>2. z \in Kinds /\ ToSet(w[z]) \subseteq ToSet(w[y])
          BY <1>1, <2>1, <5>1
        <5>3. ToSet(w[y]) \subseteq ToSet(w[x])
          BY <1>2
        <5> QED
          BY <5>2, <5>3
      <4> QED
        BY <4>1, <4>2
    <3> QED
      BY <3>1
  <2> HIDE DEF T
  <2>2. K \subseteq T
    BY <1>3, <2>1, AlongLinks DEF Acyclic
  <2> QED
    BY <1>3, <2>2 DEF T
<1> DEFINE S == {z \in Kinds : \E y \in Links(z) : z \in ToSet(w[y])}
<1>5. ASSUME S # {} PROVE FALSE
  <2>1. PICK z \in S : Graph[z] \cap S = {}
    <3>1. S \subseteq Kinds
      OBVIOUS
    <3> HIDE DEF S
    <3>2. WellLinked(L, K) /\ S \in SUBSET K
      BY <1>3, <3>1 DEF Acyclic
    <3> QED
      BY <1>3, <1>5, <3>2 DEF WellLinked
  <2>2. PICK y \in Links(z) : z \in ToSet(w[y])
    OBVIOUS
  <2>3. z \in Kinds /\ y \in Kinds /\ y \notin S
    BY <1>1, <2>1
  <2>4. y # z
    BY <2>1, <2>3
  <2>5. PICK u \in Links(y) : z \in ToSet(w[u])
    BY <1>2, <2>2, <2>3, <2>4
  <2>6. y \in ToSet(w[z])
    <3>1. y \in ToSet(w[y])
      BY <1>2, <2>3
    <3> QED
      BY <1>2, <2>2, <2>3, <3>1
  <2>7. ToSet(w[z]) \subseteq ToSet(w[u])
    BY <1>1, <1>4, <2>3, <2>5
  <2> QED
    BY <2>3, <2>5, <2>6, <2>7
<1> QED
  BY <1>4, <1>5

\* FindInstance finds the first entry on the walk.
Own(n) == [x \in Kinds |-> InstanceHit(x, n)]

LEMMA FindWalk ==
  ASSUME ListsOK, MethodsOK, Acyclic, NEW n \in Names, NEW w, WalksAs(w)
  PROVE \A x \in Kinds : FindInstance(x, n) = Among(Own(n), w[x])
<1>1. PICK f : Finds(f, n)
  BY FindUnfold
<1>2. PICK h, V : h = Own(n) /\ V = Kinds
  OBVIOUS
<1>3. \A x \in V : h[x] \in Hits /\ h[x] = InstanceHit(x, n)
  BY <1>2, HitFacts DEF Own
<1>4. PICK L, K : L = Graph /\ K = Kinds
  OBVIOUS
<1> DEFINE T == {x \in Kinds : f[x] = Among(h, w[x])}
<1>5. ASSUME NEW x \in Kinds, Graph[x] \subseteq T PROVE x \in T
  <2>1. PICK p, i, A, B : p = prepended[x] /\ i = included[x] /\ A = ToSet(p) /\ B = ToSet(i)
    OBVIOUS
  <2>2. p \in Seq(A) /\ i \in Seq(B)
    BY <2>1, OverItself DEF ListsOK
  <2>3. \A y \in Links(x) : w[y] \in Seq(V) /\ f[y] = Among(h, w[y])
    BY <1>2, <1>5, LinksFacts DEF WalksAs
  <2>4. /\ \A y \in A : w[y] \in Seq(V) /\ f[y] = Among(h, w[y])
        /\ \A y \in B : w[y] \in Seq(V) /\ f[y] = Among(h, w[y])
    BY <2>1, <2>3, LinksFacts
  <2>5. PICK a, b, o : a = Flat(w, p) /\ b = Flat(w, i) /\ o = <<x>>
    OBVIOUS
  <2>6. Among(f, p) = Among(h, a) /\ a \in Seq(V)
    <3>1. (\A y \in A : w[y] \in Seq(V)) /\ \A y \in A : f[y] = Among(h, w[y])
      BY <2>4
    <3>2. Among(f, p) = Among(h, Flat(w, p))
      <4>1. Firsts(f, h, w, A, V)
        BY <1>3, <3>1 DEF Firsts
      <4> QED
        BY <2>2, <4>1, AmongFlat
    <3>3. Flat(w, p) \in Seq(V)
      BY <2>2, <3>1, FlatThrough
    <3> QED
      BY <2>5, <3>2, <3>3
  <2>7. Among(f, i) = Among(h, b) /\ b \in Seq(V)
    <3>1. (\A y \in B : w[y] \in Seq(V)) /\ \A y \in B : f[y] = Among(h, w[y])
      BY <2>4
    <3>2. Among(f, i) = Among(h, Flat(w, i))
      <4>1. Firsts(f, h, w, B, V)
        BY <1>3, <3>1 DEF Firsts
      <4> QED
        BY <2>2, <4>1, AmongFlat
    <3>3. Flat(w, i) \in Seq(V)
      BY <2>2, <3>1, FlatThrough
    <3> QED
      BY <2>5, <3>2, <3>3
  <2>8. o \in Seq(V) /\ Among(h, o) = InstanceHit(x, n)
    BY <1>2, <1>3, <2>5, OneElement, AmongEnds
  <2>9. PICK c, d : c = a \o o /\ d = c \o b
    OBVIOUS
  <2>10. /\ c \in Seq(V) /\ Among(h, c) = OrElse(Among(h, a), InstanceHit(x, n))
         /\ d \in Seq(V) /\ Among(h, d) = OrElse(Among(h, c), Among(h, b))
    <3>1. c \in Seq(V) /\ d \in Seq(V)
      BY <2>6, <2>7, <2>8, <2>9, JoinedSets
    <3>2. Among(h, a \o o) = OrElse(Among(h, a), Among(h, o))
      BY <1>3, <2>6, <2>8, AmongJoined
    <3>3. Among(h, c \o b) = OrElse(Among(h, c), Among(h, b))
      BY <1>3, <2>7, <3>1, AmongJoined
    <3> QED
      BY <2>8, <2>9, <3>1, <3>2, <3>3
  <2>11. w[x] = IF Above(x) = Nil THEN d ELSE d \o w[Above(x)]
    BY <2>1, <2>5, <2>9, WalkStep DEF WalksAs
  <2>12. Among(h, w[x]) = OrElse(Among(h, d), IF Above(x) = Nil THEN NotFound ELSE f[Above(x)])
    <3>1. CASE Above(x) = Nil
      BY <2>11, <3>1 DEF OrElse
    <3>2. CASE Above(x) # Nil
      <4>1. PICK t : t = w[Above(x)]
        OBVIOUS
      <4>2. t \in Seq(V) /\ f[Above(x)] = Among(h, t)
        BY <2>3, <3>2, <4>1, LinksFacts
      <4>3. Among(h, d \o t) = OrElse(Among(h, d), Among(h, t))
        BY <1>3, <2>10, <4>2, AmongJoined
      <4> QED
        BY <2>11, <3>2, <4>1, <4>2, <4>3
    <3> QED
      BY <3>1, <3>2
  <2>13. f[x] = IF Among(f, p) # NotFound THEN Among(f, p)
                ELSE IF InstanceHit(x, n) # NotFound THEN InstanceHit(x, n)
                ELSE IF Among(f, i) # NotFound THEN Among(f, i)
                ELSE IF Above(x) = Nil THEN NotFound ELSE f[Above(x)]
    BY <1>1, <2>1, FindStep DEF Finds
  <2>14. f[x] = Among(h, w[x])
    BY <2>6, <2>7, <2>10, <2>12, <2>13 DEF OrElse
  <2> QED
    BY <2>14
<1> HIDE DEF T
<1>6. K \subseteq T
  BY <1>4, <1>5, AlongLinks DEF Acyclic
<1>7. \A x \in Kinds : f[x] = Among(h, w[x])
  BY <1>4, <1>6 DEF T
<1> QED
  BY <1>1, <1>2, <1>7 DEF Finds

\* To put at the end of a list what is not in it yet.
Adds == [x \in Kinds |-> [l \in Seq(Kinds) |-> IF x \in ToSet(l) THEN l ELSE Append(l, x)]]
Dedup(s) == Through(s, Adds, << >>)

LEMMA AppendSet ==
  ASSUME NEW S, NEW s \in Seq(S), NEW x \in S
  PROVE Append(s, x) \in Seq(S) /\ Append(s, x) = s \o <<x>> /\ ToSet(Append(s, x)) = ToSet(s) \union {x}
<1>1. PICK t : t = <<x>>
  OBVIOUS
<1>2. t \in Seq(S) /\ ToSet(t) = {x}
  BY <1>1, OneElement
<1>3. Append(s, x) = s \o t
  BY <1>1
<1>4. s \o t \in Seq(S) /\ ToSet(s \o t) = ToSet(s) \union ToSet(t)
  BY <1>2, JoinedSets
<1> QED
  BY <1>1, <1>2, <1>3, <1>4

LEMMA AddsFacts ==
  /\ \A x \in Kinds : \A l \in Seq(Kinds) :
        /\ Adds[x][l] \in Seq(Kinds) /\ ToSet(Adds[x][l]) = ToSet(l) \union {x}
        /\ Adds[x][l] = IF x \in ToSet(l) THEN l ELSE Append(l, x)
  /\ \A s \in Seq(Kinds) : Steps(s, Adds, Seq(Kinds))
<1>1. \A x \in Kinds : \A l \in Seq(Kinds) : Adds[x][l] = IF x \in ToSet(l) THEN l ELSE Append(l, x)
  BY DEF Adds
<1>3. ASSUME NEW x \in Kinds, NEW l \in Seq(Kinds)
      PROVE Adds[x][l] \in Seq(Kinds) /\ ToSet(Adds[x][l]) = ToSet(l) \union {x}
  <2>1. PICK t : t = <<x>>
    OBVIOUS
  <2>2. t \in Seq(Kinds) /\ ToSet(t) = {x}
    BY <2>1, OneElement
  <2>3. PICK q : q = l \o t
    OBVIOUS
  <2>4. q \in Seq(Kinds) /\ ToSet(q) = ToSet(l) \union {x}
    BY <2>2, <2>3, JoinedSets
  <2>5. Adds[x][l] = IF x \in ToSet(l) THEN l ELSE q
    <3>1. Append(l, x) = l \o t
      BY <2>1
    <3>2. Adds[x][l] = IF x \in ToSet(l) THEN l ELSE Append(l, x)
      BY <1>1, Zenon
    <3> QED
      BY <2>3, <3>1, <3>2, Zenon
  <2> QED
    BY <2>4, <2>5
<1>4. \A s \in Seq(Kinds) : Steps(s, Adds, Seq(Kinds))
  BY <1>3, InSequence DEF Steps
<1> QED
  BY <1>1, <1>3, <1>4

LEMMA AddsSet ==
  ASSUME NEW s \in Seq(Kinds), NEW l \in Seq(Kinds)
  PROVE Through(s, Adds, l) \in Seq(Kinds) /\ ToSet(Through(s, Adds, l)) = ToSet(l) \union ToSet(s)
<1>1. PICK j, W, S : j = Adds /\ W = Seq(Kinds) /\ S = ToSet(s)
  OBVIOUS
<1>2. ASSUME NEW m \in S, NEW a \in W PROVE j[m][a] \in W /\ ToSet(j[m][a]) = ToSet(a) \union {m}
  <2>1. m \in Kinds
    BY <1>1, InSequence
  <2> QED
    BY <1>1, <2>1, AddsFacts
<1> DEFINE Rel == {p \in W \X W : ToSet(p[1]) \subseteq ToSet(p[2]) /\ ToSet(p[2]) \subseteq ToSet(p[1]) \union S}
<1>3. PICK R : R = Rel
  OBVIOUS
<1>4. \A a, b : <<a, b>> \in R <=> /\ a \in W /\ b \in W /\ ToSet(a) \subseteq ToSet(b)
                                   /\ ToSet(b) \subseteq ToSet(a) \union S
  BY <1>3
<1> HIDE DEF Rel
<1>5. \A a \in W : <<a, a>> \in R
  BY <1>4
<1>6. \A a, b, d \in W : <<a, b>> \in R /\ <<b, d>> \in R => <<a, d>> \in R
  BY <1>4
<1>7. \A m \in ToSet(s) : \A a \in W : j[m][a] \in W /\ <<a, j[m][a]>> \in R
  <2> TAKE m \in ToSet(s)
  <2> TAKE a \in W
  <2>1. PICK q : q = j[m][a]
    OBVIOUS
  <2>2. q \in W /\ ToSet(q) = ToSet(a) \union {m} /\ m \in S
    BY <1>1, <1>2, <2>1
  <2>3. <<a, q>> \in R
    BY <1>4, <2>2
  <2> QED
    BY <2>1, <2>2, <2>3
<1>8. PICK c : c = Through(s, j, l)
  OBVIOUS
<1>9. /\ c \in W /\ <<l, c>> \in R
      /\ \A m \in ToSet(s) : \E a \in W : <<j[m][a], c>> \in R
  <2>1. l \in W
    BY <1>1
  <2>2. /\ Through(s, j, l) \in W /\ <<l, Through(s, j, l)>> \in R
        /\ \A m \in ToSet(s) : \E a \in W : <<j[m][a], Through(s, j, l)>> \in R
    BY <1>5, <1>6, <1>7, <2>1, ThroughLeads
  <2> QED
    BY <1>8, <2>2
<1>10. ASSUME NEW m \in S PROVE m \in ToSet(c)
  <2>1. PICK a \in W : <<j[m][a], c>> \in R
    BY <1>1, <1>9
  <2> QED
    BY <1>2, <1>4, <2>1
<1>11. ToSet(l) \subseteq ToSet(c) /\ ToSet(c) \subseteq ToSet(l) \union S
  BY <1>4, <1>9
<1> QED
  BY <1>1, <1>8, <1>9, <1>10, <1>11

LEMMA AddsNothing ==
  ASSUME NEW s \in Seq(Kinds), NEW l \in Seq(Kinds), ToSet(s) \subseteq ToSet(l)
  PROVE Through(s, Adds, l) = l
<1>1. PICK V, j : V = {l} /\ j = Adds
  OBVIOUS
<1>2. ASSUME NEW m \in ToSet(s) PROVE j[m][l] = l
  <2>1. m \in Kinds /\ m \in ToSet(l)
    BY InSequence
  <2> QED
    BY <1>1, <2>1, AddsFacts
<1>3. Steps(s, j, V) /\ l \in V
  BY <1>1, <1>2 DEF Steps
<1>4. Through(s, j, l) \in V
  BY <1>3, ThroughKeeps
<1> QED
  BY <1>1, <1>4

\* A list without repeats is left as it is.
Distinct(s) == \A i, j \in 1 .. Len(s) : s[i] = s[j] => i = j

LEMMA DedupDistinct ==
  ASSUME NEW s \in Seq(Kinds), Distinct(s)
  PROVE Dedup(s) = s
<1>1. PICK n, j, e, W : n = Len(s) /\ j = Adds /\ e = << >> /\ W = Seq(Kinds)
  OBVIOUS
<1>2. e \in W /\ Len(e) = 0 /\ Steps(s, j, W)
  BY <1>1, AddsFacts
<1>3. n \in Nat /\ \A i \in 1 .. n : s[i] \in Kinds
  BY <1>1, InSequence
<1>4. PICK a \in [0 .. Len(s) -> W] : Runs(a, s, j, e)
  BY <1>2, ThroughFacts
<1>5. a[0] = e /\ (\A i \in 1 .. n : a[i] = j[s[i]][a[i - 1]]) /\ Dedup(s) = a[n]
  BY <1>1, <1>4 DEF Runs, Dedup
<1>6. \A i \in 0 .. n : a[i] \in Seq(Kinds)
  BY <1>1
<1> DEFINE T == {i \in 0 .. n : Len(a[i]) = i /\ \A m \in 1 .. i : a[i][m] = s[m]}
<1>7. 0 \in T
  BY <1>2, <1>3, <1>5
<1>8. ASSUME NEW i \in 1 .. n, i - 1 \in T PROVE i \in T
  <2>1. PICK b, x : b = a[i - 1] /\ x = s[i]
    OBVIOUS
  <2>2. i - 1 \in 0 .. n /\ i \in 0 .. n
    BY <1>3
  <2>3. b \in Seq(Kinds) /\ x \in Kinds /\ Len(b) = i - 1 /\ \A m \in 1 .. i - 1 : b[m] = s[m]
    BY <1>3, <1>6, <1>8, <2>1, <2>2
  <2>4. x \notin ToSet(b)
    <3>1. SUFFICES ASSUME x \in ToSet(b) PROVE FALSE
      OBVIOUS
    <3>2. PICK m \in 1 .. i - 1 : b[m] = x
      BY <2>3, <3>1, InSequence
    <3>3. m \in 1 .. n /\ m # i /\ s[m] = s[i]
      BY <1>3, <2>1, <2>3, <3>2
    <3> QED
      BY <1>1, <3>3 DEF Distinct
  <2>5. j[x][b] = Append(b, x)
    BY <1>1, <2>3, <2>4, AddsFacts
  <2>6. a[i] = Append(b, x)
    BY <1>5, <2>1, <2>5
  <2>7. PICK c : c = Append(b, x)
    OBVIOUS
  <2>8. Len(c) = i /\ (\A m \in 1 .. i - 1 : c[m] = b[m]) /\ c[i] = x
    BY <2>3, <2>7
  <2>9. \A m \in 1 .. i : c[m] = s[m]
    BY <2>1, <2>3, <2>8
  <2> QED
    BY <2>2, <2>6, <2>7, <2>8, <2>9
<1> HIDE DEF T
<1>9. \A i \in 0 .. n : i \in T
  BY <1>3, <1>7, <1>8, UpTo
<1>10. PICK d : d = a[n]
  OBVIOUS
<1>11. n \in 0 .. n
  BY <1>3
<1>12. d \in Seq(Kinds) /\ Len(d) = n /\ \A m \in 1 .. n : d[m] = s[m]
  BY <1>6, <1>9, <1>10, <1>11 DEF T
<1>13. d = s
  BY <1>1, <1>12
<1> QED
  BY <1>5, <1>10, <1>13

\* The first hit is where it was.
LEMMA AmongDedup ==
  ASSUME NEW s \in Seq(Kinds), NEW h, \A x \in Kinds : h[x] \in Hits
  PROVE Among(h, Dedup(s)) = Among(h, s) /\ Dedup(s) \in Seq(Kinds) /\ ToSet(Dedup(s)) = ToSet(s)
<1>1. PICK j, t, e, z, V, W : /\ j = Adds /\ t = Tries(Kinds, h) /\ e = << >> /\ z = NotFound
                              /\ V = Hits /\ W = Seq(Kinds)
  OBVIOUS
<1>2. e \in W /\ z \in V /\ Steps(s, j, W) /\ Steps(s, t, V)
  <2>1. e \in W /\ z \in V
    BY <1>1 DEF Hits, NotFound
  <2>2. Steps(s, j, W)
    BY <1>1, AddsFacts
  <2>3. Steps(s, t, V)
    BY <1>1, TriesFacts
  <2> QED
    BY <2>1, <2>2, <2>3
<1> DEFINE Rel == {p \in W \X V : p[2] = Among(h, p[1])}
<1>3. PICK R : R = Rel
  OBVIOUS
<1>4. \A l, v : <<l, v>> \in R <=> l \in W /\ v \in V /\ v = Among(h, l)
  BY <1>3
<1> HIDE DEF Rel
<1>5. <<e, z>> \in R
  <2>1. Through(e, Tries(Kinds, h), z) = z /\ Through(e, Tries(Kinds, h), z) = Among(h, e)
    BY <1>1, <1>2, ThroughNone, AmongThrough
  <2> QED
    BY <1>2, <1>4, <2>1
<1>6. ASSUME NEW m \in ToSet(s), NEW l \in W, NEW v \in V, <<l, v>> \in R
      PROVE <<j[m][l], t[m][v]>> \in R
  <2>1. m \in Kinds /\ l \in Seq(Kinds) /\ v \in Hits /\ v = Among(h, l)
    BY <1>1, <1>4, <1>6, InSequence
  <2>2. t[m][v] = OrElse(v, h[m]) /\ t[m][v] \in V
    BY <1>1, <2>1, TriesFacts
  <2>3. CASE m \in ToSet(l)
    <3>1. j[m][l] = l
      BY <1>1, <2>1, <2>3, AddsFacts
    <3>2. h[m] # NotFound => v # NotFound
      BY <2>1, <2>3, AmongFacts
    <3>3. t[m][v] = v
      BY <2>2, <3>2 DEF OrElse
    <3> QED
      BY <1>6, <3>1, <3>3
  <2>4. CASE m \notin ToSet(l)
    <3>1. PICK o : o = <<m>>
      OBVIOUS
    <3>2. o \in Seq(Kinds) /\ Among(h, o) = h[m]
      BY <2>1, <3>1, OneElement, AmongEnds
    <3>3. j[m][l] = l \o o /\ j[m][l] \in W
      <4>1. j[m][l] = Append(l, m) /\ j[m][l] \in W
        BY <1>1, <2>1, <2>4, AddsFacts
      <4>2. Append(l, m) = l \o <<m>>
        BY <2>1, AppendSet, Zenon
      <4> QED
        BY <3>1, <4>1, <4>2, Zenon
    <3>4. Among(h, l \o o) = OrElse(Among(h, l), Among(h, o))
      BY <2>1, <3>2, AmongJoined
    <3>5. PICK p, q : p = j[m][l] /\ q = t[m][v]
      OBVIOUS
    <3>6. p \in W /\ q \in V /\ q = Among(h, p)
      BY <2>1, <2>2, <3>2, <3>3, <3>4, <3>5
    <3> QED
      BY <1>4, <3>5, <3>6
  <2> QED
    BY <2>3, <2>4
<1>7. <<Through(s, j, e), Through(s, t, z)>> \in R
  BY <1>2, <1>5, <1>6, ThroughAlike
<1>8. Through(s, t, z) = Among(h, s) /\ Through(s, j, e) = Dedup(s)
  BY <1>1, AmongThrough DEF Dedup
<1>9. Dedup(s) \in Seq(Kinds) /\ ToSet(Dedup(s)) = ToSet(s)
  <2>1. ToSet(e) = {}
    BY <1>1 DEF ToSet
  <2>2. Through(s, Adds, e) \in Seq(Kinds) /\ ToSet(Through(s, Adds, e)) = ToSet(e) \union ToSet(s)
    BY <1>1, <1>2, AddsSet
  <2> QED
    BY <1>1, <1>8, <2>1, <2>2
<1> QED
  BY <1>4, <1>7, <1>8, <1>9

\* collect_class_ancestors keeps the places of the walk, each at its first.
\* O: the places it is in the middle of; what else it visited it listed, with
\* the walk from there.
Sound(w, a, O) ==
  /\ O \subseteq a.visited /\ a.visited \ O \subseteq ToSet(a.list) /\ ToSet(a.list) \subseteq a.visited
  /\ \A y \in a.visited \ O : ToSet(w[y]) \subseteq ToSet(a.list)
Clear(w, x, O) == ToSet(w[x]) \cap O = {}
Adding(w) == [x \in Kinds |-> [l \in Seq(Kinds) |-> Through(w[x], Adds, l)]]
Collected(w, c, x) ==
  \A a \in Collections, O \in SUBSET Kinds :
     Sound(w, a, O) /\ Clear(w, x, O) =>
        c[x][a] \in Collections /\ Sound(w, c[x][a], O) /\ c[x][a].list = Adding(w)[x][a.list]

LEMMA AddingFacts ==
  ASSUME NEW w, WalksAs(w)
  PROVE /\ \A x \in Kinds : \A l \in Seq(Kinds) :
              Adding(w)[x][l] = Through(w[x], Adds, l) /\ Adding(w)[x][l] \in Seq(Kinds)
        /\ \A s \in Seq(Modules) : \A l \in Seq(Kinds) :
              /\ Steps(s, Adding(w), Seq(Kinds))
              /\ Through(s, Adding(w), l) = Through(Flat(w, s), Adds, l)
<1>1. PICK f, W, g : f = Adding(w) /\ W = Seq(Kinds) /\ g = Adds
  OBVIOUS
<1>2. \A x \in Kinds : \A l \in W : f[x][l] = Through(w[x], g, l)
  BY <1>1 DEF Adding
<1>3. \A x \in Kinds : w[x] \in Seq(Kinds)
  BY DEF WalksAs
<1>4. \A l \in Seq(Kinds) : Steps(l, g, W)
  BY <1>1, AddsFacts
<1>5. \A x \in Kinds : \A l \in W : Through(w[x], g, l) \in W
  BY <1>1, <1>3, AddsSet
<1>6. ASSUME NEW s \in Seq(Modules), NEW l \in W
      PROVE Steps(s, f, W) /\ Through(s, f, l) = Through(Flat(w, s), g, l)
  <2>1. (\A m \in Modules : w[m] \in Seq(Kinds)) /\ \A m \in Modules : \A v \in W : f[m][v] = Through(w[m], g, v)
    BY <1>2, <1>3 DEF Kinds
  <2> QED
    <3>1. Follows(f, w, Modules, g, Kinds, W)
      BY <1>4, <2>1 DEF Follows
    <3> QED
      BY <3>1, ThroughFlat
<1> QED
  BY <1>1, <1>2, <1>5, <1>6

AllCollected(w, c, mods, O, a) ==
  /\ Steps(mods, c, Collections) /\ mods \in Seq(Modules) /\ O \in SUBSET Kinds
  /\ \A m \in ToSet(mods) : Collected(w, c, m) /\ Clear(w, m, O)
  /\ a \in Collections /\ Sound(w, a, O)
CollectedAs(w, b, mods, l, O) ==
  b \in Collections /\ Sound(w, b, O) /\ b.list = Through(Flat(w, mods), Adds, l)

LEMMA CollectedThrough ==
  ASSUME NEW w, WalksAs(w), NEW c, NEW mods, NEW O, NEW a, AllCollected(w, c, mods, O, a)
  PROVE CollectedAs(w, Through(mods, c, a), mods, a.list, O)
<1> mods \in Seq(Modules) /\ O \in SUBSET Kinds /\ a \in Collections /\ Sound(w, a, O)
  BY DEF AllCollected
<1>1. PICK g, V, W, l : g = Adding(w) /\ V = Collections /\ W = Seq(Kinds) /\ l = a.list
  OBVIOUS
<1>2. \A v \in V : v.list \in W
  BY <1>1 DEF Collections
<1> DEFINE Rel == {p \in V \X W : Sound(w, p[1], O) /\ p[1].list = p[2]}
<1>3. PICK R : R = Rel
  OBVIOUS
<1>4. \A v, r : <<v, r>> \in R <=> v \in V /\ r \in W /\ Sound(w, v, O) /\ v.list = r
  BY <1>3
<1> HIDE DEF Rel
<1>5. <<a, l>> \in R /\ a \in V /\ l \in W
  BY <1>1, <1>2, <1>4
<1>6. ASSUME NEW m \in ToSet(mods), NEW v \in V, NEW r \in W, <<v, r>> \in R
      PROVE <<c[m][v], g[m][r]>> \in R
  <2>1. Sound(w, v, O) /\ v.list = r /\ v \in Collections
    BY <1>1, <1>4, <1>6
  <2>2. PICK p, q : p = c[m][v] /\ q = g[m][r]
    OBVIOUS
  <2>3. p \in Collections /\ Sound(w, p, O) /\ p.list = q
    BY <1>1, <2>1, <2>2 DEF AllCollected, Collected
  <2>4. p \in V /\ q \in W
    BY <1>1, <1>2, <2>3
  <2> QED
    BY <1>4, <2>2, <2>3, <2>4
<1>7. Steps(mods, c, V) /\ Steps(mods, g, W)
  BY <1>1, <1>5, AddingFacts DEF AllCollected
<1>8. <<Through(mods, c, a), Through(mods, g, l)>> \in R
  BY <1>5, <1>6, <1>7, ThroughAlike
<1>9. Through(mods, g, l) = Through(Flat(w, mods), Adds, l)
  BY <1>1, <1>5, AddingFacts
<1> QED
  BY <1>1, <1>4, <1>8, <1>9 DEF CollectedAs

\* The walk from x in its parts.
WalkParts(w, x, a, b, up) ==
  /\ a = Flat(w, prepended[x]) /\ b = Flat(w, included[x])
  /\ up = IF Above(x) = Nil THEN << >> ELSE w[Above(x)]
  /\ a \in Seq(Kinds) /\ b \in Seq(Kinds) /\ up \in Seq(Kinds)
  /\ w[x] = ((a \o <<x>>) \o b) \o up

LEMMA WalkSplit ==
  ASSUME ListsOK, NEW w, WalksAs(w), NEW x \in Kinds
  PROVE \E a, b, up : WalkParts(w, x, a, b, up)
<1>1. \A y \in Kinds : w[y] \in Seq(Kinds)
  BY DEF WalksAs
<1>2. \A y \in Links(x) : w[y] \in Seq(Kinds)
  BY <1>1, LinksFacts
<1>3. PICK a, b, up : /\ a = Flat(w, prepended[x]) /\ b = Flat(w, included[x])
                      /\ up = IF Above(x) = Nil THEN << >> ELSE w[Above(x)]
  OBVIOUS
<1>4. a \in Seq(Kinds) /\ b \in Seq(Kinds)
  BY <1>2, <1>3, WalkTyped
<1>5. up \in Seq(Kinds)
  BY <1>2, <1>3, LinksFacts
<1>6. PICK o : o = <<x>>
  OBVIOUS
<1>7. o \in Seq(Kinds)
  BY <1>6, OneElement
<1>8. PICK d : d = (a \o o) \o b
  OBVIOUS
<1>9. d \in Seq(Kinds)
  BY <1>4, <1>7, <1>8
<1>10. w[x] = IF Above(x) = Nil THEN d ELSE d \o w[Above(x)]
  BY <1>3, <1>6, <1>8, WalkStep DEF WalksAs
<1>11. d \o << >> = d
  BY <1>9
<1>12. w[x] = d \o up
  BY <1>3, <1>10, <1>11
<1> QED
  BY <1>3, <1>4, <1>5, <1>6, <1>8, <1>12 DEF WalkParts

\* Through the walk is through its parts.
LEMMA ThroughWalk ==
  ASSUME NEW w, NEW x \in Kinds, NEW a, NEW b, NEW up, WalkParts(w, x, a, b, up),
         NEW V, NEW g, NEW v \in V, \A l \in Seq(Kinds) : Steps(l, g, V)
  PROVE /\ Through(a, g, v) \in V /\ g[x][Through(a, g, v)] \in V
        /\ Through(b, g, g[x][Through(a, g, v)]) \in V
        /\ Through(w[x], g, v) = Through(up, g, Through(b, g, g[x][Through(a, g, v)]))
<1>1. PICK o : o = <<x>>
  OBVIOUS
<1>2. a \in Seq(Kinds) /\ b \in Seq(Kinds) /\ up \in Seq(Kinds) /\ o \in Seq(Kinds)
  BY <1>1, OneElement DEF WalkParts
<1>3. PICK c : c = a \o o
  OBVIOUS
<1>4. PICK d : d = c \o b
  OBVIOUS
<1>5. w[x] = d \o up
  BY <1>1, <1>3, <1>4 DEF WalkParts
<1>6. c \in Seq(Kinds)
  BY <1>2, <1>3, JoinedSets
<1>7. d \in Seq(Kinds)
  BY <1>2, <1>4, <1>6, JoinedSets
<1>8. Steps(a, g, V) /\ Steps(b, g, V) /\ Steps(up, g, V) /\ Steps(o, g, V) /\ Steps(c, g, V) /\ Steps(d, g, V)
  BY <1>2, <1>6, <1>7
<1>9. Through(w[x], g, v) = Through(up, g, Through(d, g, v))
  BY <1>2, <1>5, <1>7, <1>8, ThroughJoined
<1>10. Through(d, g, v) = Through(b, g, Through(c, g, v))
  BY <1>2, <1>4, <1>6, <1>8, ThroughJoined
<1>11. PICK p : p = Through(a, g, v)
  OBVIOUS
<1>12. p \in V
  BY <1>2, <1>8, <1>11, ThroughKeeps
<1>13. Through(c, g, v) = Through(o, g, p)
  BY <1>2, <1>3, <1>8, <1>11, ThroughJoined
<1>14. Through(o, g, p) = g[x][p]
  BY <1>1, <1>8, <1>12, ThroughOne
<1>15. Through(o, g, p) \in V
  BY <1>2, <1>8, <1>12, ThroughKeeps
<1>16. PICK q : q = g[x][p]
  OBVIOUS
<1>17. Through(b, g, q) \in V
  BY <1>2, <1>8, <1>14, <1>15, <1>16, ThroughKeeps
<1> QED
  BY <1>9, <1>10, <1>11, <1>12, <1>13, <1>14, <1>15, <1>16, <1>17

LEMMA CollectedStep ==
  ASSUME ListsOK, Acyclic, NEW w, WalksAs(w), NEW c, Collects(c), NEW x \in Kinds,
         \A y \in Links(x) : Collected(w, c, y)
  PROVE Collected(w, c, x)
<1> SUFFICES ASSUME NEW a \in Collections, NEW O \in SUBSET Kinds, Sound(w, a, O), Clear(w, x, O)
             PROVE c[x][a] \in Collections /\ Sound(w, c[x][a], O) /\ c[x][a].list = Adding(w)[x][a.list]
  BY DEF Collected
<1>1. PICK s, u : s = w[x] /\ u = a.list
  OBVIOUS
<1>2. s \in Seq(Kinds) /\ u \in Seq(Kinds) /\ a.visited \subseteq Kinds
  BY <1>1 DEF WalksAs, Collections
<1>3. x \in ToSet(s) /\ \A y \in Links(x) : ToSet(w[y]) \subseteq ToSet(s)
  BY <1>1, WalkHolds
<1>4. \A y \in Links(x) : x \notin ToSet(w[y])
  BY WalkOrder
<1>5. c[x][a] = CollectAt(c, x, a)
  BY DEF Collects
<1>6. Adding(w)[x][u] = Through(s, Adds, u)
  BY <1>1, <1>2, AddingFacts
<1>7. CASE x \in a.visited
  <2>1. c[x][a] = a
    BY <1>5, <1>7, CollectStep
  <2>2. x \notin O
    BY <1>1, <1>3 DEF Clear
  <2>3. ToSet(s) \subseteq ToSet(u)
    BY <1>1, <1>7, <2>2 DEF Sound
  <2>4. Through(s, Adds, u) = u
    BY <1>2, <2>3, AddsNothing
  <2> QED
    BY <1>1, <1>6, <2>1, <2>4
<1>8. CASE x \notin a.visited
  <2>1. PICK P, Q, I : P = prepended[x] /\ I = included[x] /\ Q = O \union {x}
    OBVIOUS
  <2>2. P \in Seq(Modules) /\ I \in Seq(Modules) /\ Q \in SUBSET Kinds
    BY <2>1 DEF ListsOK
  <2>3. \A y \in Links(x) : Collected(w, c, y) /\ Clear(w, y, Q)
    BY <1>1, <1>3, <1>4, <2>1 DEF Clear
  <2>4. \A m \in ToSet(P) \union ToSet(I) : m \in Links(x) /\ m \in Kinds
    BY <2>1, LinksFacts
  <2>5. Steps(P, c, Collections) /\ Steps(I, c, Collections)
    BY <2>4 DEF Steps, Collects, Collecting
  <2>6. PICK A, B, U : WalkParts(w, x, A, B, U)
    BY WalkSplit
  <2>7. A = Flat(w, P) /\ B = Flat(w, I) /\ A \in Seq(Kinds) /\ B \in Seq(Kinds) /\ U \in Seq(Kinds)
        /\ U = IF Above(x) = Nil THEN << >> ELSE w[Above(x)]
    BY <2>1, <2>6 DEF WalkParts
  <2>8. PICK m, e : m = Marked(a, x) /\ e = Through(P, c, m)
    OBVIOUS
  <2>9. m \in Collections /\ m.list = u /\ m.visited = a.visited \union {x}
    BY <1>1, <2>8, MarkedFacts
  <2>10. Sound(w, m, Q)
    BY <1>1, <2>1, <2>9 DEF Sound
  <2>11. e \in Collections /\ Sound(w, e, Q) /\ e.list = Through(A, Adds, u)
    <3>1. AllCollected(w, c, P, Q, m)
      BY <2>2, <2>3, <2>4, <2>5, <2>9, <2>10 DEF AllCollected
    <3>2. CollectedAs(w, Through(P, c, m), P, m.list, Q)
      BY <3>1, CollectedThrough
    <3> QED
      BY <2>7, <2>8, <2>9, <3>2 DEF CollectedAs
  <2>12. PICK l : l = Listed(e, x)
    OBVIOUS
  <2>13. x \notin ToSet(e.list)
    <3>1. x \notin ToSet(A)
      <4>1. P \in Seq(Modules) /\ \A y \in Modules : w[y] \in Seq(Kinds)
        BY <2>2 DEF WalksAs, Kinds
      <4>2. \A z : z \in ToSet(Flat(w, P)) <=> \E y \in ToSet(P) : z \in ToSet(w[y])
        BY <4>1, FlatSet
      <4> QED
        BY <1>4, <2>4, <2>7, <4>2
    <3>2. x \notin ToSet(u)
      BY <1>1, <1>8 DEF Sound
    <3>3. ToSet(Through(A, Adds, u)) = ToSet(u) \union ToSet(A)
      BY <1>2, <2>7, AddsSet
    <3> QED
      BY <2>11, <3>1, <3>2, <3>3
  <2>14. PICK q : q = e.list
    OBVIOUS
  <2>15. q \in Seq(Kinds)
    BY <2>11, <2>14 DEF Collections
  <2>16. l \in Collections /\ l.list = Append(q, x) /\ l.visited = e.visited /\ ToSet(l.list) = ToSet(q) \union {x}
    BY <2>11, <2>12, <2>14, MarkedFacts
  <2>17. l.list = Adds[x][q]
    <3>1. Adds[x][q] = Append(q, x)
      BY <2>13, <2>14, <2>15, AddsFacts
    <3> QED
      BY <2>16, <3>1, Zenon
  <2>18. Sound(w, l, Q)
    <3>1. PICK v, r : v = l.visited /\ r = ToSet(l.list)
      OBVIOUS
    <3>2. x \in Q /\ Q \subseteq e.visited /\ e.visited \ Q \subseteq ToSet(q) /\ ToSet(q) \subseteq e.visited
          /\ \A y \in e.visited \ Q : ToSet(w[y]) \subseteq ToSet(q)
      BY <2>1, <2>11, <2>14 DEF Sound
    <3>3. v = e.visited /\ r = ToSet(q) \union {x}
      BY <2>16, <3>1
    <3>4. Q \subseteq v /\ v \ Q \subseteq r /\ r \subseteq v /\ \A y \in v \ Q : ToSet(w[y]) \subseteq r
      BY <3>2, <3>3
    <3> QED
      BY <3>1, <3>4 DEF Sound
  <2>19. PICK b : b = Through(I, c, l)
    OBVIOUS
  <2>20. b \in Collections /\ Sound(w, b, Q) /\ b.list = Through(B, Adds, Adds[x][q])
    <3>1. l \in Collections
      BY <2>16
    <3>2. AllCollected(w, c, I, Q, l)
      BY <2>2, <2>3, <2>4, <2>5, <2>18, <3>1 DEF AllCollected
    <3>3. CollectedAs(w, Through(I, c, l), I, l.list, Q)
      BY <3>2, CollectedThrough
    <3> QED
      BY <2>7, <2>17, <2>19, <3>3 DEF CollectedAs
  <2>21. Late(c, x, a) = b
    BY <2>1, <2>8, <2>12, <2>19 DEF Late
  <2>22. PICK r, p : r = c[x][a] /\ p = b.list
    OBVIOUS
  <2>23. p \in Seq(Kinds)
    BY <2>20, <2>22 DEF Collections
  <2>24. r \in Collections /\ Sound(w, r, Q) /\ r.list = Through(U, Adds, p)
    <3>1. CASE Above(x) = Nil
      <4>1. r = b
        BY <1>5, <1>8, <2>21, <2>22, <3>1, CollectStep
      <4>2. Through(<< >>, Adds, p) = p
        BY <2>23, ThroughNone
      <4> QED
        BY <2>7, <2>20, <2>22, <3>1, <4>1, <4>2
    <3>2. CASE Above(x) # Nil
      <4>1. PICK y : y = Above(x)
        OBVIOUS
      <4>2. r = c[y][b]
        BY <1>5, <1>8, <2>21, <2>22, <3>2, <4>1, CollectStep
      <4>3. y \in Links(x) /\ y \in Kinds
        BY <3>2, <4>1, LinksFacts
      <4>4. c[y][b] \in Collections /\ Sound(w, c[y][b], Q) /\ c[y][b].list = Adding(w)[y][b.list]
        BY <2>2, <2>3, <2>20, <4>3 DEF Collected
      <4>5. Adding(w)[y][p] = Through(w[y], Adds, p)
        BY <2>23, <4>3, AddingFacts
      <4> QED
        BY <2>7, <2>22, <3>2, <4>1, <4>2, <4>4, <4>5
    <3> QED
      BY <3>1, <3>2
  <2>25. Through(s, Adds, u) = Through(U, Adds, p)
    <3>1. PICK g, W : g = Adds /\ W = Seq(Kinds)
      OBVIOUS
    <3>2. u \in W /\ \A t \in Seq(Kinds) : Steps(t, g, W)
      BY <1>2, <3>1, AddsFacts
    <3>3. Through(w[x], g, u) = Through(U, g, Through(B, g, g[x][Through(A, g, u)]))
      BY <2>6, <3>2, ThroughWalk
    <3> QED
      BY <1>1, <2>11, <2>14, <2>20, <2>22, <3>1, <3>3
  <2>26. r.list = Adding(w)[x][u] /\ ToSet(r.list) = ToSet(u) \union ToSet(s)
    BY <1>2, <1>6, <2>24, <2>25, AddsSet
  <2>27. Sound(w, r, O)
    <3>1. PICK v, t : v = r.visited /\ t = ToSet(r.list)
      OBVIOUS
    <3>2. Q \subseteq v /\ v \ Q \subseteq t /\ t \subseteq v /\ \A y \in v \ Q : ToSet(w[y]) \subseteq t
      BY <2>24, <3>1 DEF Sound
    <3>3. x \in t /\ ToSet(w[x]) \subseteq t
      BY <1>1, <1>3, <2>26, <3>1
    <3>4. \A y \in v \ O : y = x \/ y \in v \ Q
      BY <2>1
    <3>5. O \subseteq v /\ v \ O \subseteq t /\ \A y \in v \ O : ToSet(w[y]) \subseteq t
      BY <2>1, <3>2, <3>3, <3>4
    <3> QED
      BY <3>1, <3>2, <3>5 DEF Sound
  <2> QED
    BY <1>1, <2>22, <2>24, <2>26, <2>27
<1> QED
  BY <1>7, <1>8

LEMMA AncestorsWalk ==
  ASSUME ListsOK, Acyclic, NEW w, WalksAs(w), NEW k \in Kinds
  PROVE Ancestors(k) = Dedup(w[k])
<1>1. PICK c : Collects(c)
  BY CollectUnfold
<1>2. \A x \in Kinds : Collected(w, c, x)
  <2> DEFINE T == {x \in Kinds : Collected(w, c, x)}
  <2>1. ASSUME NEW x \in Kinds, Graph[x] \subseteq T PROVE x \in T
    BY <1>1, <2>1, LinksFacts, CollectedStep
  <2>2. PICK L, K : L = Graph /\ K = Kinds
    OBVIOUS
  <2> HIDE DEF T
  <2>3. K \subseteq T
    BY <2>1, <2>2, AlongLinks DEF Acyclic
  <2> QED
    BY <2>2, <2>3 DEF T
<1>3. PICK n, e, O : n = Nothing /\ e = << >> /\ O = {}
  OBVIOUS
<1>4. n \in Collections /\ n.visited = {} /\ n.list = e /\ e \in Seq(Kinds) /\ ToSet(e) = {} /\ O \in SUBSET Kinds
  BY <1>3 DEF Nothing, Collections, ToSet
<1>5. Sound(w, n, O) /\ Clear(w, k, O)
  BY <1>3, <1>4 DEF Sound, Clear
<1>6. c[k][n].list = Adding(w)[k][n.list]
  BY <1>2, <1>4, <1>5 DEF Collected
<1>7. Adding(w)[k][e] = Through(w[k], Adds, e)
  BY <1>4, AddingFacts
<1>8. Ancestors(k) = c[k][n].list
  BY <1>1, <1>3 DEF Collects
<1> QED
  BY <1>3, <1>4, <1>6, <1>7, <1>8 DEF Dedup

LEMMA FirstOwnAmong ==
  ASSUME MethodsOK, NEW n \in Names, NEW t \in Seq(Kinds)
  PROVE FirstOwn(t, n) = Among(Own(n), t)
<1>1. PICK h : h = Own(n)
  OBVIOUS
<1>2. \A x \in Kinds : h[x] = InstanceHit(x, n)
  BY <1>1 DEF Own
<1>3. \A i \in DOMAIN t : InstanceHit(t[i], n) = h[t[i]]
  BY <1>2, InSequence
<1>4. [i \in DOMAIN t |-> InstanceHit(t[i], n)] = [i \in DOMAIN t |-> h[t[i]]]
  BY <1>3
<1> QED
  BY <1>1, <1>4 DEF FirstOwn, Among

\* What a call finds is the first of the ancestors with an entry.
LEMMA FindAncestors ==
  ASSUME ListsOK, MethodsOK, Acyclic, NEW n \in Names, NEW k \in Kinds
  PROVE FindInstance(k, n) = FirstOwn(Ancestors(k), n) /\ Ancestors(k) \in Seq(Kinds)
<1>1. PICK w : WalksAs(w)
  BY WalkUnfold
<1>2. PICK h, s : h = Own(n) /\ s = w[k]
  OBVIOUS
<1>3. FindInstance(k, n) = Among(h, s) /\ s \in Seq(Kinds)
  BY <1>1, <1>2, FindWalk DEF WalksAs
<1>4. \A x \in Kinds : h[x] \in Hits /\ h[x] = InstanceHit(x, n)
  BY <1>2, HitFacts DEF Own
<1>5. PICK t : t = Dedup(s)
  OBVIOUS
<1>6. Among(h, t) = Among(h, s) /\ t \in Seq(Kinds)
  BY <1>3, <1>4, <1>5, AmongDedup
<1>7. Ancestors(k) = t
  BY <1>1, <1>2, <1>5, AncestorsWalk
<1>8. FirstOwn(t, n) = Among(h, t)
  BY <1>2, <1>6, FirstOwnAmong
<1> QED
  BY <1>3, <1>6, <1>7, <1>8

\* A list is cut before and after the first place of x.
CutAt(s, a, x, b) == s = (a \o <<x>>) \o b

JoinedAs(j, s, t, n, m) == /\ Len(j) = n + m /\ \A i \in 1 .. n : j[i] = s[i]
                           /\ \A i \in 1 .. m : j[n + i] = t[i]

LEMMA JoinedPlaces ==
  ASSUME NEW S, NEW s \in Seq(S), NEW t \in Seq(S)
  PROVE JoinedAs(s \o t, s, t, Len(s), Len(t)) /\ s \o t \in Seq(S)
<1>1. PICK j, n, m : j = s \o t /\ n = Len(s) /\ m = Len(t)
  OBVIOUS
<1>2. j \in Seq(S) /\ Len(j) = n + m /\ n \in Nat /\ m \in Nat
  BY <1>1
<1>3. (\A i \in 1 .. n : j[i] = s[i]) /\ \A i \in 1 .. m : j[n + i] = t[i]
  BY <1>1, <1>2
<1> QED
  BY <1>1, <1>2, <1>3 DEF JoinedAs

LEMMA Cut ==
  ASSUME NEW S, NEW s \in Seq(S), NEW x \in ToSet(s)
  PROVE \E a, b \in Seq(S) : CutAt(s, a, x, b) /\ x \notin ToSet(a)
<1>1. PICK n : n = Len(s)
  OBVIOUS
<1>2. n \in Nat /\ (\A i \in 1 .. n : s[i] \in S) /\ \E i \in 1 .. n : s[i] = x
  BY <1>1, InSequence
<1> DEFINE Misses(i) == \A j \in 1 .. i : s[j] # x
           First(i) == s[i] = x /\ Misses(i - 1)
           T == {i \in 0 .. n : Misses(i) \/ \E j \in 1 .. n : First(j)}
<1>3. 0 \in T
  BY <1>2
<1>4. ASSUME NEW i \in 1 .. n, i - 1 \in T PROVE i \in T
  <2>1. CASE \E j \in 1 .. n : First(j)
    BY <2>1
  <2>2. CASE ~\E j \in 1 .. n : First(j)
    <3>1. Misses(i - 1)
      BY <1>4, <2>2
    <3>2. s[i] # x
      BY <2>2, <3>1
    <3>3. Misses(i)
      BY <1>2, <3>1, <3>2
    <3> QED
      BY <3>3
  <2> QED
    BY <2>1, <2>2
<1> HIDE DEF T
<1>5. \A i \in 0 .. n : i \in T
  BY <1>2, <1>3, <1>4, UpTo
<1>6. PICK k \in 1 .. n : First(k)
  <2>1. n \in 0 .. n
    BY <1>2
  <2>2. ~Misses(n)
    BY <1>2
  <2> QED
    BY <1>5, <2>1, <2>2 DEF T
<1>7. PICK a, b, o : /\ a = SubSeq(s, 1, k - 1) /\ b = SubSeq(s, k + 1, n) /\ o = <<x>>
  OBVIOUS
<1>8. /\ a \in Seq(S) /\ Len(a) = k - 1 /\ \A i \in 1 .. k - 1 : a[i] = s[i]
  <2>1. k - 1 \in Nat /\ k - 1 <= Len(s)
    BY <1>1, <1>2
  <2>2. PICK m : m = k - 1
    OBVIOUS
  <2>3. a = SubSeq(s, 1, m) /\ m \in Nat /\ m <= Len(s)
    BY <1>7, <2>1, <2>2
  <2>4. a \in Seq(S) /\ Len(a) = m /\ \A i \in 1 .. m : a[i] = s[i]
    BY <2>3
  <2> QED
    BY <2>2, <2>4
<1>9. b \in Seq(S) /\ Len(b) = n - k /\ \A i \in 1 .. n - k : b[i] = s[k + i]
  <2>1. b = SubSeq(s, k + 1, n) /\ n = Len(s)
    BY <1>1, <1>7
  <2> QED
    BY <1>2, <2>1
<1>10. o \in Seq(S) /\ Len(o) = 1 /\ o[1] = x
  BY <1>2, <1>6, <1>7
<1>11. PICK c : c = a \o o
  OBVIOUS
<1>12. c \in Seq(S) /\ Len(c) = k /\ (\A i \in 1 .. k - 1 : c[i] = s[i]) /\ c[k] = s[k]
  <2>1. JoinedAs(c, a, o, k - 1, 1) /\ c \in Seq(S)
    BY <1>8, <1>10, <1>11, JoinedPlaces
  <2>2. 1 \in 1 .. 1 /\ (k - 1) + 1 = k
    BY <1>2
  <2> QED
    BY <1>6, <1>8, <1>10, <2>1, <2>2 DEF JoinedAs
<1>13. PICK d : d = c \o b
  OBVIOUS
<1>14. d \in Seq(S) /\ Len(d) = n /\ (\A i \in 1 .. k : d[i] = c[i]) /\ \A i \in 1 .. n - k : d[k + i] = b[i]
  <2>1. JoinedAs(d, c, b, k, n - k) /\ d \in Seq(S)
    BY <1>9, <1>12, <1>13, JoinedPlaces
  <2>2. k + (n - k) = n
    BY <1>2
  <2> QED
    BY <2>1, <2>2 DEF JoinedAs
<1>15. \A i \in 1 .. n : d[i] = s[i]
  <2> TAKE i \in 1 .. n
  <2>1. CASE i <= k
    BY <1>2, <1>12, <1>14, <2>1
  <2>2. CASE i > k
    <3>1. i - k \in 1 .. n - k /\ k + (i - k) = i
      BY <1>2, <2>2
    <3> QED
      BY <1>9, <1>14, <3>1
  <2> QED
    BY <1>2, <2>1, <2>2
<1>16. d = s
  BY <1>1, <1>14, <1>15
<1>17. x \notin ToSet(a)
  <2>1. \A i \in 1 .. Len(a) : a[i] # x
    BY <1>6, <1>8
  <2> QED
    BY <1>8, <2>1, InSequence
<1>18. CutAt(s, a, x, b)
  BY <1>7, <1>11, <1>13, <1>16 DEF CutAt
<1> QED
  BY <1>8, <1>9, <1>17, <1>18

LEMMA AfterCut ==
  ASSUME NEW S, NEW s \in Seq(S), NEW x \in S, NEW a \in Seq(S), NEW b \in Seq(S), CutAt(s, a, x, b)
  PROVE Len(a) + 1 \in 1 .. Len(s) /\ s[Len(a) + 1] = x /\ After(s, Len(a) + 1) = b
<1>1. PICK o, k, m : o = <<x>> /\ k = Len(a) + 1 /\ m = Len(b)
  OBVIOUS
<1>2. o \in Seq(S) /\ Len(o) = 1 /\ o[1] = x /\ k - 1 = Len(a) /\ k \in Nat /\ k - 1 \in Nat /\ m \in Nat
  BY <1>1
<1>3. PICK c : c = a \o o
  OBVIOUS
<1>4. c \in Seq(S) /\ Len(c) = k /\ c[k] = x
  <2>1. JoinedAs(c, a, o, k - 1, 1) /\ c \in Seq(S)
    BY <1>2, <1>3, JoinedPlaces
  <2>2. 1 \in 1 .. 1 /\ (k - 1) + 1 = k
    BY <1>2
  <2> QED
    BY <1>2, <2>1, <2>2 DEF JoinedAs
<1>5. s = c \o b
  BY <1>1, <1>3 DEF CutAt
<1>6. Len(s) = k + m /\ s[k] = c[k] /\ \A i \in 1 .. m : s[k + i] = b[i]
  <2>1. JoinedAs(s, c, b, k, m)
    BY <1>1, <1>4, <1>5, JoinedPlaces
  <2>2. k \in 1 .. k
    <3>1. k >= 1
      BY <1>1, <1>2
    <3> QED
      BY <1>2, <3>1
  <2> QED
    BY <2>1, <2>2 DEF JoinedAs
<1>7. PICK n, d : n = Len(s) /\ d = SubSeq(s, k + 1, n)
  OBVIOUS
<1>8. d \in Seq(S) /\ Len(d) = n - k /\ \A i \in 1 .. n - k : d[i] = s[k + i]
  <2>1. k + 1 \in 1 .. n + 1 /\ n \in Nat
    BY <1>2, <1>6, <1>7
  <2>2. \A i \in k + 1 .. n : s[i] \in S
    BY <1>2, <1>7
  <2>3. n - k = IF k + 1 <= n THEN (n - (k + 1)) + 1 ELSE 0
    BY <1>2, <1>6, <1>7
  <2> QED
    BY <1>2, <1>6, <1>7, <2>1, <2>2, <2>3
<1>9. d = b
  <2>1. n - k = m
    BY <1>2, <1>6, <1>7
  <2>2. Len(d) = Len(b) /\ \A i \in 1 .. Len(b) : d[i] = b[i]
    BY <1>1, <1>6, <1>8, <2>1
  <2> QED
    BY <1>8, <2>2
<1>10. After(s, k) = d
  BY <1>7 DEF After
<1>11. k \in 1 .. Len(s)
  BY <1>2, <1>6
<1> QED
  BY <1>1, <1>4, <1>6, <1>9, <1>10, <1>11

LEMMA NoRepeatsFacts ==
  ASSUME NEW S, NEW s \in Seq(S), NoRepeats(s)
  PROVE Distinct(s)
<1>1. PICK n, T : n = Len(s) /\ T = ToSet(s)
  OBVIOUS
<1>2. n \in Nat /\ (\A i \in 1 .. n : s[i] \in T) /\ (\A x \in T : \E i \in 1 .. n : s[i] = x) /\ Cardinality(T) = n
      /\ s = [i \in 1 .. n |-> s[i]]
  BY <1>1, InSequence DEF NoRepeats
<1>3. PICK D : D = 1 .. n
  OBVIOUS
<1>4. s \in Surjection(D, T)
  BY <1>2, <1>3 DEF Surjection
<1>5. IsFiniteSet(D) /\ Cardinality(D) = n
  <2>1. 1 \in Int /\ n \in Int
    BY <1>2
  <2>2. IsFiniteSet(1 .. n) /\ Cardinality(1 .. n) = IF 1 > n THEN 0 ELSE n - 1 + 1
    BY <2>1, FS_Interval
  <2> QED
    BY <1>2, <1>3, <2>2
<1>6. s \in Injection(D, T)
  BY <1>2, <1>4, <1>5, FS_Surjection
<1>7. \A i, j \in D : s[i] = s[j] => i = j
  BY <1>6 DEF Injection, IsInjective
<1> QED
  BY <1>1, <1>3, <1>7 DEF Distinct

(***************************************************************************)
(* super.                                                                  *)
(***************************************************************************)
Out == [x \in Kinds |-> IF Outer[x] = Nil THEN {} ELSE {Outer[x]}]

LEMMA OutLinked == WellLinked(Out, Kinds)
<1>1. \A x \in Kinds : Out[x] = IF Outer[x] = Nil THEN {} ELSE {Outer[x]}
  BY DEF Out
<1>2. \A x \in Kinds : Out[x] \subseteq Kinds
  <2>1. \A x \in Kinds : Outer[x] \in Kinds \union {Nil}
    BY LookupAssumption DEF Kinds
  <2> QED
    BY <1>1, <2>1
<1>3. ASSUME NEW S \in SUBSET Kinds, S # {} PROVE \E x \in S : Out[x] \cap S = {}
  <2>1. PICK x \in S : Outer[x] \notin S
    BY <1>3, LookupAssumption DEF Kinds
  <2> QED
    BY <1>1, <2>1
<1>4. Out \in [Kinds -> SUBSET Kinds]
  BY <1>2 DEF Out
<1> QED
  BY <1>3, <1>4 DEF WellLinked

ScopeAt(f, x, n) == IF own[x][n] # "none" THEN own[x][n]
                    ELSE IF Outer[x] # Nil THEN f[Outer[x]]
                    ELSE IF n \in top THEN "public" ELSE "none"

\* The scopes around a class are asked only for what the class does not have.
LEMMA ScopeFacts ==
  ASSUME MethodsOK, NEW n \in Names
  PROVE \A x \in Kinds : own[x][n] # "none" => ScopeGet(x, n) = own[x][n]
<1> DEFINE rule == [x \in Kinds |-> [f \in [Kinds -> Entries] |-> ScopeAt(f, x, n)]]
           Unfolds(f) == f = [x \in Kinds |-> IF own[x][n] # "none" THEN own[x][n]
                                              ELSE IF Outer[x] # Nil THEN f[Outer[x]]
                                              ELSE IF n \in top THEN "public" ELSE "none"]
           chosen == CHOOSE f : Unfolds(f)
<1>1. \A x \in Kinds : ScopeGet(x, n) = chosen[x]
  BY Zenon DEF ScopeGet
<1>2. \A x \in Kinds : Outer[x] # Nil => Outer[x] \in Kinds
  BY LookupAssumption DEF Kinds
<1>3. \A x \in Kinds : own[x][n] \in Entries
  BY DEF MethodsOK, Tables
<1>4. \A x \in Kinds : \A f \in [Kinds -> Entries] : ScopeAt(f, x, n) \in Entries
  <2>1. "public" \in Entries /\ "none" \in Entries
    BY DEF Entries, Visibilities
  <2> QED
    BY <1>2, <1>3, <2>1 DEF ScopeAt
<1>5. rule \in [Kinds -> [[Kinds -> Entries] -> Entries]]
      /\ \A x \in Kinds : \A f \in [Kinds -> Entries] : rule[x][f] = ScopeAt(f, x, n)
  BY <1>4
<1> HIDE DEF rule
<1>6. LooksAlong(rule, Out, Kinds, Entries)
  <2>1. ASSUME NEW x \in Kinds, NEW f \in [Kinds -> Entries], NEW g \in [Kinds -> Entries],
               \A y \in Out[x] : f[y] = g[y]
        PROVE rule[x][f] = rule[x][g]
    <3>1. Outer[x] # Nil => f[Outer[x]] = g[Outer[x]]
      BY <2>1 DEF Out
    <3>2. ScopeAt(f, x, n) = ScopeAt(g, x, n)
      BY <3>1 DEF ScopeAt
    <3> QED
      BY <1>5, <3>2
  <2> QED
    BY <1>5, <2>1 DEF LooksAlong
<1>7. PICK h \in [Kinds -> Entries] : Obeys(h, rule, Kinds)
  <2>1. PICK R, L, K, V, e : R = rule /\ L = Out /\ K = Kinds /\ V = Entries /\ e = "none"
    OBVIOUS
  <2>2. WellLinked(L, K) /\ LooksAlong(R, L, K, V) /\ e \in V
    BY <1>6, <2>1, OutLinked DEF Entries
  <2>3. \E h \in [K -> V] : Obeys(h, R, K)
    BY <2>2, RecursionAlongLinks
  <2> QED
    BY <2>1, <2>3, Zenon
<1>8. \A x \in Kinds : h[x] = ScopeAt(h, x, n)
  BY <1>5, <1>7 DEF Obeys
<1>9. h = [x \in Kinds |-> ScopeAt(h, x, n)]
  <2>1. h = [x \in Kinds |-> h[x]]
    OBVIOUS
  <2> QED
    BY <1>8, <2>1, Zenon
<1>10. Unfolds(h)
  BY <1>9, Zenon DEF ScopeAt
<1> HIDE DEF Unfolds
<1>11. Unfolds(chosen)
  BY <1>10, Zenon
<1> HIDE DEF chosen
<1>12. PICK f : f = chosen
  OBVIOUS
<1>13. f = [x \in Kinds |-> ScopeAt(f, x, n)]
  BY <1>11, <1>12, Zenon DEF Unfolds, ScopeAt
<1>14. \A x \in Kinds : f[x] = ScopeAt(f, x, n)
  BY <1>13, Zenon
<1> QED
  BY <1>1, <1>12, <1>14 DEF ScopeAt

\* What super does at each place.
Passes(after, n) == [x \in Kinds |-> [v \in Walks |-> Passing(v, x, after, n)]]
At(h) == [seen |-> TRUE, hit |-> h]
Owned(n) == [x \in Kinds |-> OwnHit(x, n)]

LEMMA WalksFacts ==
  /\ Unseen \in Walks /\ Unseen.seen = FALSE /\ Unseen.hit = NotFound
  /\ \A h \in Hits : At(h) \in Walks /\ At(h).seen = TRUE /\ At(h).hit = h
  /\ \A v \in Walks : v.seen \in BOOLEAN /\ v.hit \in Hits /\ v = [seen |-> v.seen, hit |-> v.hit]
<1>1. NotFound \in Hits
  BY DEF Hits, NotFound
<1> QED
  BY <1>1 DEF Walks, Unseen, At

LEMMA OwnedFacts ==
  ASSUME MethodsOK, NEW n \in Names, NEW x \in Kinds
  PROVE /\ OwnHit(x, n) \in Hits /\ Owned(n)[x] = OwnHit(x, n)
        /\ own[x][n] \notin {"undef", "symbol"} /\ (own[x][n] = "none" => ~Method(ScopeGet(x, n)))
              => OwnHit(x, n) = InstanceHit(x, n)
<1>1. PICK g : g = ScopeGet(x, n)
  OBVIOUS
<1>2. own[x][n] \in Entries /\ (own[x][n] # "none" => g = own[x][n])
  BY <1>1, ScopeFacts DEF MethodsOK, Tables
<1>3. OwnHit(x, n) = IF Method(g) THEN <<g, x>> ELSE NotFound
  BY <1>1 DEF OwnHit
<1>4. OwnHit(x, n) \in Hits
  BY <1>3 DEF Method, Hits, NotFound
<1>5. Owned(n)[x] = OwnHit(x, n)
  BY DEF Owned
<1>6. ASSUME own[x][n] \notin {"undef", "symbol"}, own[x][n] = "none" => ~Method(g)
      PROVE OwnHit(x, n) = InstanceHit(x, n)
  <2>1. CASE own[x][n] = "none"
    BY <1>3, <1>6, <2>1 DEF InstanceHit
  <2>2. CASE own[x][n] # "none"
    <3>1. own[x][n] \in Visibilities
      BY <1>2, <1>6, <2>2 DEF Entries
    <3>2. Method(g) /\ g = own[x][n] /\ own[x][n] \notin {"none", "symbol"}
      BY <1>2, <3>1 DEF Method, Visibilities
    <3> QED
      BY <1>3, <3>2 DEF InstanceHit
  <2> QED
    BY <2>1, <2>2
<1> QED
  BY <1>1, <1>4, <1>5, <1>6

LEMMA PassesFacts ==
  ASSUME MethodsOK, NEW n \in Names, NEW after
  PROVE LET f == Passes(after, n)
        IN  /\ \A x \in Kinds : \A v \in Walks : f[x][v] = Passing(v, x, after, n) /\ f[x][v] \in Walks
            /\ \A s \in Seq(Kinds) : Steps(s, f, Walks)
            /\ \A x \in Kinds : \A v \in Walks : v.hit # NotFound => f[x][v] = v
            /\ \A x \in Kinds : x # after => f[x][Unseen] = Unseen
            /\ after \in Kinds => f[after][Unseen] = At(NotFound)
            /\ \A x \in Kinds : \A h \in Hits : f[x][At(h)] = At(OrElse(h, OwnHit(x, n)))
<1>1. PICK f : f = Passes(after, n)
  OBVIOUS
<1>2. \A x \in Kinds : \A v \in Walks : f[x][v] = Passing(v, x, after, n)
  BY <1>1 DEF Passes
<1>3. NotFound \in Hits /\ \A x \in Kinds : OwnHit(x, n) \in Hits
  BY OwnedFacts DEF Hits, NotFound
<1>4. ASSUME NEW x \in Kinds, NEW v \in Walks PROVE Passing(v, x, after, n) \in Walks
  <2>1. v.seen \in BOOLEAN /\ v.hit \in Hits
    BY WalksFacts
  <2> QED
    BY <1>3, <2>1 DEF Passing, Walks
<1>5. \A s \in Seq(Kinds) : Steps(s, f, Walks)
  BY <1>2, <1>4, InSequence DEF Steps
<1>6. \A x \in Kinds : \A v \in Walks : v.hit # NotFound => f[x][v] = v
  BY <1>2 DEF Passing
<1>7. Unseen \in Walks /\ Unseen.seen = FALSE /\ Unseen.hit = NotFound
  BY WalksFacts
<1>8. ASSUME NEW x \in Kinds PROVE f[x][Unseen] = IF x = after THEN At(NotFound) ELSE Unseen
  <2>1. f[x][Unseen] = [seen |-> FALSE \/ x = after, hit |-> NotFound]
    BY <1>2, <1>7 DEF Passing
  <2> QED
    BY <2>1 DEF At, Unseen
<1>9. ASSUME NEW x \in Kinds, NEW h \in Hits PROVE f[x][At(h)] = At(OrElse(h, OwnHit(x, n)))
  <2>1. At(h) \in Walks /\ At(h).seen = TRUE /\ At(h).hit = h
    BY WalksFacts
  <2>2. CASE h # NotFound
    BY <1>6, <2>1, <2>2 DEF OrElse
  <2>3. CASE h = NotFound
    <3>1. f[x][At(h)] = [seen |-> TRUE, hit |-> OwnHit(x, n)]
      BY <1>2, <2>1, <2>3 DEF Passing
    <3> QED
      BY <2>3, <3>1 DEF OrElse, At
  <2> QED
    BY <2>2, <2>3
<1> QED
  BY <1>1, <1>2, <1>4, <1>5, <1>6, <1>8, <1>9

\* f continues a walk from each y as the list of the walk does.
Continues(f, w, y, g) == \A v \in Walks : f[y][v] = Through(w[y], g, v)

\* Once there is a hit, nothing more happens.
LEMMA PassesFound ==
  ASSUME MethodsOK, NEW n \in Names, NEW after, NEW s \in Seq(Kinds), NEW v \in Walks, v.hit # NotFound
  PROVE Through(s, Passes(after, n), v) = v
<1>1. PICK f, V : f = Passes(after, n) /\ V = {v}
  OBVIOUS
<1>2. \A x \in Kinds : f[x][v] = v
  BY <1>1, PassesFacts
<1>3. Steps(s, f, V) /\ v \in V
  BY <1>1, <1>2, InSequence DEF Steps
<1>4. Through(s, f, v) \in V
  BY <1>3, ThroughKeeps
<1> QED
  BY <1>1, <1>4

LEMMA ContinuesThrough ==
  ASSUME NEW w, WalksAs(w), NEW f, NEW g, \A l \in Seq(Kinds) : Steps(l, g, Walks),
         NEW mods \in Seq(Modules), \A m \in ToSet(mods) : Continues(f, w, m, g), NEW v \in Walks
  PROVE Through(mods, f, v) = Through(Flat(w, mods), g, v)
<1>1. PICK S : S = ToSet(mods)
  OBVIOUS
<1>2. mods \in Seq(S) /\ S \subseteq Kinds
  BY <1>1, OverItself, InSequence DEF Kinds
<1>3. \A m \in S : w[m] \in Seq(Kinds)
  BY <1>1, <1>2 DEF WalksAs
<1>4. \A m \in S : \A u \in Walks : f[m][u] = Through(w[m], g, u)
  BY <1>1 DEF Continues
<1>5. Follows(f, w, S, g, Kinds, Walks)
  BY <1>3, <1>4 DEF Follows
<1> QED
  BY <1>2, <1>5, ThroughFlat

LEMMA SuperStep ==
  ASSUME ListsOK, MethodsOK, NEW w, WalksAs(w), NEW n \in Names, NEW after, NEW x \in Kinds, NEW f,
         \A y \in Links(x) : Continues(f, w, y, Passes(after, n)), NEW v \in Walks
  PROVE SuperAt(f, x, v, after, n) = Through(w[x], Passes(after, n), v) /\ SuperAt(f, x, v, after, n) \in Walks
<1>1. PICK g, p, i : g = Passes(after, n) /\ p = prepended[x] /\ i = included[x]
  OBVIOUS
<1>2. p \in Seq(Modules) /\ i \in Seq(Modules)
  BY <1>1 DEF ListsOK
<1>3. \A l \in Seq(Kinds) : Steps(l, g, Walks)
  BY <1>1, PassesFacts
<1>4. /\ \A m \in ToSet(p) : Continues(f, w, m, g)
      /\ \A m \in ToSet(i) : Continues(f, w, m, g)
  BY <1>1, LinksFacts
<1>5. PICK A, B, U : WalkParts(w, x, A, B, U)
  BY WalkSplit
<1>6. /\ A = Flat(w, p) /\ B = Flat(w, i) /\ A \in Seq(Kinds) /\ B \in Seq(Kinds) /\ U \in Seq(Kinds)
      /\ U = IF Above(x) = Nil THEN << >> ELSE w[Above(x)]
  BY <1>1, <1>5 DEF WalkParts
<1>7. PICK a, here, below : /\ a = Through(A, g, v) /\ here = g[x][a] /\ below = Through(B, g, here)
  OBVIOUS
<1>8. /\ a \in Walks /\ here \in Walks /\ below \in Walks
      /\ Through(w[x], g, v) = Through(U, g, below)
  <2>1. /\ Through(A, g, v) \in Walks /\ g[x][Through(A, g, v)] \in Walks
        /\ Through(B, g, g[x][Through(A, g, v)]) \in Walks
        /\ Through(w[x], g, v) = Through(U, g, Through(B, g, g[x][Through(A, g, v)]))
    BY <1>3, <1>5, ThroughWalk
  <2> QED
    BY <1>7, <2>1, Zenon
<1>9. Through(p, f, v) = a
  BY <1>2, <1>3, <1>4, <1>6, <1>7, ContinuesThrough
<1>10. Passing(a, x, after, n) = here
  BY <1>1, <1>7, <1>8, PassesFacts
<1>11. Through(i, f, here) = below
  BY <1>2, <1>3, <1>4, <1>6, <1>7, <1>8, ContinuesThrough
<1>12. SuperAt(f, x, v, after, n) = IF v.hit # NotFound THEN v
                                    ELSE IF below.hit # NotFound \/ Above(x) = Nil THEN below ELSE f[Above(x)][below]
  BY <1>1, <1>9, <1>10, <1>11 DEF SuperAt
<1>13. w[x] \in Seq(Kinds) /\ Through(w[x], g, v) \in Walks
  <2>1. w[x] \in Seq(Kinds)
    BY DEF WalksAs
  <2>2. Steps(w[x], g, Walks)
    BY <1>3, <2>1
  <2> QED
    BY <2>1, <2>2, ThroughKeeps
<1>14. SuperAt(f, x, v, after, n) = Through(w[x], g, v)
  <2>1. CASE v.hit # NotFound
    BY <1>1, <1>12, <1>13, <2>1, PassesFound
  <2>2. CASE v.hit = NotFound /\ below.hit # NotFound
    BY <1>1, <1>6, <1>8, <1>12, <2>2, PassesFound
  <2>3. CASE v.hit = NotFound /\ below.hit = NotFound /\ Above(x) = Nil
    <3>1. Through(<< >>, g, below) = below
      BY <1>8, ThroughNone
    <3> QED
      BY <1>6, <1>8, <1>12, <2>3, <3>1
  <2>4. CASE v.hit = NotFound /\ below.hit = NotFound /\ Above(x) # Nil
    <3>1. Above(x) \in Links(x)
      BY <2>4, LinksFacts
    <3>2. f[Above(x)][below] = Through(w[Above(x)], g, below)
      BY <1>1, <1>8, <3>1 DEF Continues
    <3> QED
      BY <1>6, <1>8, <1>12, <2>4, <3>2
  <2> QED
    BY <2>1, <2>2, <2>3, <2>4
<1> QED
  BY <1>1, <1>13, <1>14

\* super passes along the walk.
LEMMA SuperThrough ==
  ASSUME ListsOK, MethodsOK, Acyclic, NEW w, WalksAs(w), NEW n \in Names, NEW after
  PROVE \A x \in Kinds : SuperWalk(x, after, n) = Through(w[x], Passes(after, n), Unseen)
<1> DEFINE h == [x \in Kinds |-> [v \in Walks |-> Through(w[x], Passes(after, n), v)]]
           Unfolds(f) == f = [x \in Kinds |-> [v \in Walks |-> SuperAt(f, x, v, after, n)]]
           chosen == CHOOSE f : Unfolds(f)
<1>1. \A x \in Kinds : SuperWalk(x, after, n) = chosen[x][Unseen]
  BY Zenon DEF SuperWalk
<1>2. PICK g : g = Passes(after, n)
  OBVIOUS
<1>3. \A x \in Kinds : Links(x) \subseteq Kinds /\ Graph[x] = Links(x)
  BY LinksFacts
<1>4. \A x \in Kinds : Continues(h, w, x, g)
  BY <1>2 DEF Continues
<1>5. h = [x \in Kinds |-> [v \in Walks |-> SuperAt(h, x, v, after, n)]]
  <2>1. ASSUME NEW x \in Kinds, NEW v \in Walks
        PROVE SuperAt(h, x, v, after, n) = Through(w[x], g, v)
    <3>1. \A y \in Links(x) : Continues(h, w, y, g)
      BY <1>3, <1>4
    <3> HIDE DEF h
    <3> QED
      BY <1>2, <3>1, SuperStep
  <2>2. h = [x \in Kinds |-> [v \in Walks |-> Through(w[x], g, v)]]
    BY <1>2
  <2> HIDE DEF h
  <2> QED
    BY <2>1, <2>2
<1> HIDE DEF h
<1>6. Unfolds(h)
  BY <1>5, Zenon
<1> HIDE DEF Unfolds
<1>7. Unfolds(chosen)
  BY <1>6, Zenon
<1> HIDE DEF chosen
<1>8. PICK f : f = chosen
  OBVIOUS
<1>9. f = [x \in Kinds |-> [v \in Walks |-> SuperAt(f, x, v, after, n)]]
  <2>1. Unfolds(f)
    BY <1>7, <1>8, Zenon
  <2> QED
    BY <2>1, Zenon DEF Unfolds
<1>10. \A x \in Kinds : \A v \in Walks : f[x][v] = SuperAt(f, x, v, after, n)
  <2>1. \A x \in Kinds : f[x] = [v \in Walks |-> SuperAt(f, x, v, after, n)]
    BY <1>9, Zenon
  <2> QED
    BY <2>1, Zenon
<1>11. \A x \in Kinds : Continues(f, w, x, g)
  <2> DEFINE T == {x \in Kinds : Continues(f, w, x, g)}
  <2>1. ASSUME NEW x \in Kinds, Graph[x] \subseteq T PROVE x \in T
    <3>1. \A y \in Links(x) : Continues(f, w, y, g)
      BY <1>3, <2>1
    <3>2. \A v \in Walks : SuperAt(f, x, v, after, n) = Through(w[x], g, v)
      BY <1>2, <3>1, SuperStep
    <3> QED
      BY <1>10, <3>2 DEF Continues
  <2>2. PICK L, K : L = Graph /\ K = Kinds
    OBVIOUS
  <2> HIDE DEF T
  <2>3. K \subseteq T
    BY <2>1, <2>2, AlongLinks DEF Acyclic
  <2> QED
    BY <2>2, <2>3 DEF T
<1>12. Unseen \in Walks
  BY WalksFacts
<1> QED
  BY <1>1, <1>2, <1>8, <1>11, <1>12 DEF Continues

\* Before the class super is called from, after it, and past it.
LEMMA PassesBefore ==
  ASSUME MethodsOK, NEW n \in Names, NEW after, NEW s \in Seq(Kinds), after \notin ToSet(s)
  PROVE Through(s, Passes(after, n), Unseen) = Unseen
<1>1. PICK f, V, u : f = Passes(after, n) /\ u = Unseen /\ V = {u}
  OBVIOUS
<1>2. \A x \in Kinds : x # after => f[x][u] = u
  BY <1>1, PassesFacts
<1>3. Steps(s, f, V) /\ u \in V
  BY <1>1, <1>2, InSequence DEF Steps
<1>4. Through(s, f, u) \in V
  BY <1>3, ThroughKeeps
<1> QED
  BY <1>1, <1>4

LEMMA PassesAfter ==
  ASSUME MethodsOK, NEW n \in Names, NEW after, NEW s \in Seq(Kinds)
  PROVE Through(s, Passes(after, n), At(NotFound)) = At(Among(Owned(n), s)) /\ Among(Owned(n), s) \in Hits
<1>1. PICK f, h, t, z, u : /\ f = Passes(after, n) /\ h = Owned(n) /\ t = Tries(Kinds, h)
                           /\ z = NotFound /\ u = At(NotFound)
  OBVIOUS
<1>2. \A x \in Kinds : h[x] \in Hits /\ h[x] = OwnHit(x, n)
  BY <1>1, OwnedFacts
<1>3. z \in Hits /\ u \in Walks
  BY <1>1, WalksFacts DEF Hits, NotFound
<1>4. Steps(s, f, Walks) /\ \A x \in Kinds : \A v \in Hits : f[x][At(v)] = At(OrElse(v, h[x]))
  <2>1. Steps(s, f, Walks)
    BY <1>1, PassesFacts
  <2>2. \A x \in Kinds : \A v \in Hits : f[x][At(v)] = At(OrElse(v, OwnHit(x, n)))
    BY <1>1, PassesFacts
  <2> QED
    BY <1>2, <2>1, <2>2
<1>5. Steps(s, t, Hits) /\ \A x \in Kinds : \A v \in Hits : t[x][v] = OrElse(v, h[x])
  BY <1>1, <1>2, TriesFacts
<1>6. Through(s, t, z) = Among(h, s) /\ Among(h, s) \in Hits
  BY <1>1, <1>2, AmongThrough
<1> DEFINE Rel == {p \in Walks \X Hits : p[1] = At(p[2])}
<1>7. PICK R : R = Rel
  OBVIOUS
<1>8. \A a, v : <<a, v>> \in R <=> a \in Walks /\ v \in Hits /\ a = At(v)
  BY <1>7
<1> HIDE DEF Rel
<1>9. <<u, z>> \in R
  BY <1>1, <1>3, <1>8
<1>10. ASSUME NEW m \in ToSet(s), NEW a \in Walks, NEW v \in Hits, <<a, v>> \in R
       PROVE <<f[m][a], t[m][v]>> \in R
  <2>1. m \in Kinds /\ a = At(v)
    BY <1>8, <1>10, InSequence
  <2>2. PICK p, q : p = f[m][a] /\ q = t[m][v]
    OBVIOUS
  <2>3. q = OrElse(v, h[m]) /\ p = At(q) /\ q \in Hits
    BY <1>2, <1>4, <1>5, <2>1, <2>2 DEF OrElse
  <2>4. p \in Walks
    BY <2>3, WalksFacts
  <2> QED
    BY <1>8, <2>2, <2>3, <2>4
<1>11. <<Through(s, f, u), Through(s, t, z)>> \in R
  BY <1>3, <1>4, <1>5, <1>9, <1>10, ThroughAlike
<1> QED
  BY <1>1, <1>6, <1>8, <1>11

LEMMA ThroughCut ==
  ASSUME NEW S, NEW s \in Seq(S), NEW x \in S, NEW a \in Seq(S), NEW b \in Seq(S), CutAt(s, a, x, b),
         NEW V, NEW g, NEW v \in V, \A l \in Seq(S) : Steps(l, g, V)
  PROVE Through(s, g, v) = Through(b, g, g[x][Through(a, g, v)])
<1>1. PICK o : o = <<x>>
  OBVIOUS
<1>2. o \in Seq(S)
  BY <1>1, OneElement
<1>3. PICK c : c = a \o o
  OBVIOUS
<1>4. c \in Seq(S)
  BY <1>2, <1>3, JoinedSets
<1>5. s = c \o b
  BY <1>1, <1>3 DEF CutAt
<1>6. Steps(a, g, V) /\ Steps(b, g, V) /\ Steps(o, g, V) /\ Steps(c, g, V)
  BY <1>2, <1>4
<1>7. Through(s, g, v) = Through(b, g, Through(c, g, v))
  BY <1>4, <1>5, <1>6, ThroughJoined
<1>8. PICK p : p = Through(a, g, v)
  OBVIOUS
<1>9. p \in V
  BY <1>6, <1>8, ThroughKeeps
<1>10. Through(c, g, v) = Through(o, g, p)
  BY <1>2, <1>3, <1>6, <1>8, ThroughJoined
<1>11. Through(o, g, p) = g[x][p]
  BY <1>1, <1>6, <1>9, ThroughOne
<1> QED
  BY <1>7, <1>8, <1>10, <1>11

LEMMA SuperLemma ==
  ASSUME ListsOK, MethodsOK, Acyclic
  PROVE SuperFollowsAncestors
<1> SUFFICES ASSUME NEW k \in Classes, NEW n \in Names, PlainSuper(k, n), NEW chain, chain = Ancestors(k),
                    NEW i \in DOMAIN chain, NoLeak(After(chain, i), n)
             PROVE FindSuper(k, chain[i], n) = FirstOwn(After(chain, i), n)
  BY DEF SuperFollowsAncestors
<1>1. PICK w : WalksAs(w)
  BY WalkUnfold
<1>2. k \in Kinds /\ \A x \in Kinds : own[x][n] \notin {"undef", "symbol"}
  BY DEF Kinds, PlainSuper
<1>3. PICK s : s = w[k]
  OBVIOUS
<1>4. s \in Seq(Kinds) /\ Walk(k) = s
  BY <1>1, <1>2, <1>3 DEF WalksAs
<1>5. Distinct(s)
  BY <1>4, NoRepeatsFacts DEF PlainSuper
<1>6. chain = s
  <2>1. Ancestors(k) = Dedup(s)
    BY <1>1, <1>2, <1>3, AncestorsWalk
  <2> QED
    BY <1>4, <1>5, <2>1, DedupDistinct
<1>7. PICK x : x = s[i]
  OBVIOUS
<1>8. i \in 1 .. Len(s) /\ x \in ToSet(s) /\ x \in Kinds
  BY <1>4, <1>6, <1>7, InSequence
<1>9. PICK a \in Seq(Kinds), b \in Seq(Kinds) : CutAt(s, a, x, b) /\ x \notin ToSet(a)
  BY <1>4, <1>8, Cut
<1>10. After(s, i) = b
  <2>1. PICK j : j = Len(a) + 1
    OBVIOUS
  <2>2. j \in 1 .. Len(s) /\ s[j] = x /\ After(s, j) = b
    BY <1>4, <1>8, <1>9, <2>1, AfterCut
  <2>3. i = j
    BY <1>5, <1>7, <1>8, <2>2 DEF Distinct
  <2> QED
    BY <2>2, <2>3
<1>11. PICK g, u, z : g = Passes(x, n) /\ u = Unseen /\ z = At(NotFound)
  OBVIOUS
<1>12. u \in Walks /\ (\A l \in Seq(Kinds) : Steps(l, g, Walks)) /\ g[x][u] = z
  <2>1. u \in Walks
    BY <1>11, WalksFacts
  <2>2. \A l \in Seq(Kinds) : Steps(l, g, Walks)
    BY <1>11, PassesFacts
  <2>3. g[x][u] = z
    BY <1>8, <1>11, PassesFacts
  <2> QED
    BY <2>1, <2>2, <2>3
<1>13. Through(s, g, u) = Through(b, g, g[x][Through(a, g, u)])
  BY <1>4, <1>8, <1>9, <1>12, ThroughCut
<1>14. Through(a, g, u) = u
  BY <1>9, <1>11, PassesBefore
<1>15. Through(b, g, z) = At(Among(Owned(n), b))
  BY <1>11, PassesAfter
<1>16. SuperWalk(k, x, n) = Through(s, g, u)
  BY <1>1, <1>2, <1>3, <1>11, SuperThrough
<1>17. FindSuper(k, x, n) = Among(Owned(n), b)
  BY <1>12, <1>13, <1>14, <1>15, <1>16 DEF FindSuper, At
<1>18. Among(Owned(n), b) = Among(Own(n), b)
  <2>1. PICK f, h : f = Owned(n) /\ h = Own(n)
    OBVIOUS
  <2>2. ASSUME NEW m \in ToSet(b) PROVE f[m] = h[m]
    <3>1. PICK j \in DOMAIN b : b[j] = m
      BY <2>2, InSequence
    <3>2. m \in Kinds /\ (own[m][n] = "none" => ~Method(ScopeGet(m, n)))
      BY <1>6, <1>10, <2>2, <3>1, InSequence DEF NoLeak
    <3>3. f[m] = InstanceHit(m, n)
      BY <1>2, <2>1, <3>2, OwnedFacts
    <3> QED
      BY <2>1, <3>2, <3>3 DEF Own
  <2>3. Among(f, b) = Among(h, b)
    BY <2>2, AmongSame
  <2> QED
    BY <2>1, <2>3
<1>19. FirstOwn(b, n) = Among(Own(n), b)
  BY FirstOwnAmong
<1> QED
  BY <1>6, <1>7, <1>10, <1>17, <1>18, <1>19

(***************************************************************************)
(* The class side.                                                         *)
(***************************************************************************)
SidePlaces == {"self", "module"} \X Kinds
SideHits(n) == [p \in SidePlaces |-> IF p[1] = "self" THEN SelfHit(p[2], n) ELSE InstanceHit(p[2], n)]
Mixes == [m \in Modules |-> Tagged(Ancestors(m), "module")]
Found(n) == [m \in Modules |-> FindInstance(m, n)]
SideOf == [x \in Kinds |-> << <<"self", x>> >> \o Flat(Mixes, extended[x])]
SideFound(n) == [x \in Kinds |-> OrElse(DirectSelf(x, n), Among(Found(n), extended[x]))]

\* undef_method never reaches the class methods of a class.
ClassesClean == \A k \in Classes, n \in Names : selfs[k][n] # "undef"

LEMMA SideHitsFacts ==
  ASSUME MethodsOK, NEW n \in Names
  PROVE /\ \A p \in SidePlaces : SideHits(n)[p] \in Hits
        /\ \A x \in Kinds : SideHits(n)[<<"self", x>>] = SelfHit(x, n) /\ <<"self", x>> \in SidePlaces
        /\ \A x \in Kinds : SideHits(n)[<<"module", x>>] = InstanceHit(x, n) /\ <<"module", x>> \in SidePlaces
        /\ \A x \in Kinds : DirectSelf(x, n) \in Hits
        /\ ClassesClean => \A x \in Classes : SelfHit(x, n) = DirectSelf(x, n)
<1>1. PICK h : h = SideHits(n)
  OBVIOUS
<1>2. \A p \in SidePlaces : h[p] = IF p[1] = "self" THEN SelfHit(p[2], n) ELSE InstanceHit(p[2], n)
  BY <1>1 DEF SideHits
<1>3. \A x \in Kinds : SelfHit(x, n) \in Hits /\ InstanceHit(x, n) \in Hits /\ DirectSelf(x, n) \in Hits
  <2> TAKE x \in Kinds
  <2>1. selfs[x][n] \in Entries
    BY DEF MethodsOK, Tables
  <2>2. SelfHit(x, n) \in Hits
    BY <2>1 DEF SelfHit, Hits, NotFound, Entries
  <2>3. DirectSelf(x, n) \in Hits
    BY <2>1 DEF DirectSelf, Method, Hits, NotFound
  <2> QED
    BY <2>2, <2>3, HitFacts
<1>4. \A p \in SidePlaces : h[p] \in Hits
  BY <1>2, <1>3 DEF SidePlaces
<1>5. ASSUME NEW x \in Kinds
      PROVE /\ h[<<"self", x>>] = SelfHit(x, n) /\ <<"self", x>> \in SidePlaces
            /\ h[<<"module", x>>] = InstanceHit(x, n) /\ <<"module", x>> \in SidePlaces
  <2>1. PICK p, q : p = <<"self", x>> /\ q = <<"module", x>>
    OBVIOUS
  <2>2. p \in SidePlaces /\ q \in SidePlaces /\ p[1] = "self" /\ p[2] = x /\ q[1] = "module" /\ q[2] = x
    BY <2>1 DEF SidePlaces
  <2>3. h[p] = SelfHit(x, n) /\ h[q] = InstanceHit(x, n)
    BY <1>2, <2>2
  <2> QED
    BY <2>1, <2>2, <2>3
<1>6. ASSUME ClassesClean, NEW x \in Classes PROVE SelfHit(x, n) = DirectSelf(x, n)
  <2>1. selfs[x][n] \in Entries /\ selfs[x][n] # "undef"
    BY <1>6 DEF MethodsOK, Tables, ClassesClean, Kinds
  <2>2. selfs[x][n] \in Visibilities <=> selfs[x][n] \notin {"none", "symbol"}
    BY <2>1 DEF Entries, Visibilities
  <2> QED
    BY <2>2 DEF SelfHit, DirectSelf, Method
<1> QED
  BY <1>1, <1>3, <1>4, <1>5, <1>6

LEMMA TaggedFacts ==
  ASSUME MethodsOK, NEW n \in Names, NEW s \in Seq(Kinds)
  PROVE /\ Tagged(s, "module") \in Seq(SidePlaces)
        /\ Among(SideHits(n), Tagged(s, "module")) = Among(Own(n), s)
<1>1. PICK t, l : t = Tagged(s, "module") /\ l = Len(s)
  OBVIOUS
<1>2. l \in Nat /\ DOMAIN s = 1 .. l /\ \A i \in 1 .. l : s[i] \in Kinds
  BY <1>1, InSequence
<1>3. t = [i \in 1 .. l |-> <<"module", s[i]>>]
  BY <1>1, <1>2 DEF Tagged
<1>4. \A x \in Kinds : SideHits(n)[<<"module", x>>] = InstanceHit(x, n) /\ <<"module", x>> \in SidePlaces
  BY SideHitsFacts
<1>5. t \in Seq(SidePlaces)
  BY <1>2, <1>3, <1>4
<1>6. DOMAIN t = 1 .. l /\ \A i \in 1 .. l : SideHits(n)[t[i]] = Own(n)[s[i]]
  <2>1. \A x \in Kinds : Own(n)[x] = InstanceHit(x, n)
    BY DEF Own
  <2> QED
    BY <1>2, <1>3, <1>4, <2>1
<1>7. [i \in DOMAIN t |-> SideHits(n)[t[i]]] = [i \in DOMAIN s |-> Own(n)[s[i]]]
  BY <1>2, <1>6
<1> QED
  BY <1>1, <1>5, <1>7 DEF Among

LEMMA MixesFacts ==
  ASSUME ListsOK, MethodsOK, Acyclic, NEW n \in Names
  PROVE /\ \A m \in Modules : Mixes[m] \in Seq(SidePlaces)
        /\ Firsts(Found(n), SideHits(n), Mixes, Modules, SidePlaces)
        /\ \A m \in Modules : Found(n)[m] \in Hits /\ Found(n)[m] = FindInstance(m, n)
<1>1. PICK f, h, w : f = Found(n) /\ h = SideHits(n) /\ w = Mixes
  OBVIOUS
<1>2. ASSUME NEW m \in Modules
      PROVE w[m] \in Seq(SidePlaces) /\ f[m] = Among(h, w[m]) /\ f[m] = FindInstance(m, n) /\ f[m] \in Hits
  <2>1. PICK s : s = Ancestors(m)
    OBVIOUS
  <2>2. m \in Kinds
    BY DEF Kinds
  <2>3. s \in Seq(Kinds) /\ FindInstance(m, n) = FirstOwn(s, n)
    BY <2>1, <2>2, FindAncestors
  <2>4. w[m] = Tagged(s, "module") /\ f[m] = FindInstance(m, n)
    BY <1>1, <2>1 DEF Mixes, Found
  <2>5. FirstOwn(s, n) = Among(Own(n), s)
    BY <2>3, FirstOwnAmong
  <2>6. Tagged(s, "module") \in Seq(SidePlaces) /\ Among(h, Tagged(s, "module")) = Among(Own(n), s)
    BY <1>1, <2>3, TaggedFacts
  <2>7. FindInstance(m, n) \in Hits
    BY <2>2, OwnerFacts
  <2> QED
    BY <2>3, <2>4, <2>5, <2>6, <2>7
<1>3. \A p \in SidePlaces : h[p] \in Hits
  BY <1>1, SideHitsFacts
<1>4. Firsts(f, h, w, Modules, SidePlaces)
  BY <1>2, <1>3 DEF Firsts
<1> QED
  BY <1>1, <1>2, <1>4

\* The side of a class: its own entry, then the modules it was extended with.
LEMMA SideFacts ==
  ASSUME ListsOK, MethodsOK, Acyclic, NEW n \in Names, NEW x \in Kinds
  PROVE /\ Flat(Mixes, extended[x]) \in Seq(SidePlaces) /\ extended[x] \in Seq(Modules)
        /\ << <<"self", x>> >> \in Seq(SidePlaces)
        /\ SideOf[x] = << <<"self", x>> >> \o Flat(Mixes, extended[x]) /\ SideOf[x] \in Seq(SidePlaces)
        /\ Among(Found(n), extended[x]) = Among(SideHits(n), Flat(Mixes, extended[x]))
        /\ SideFound(n)[x] = OrElse(DirectSelf(x, n), Among(Found(n), extended[x]))
        /\ ClassesClean /\ x \in Classes => SideFound(n)[x] = Among(SideHits(n), SideOf[x])
<1>1. PICK e, f, h, w, r : /\ e = extended[x] /\ f = Found(n) /\ h = SideHits(n) /\ w = Mixes
                           /\ r = Flat(w, e)
  OBVIOUS
<1>2. e \in Seq(Modules)
  BY <1>1 DEF ListsOK
<1>3. (\A m \in Modules : w[m] \in Seq(SidePlaces)) /\ Firsts(f, h, w, Modules, SidePlaces)
  BY <1>1, MixesFacts
<1>4. r \in Seq(SidePlaces)
  BY <1>1, <1>2, <1>3, FlatThrough
<1>5. Among(f, e) = Among(h, r)
  <2>1. Among(f, e) = Among(h, Flat(w, e))
    BY <1>2, <1>3, AmongFlat
  <2> QED
    BY <1>1, <2>1
<1>6. PICK p, o : p = <<"self", x>> /\ o = <<p>>
  OBVIOUS
<1>7. p \in SidePlaces /\ h[p] = SelfHit(x, n) /\ \A q \in SidePlaces : h[q] \in Hits
  BY <1>1, <1>6, SideHitsFacts
<1>8. o \in Seq(SidePlaces) /\ Among(h, o) = h[p]
  BY <1>6, <1>7, OneElement, AmongEnds
<1>9. SideOf[x] = o \o r
  BY <1>1, <1>6 DEF SideOf
<1>10. o \o r \in Seq(SidePlaces) /\ Among(h, o \o r) = OrElse(Among(h, o), Among(h, r))
  <2>1. Among(h, o \o r) = OrElse(Among(h, o), Among(h, r))
    BY <1>4, <1>7, <1>8, AmongJoined
  <2> QED
    BY <1>4, <1>8, <2>1, JoinedSets
<1>11. SideFound(n)[x] = OrElse(DirectSelf(x, n), Among(f, e))
  BY <1>1 DEF SideFound
<1>12. ClassesClean /\ x \in Classes => SelfHit(x, n) = DirectSelf(x, n)
  BY SideHitsFacts
<1>13. ClassesClean /\ x \in Classes => SideFound(n)[x] = Among(h, SideOf[x])
  BY <1>5, <1>7, <1>8, <1>9, <1>10, <1>11, <1>12
<1> QED
  BY <1>1, <1>2, <1>4, <1>5, <1>6, <1>8, <1>9, <1>10, <1>11, <1>13

LEMMA ChainFlat ==
  ASSUME ListsOK, NEW k \in Classes
  PROVE ClassChain(k) = Flat(SideOf, Line(k)) /\ Line(k) \in Seq(Classes)
<1>1. PICK s : s = Line(k)
  OBVIOUS
<1>2. s \in Seq(Classes)
  <2>1. k \in Kinds /\ ToSet(s) \subseteq Classes
    BY <1>1, ClassLine
  <2>2. s \in Seq(Kinds)
    BY <1>1, <2>1, LineUnfold
  <2>3. PICK n, C : n = Len(s) /\ C = Classes
    OBVIOUS
  <2>4. n \in Nat /\ DOMAIN s = 1 .. n /\ s = [i \in 1 .. n |-> s[i]] /\ \A i \in 1 .. n : s[i] \in C
    BY <2>1, <2>2, <2>3, InSequence
  <2>5. s \in Seq(C)
    BY <2>4
  <2> QED
    BY <2>3, <2>5
<1>3. \A i \in DOMAIN s : s[i] \in Kinds
  BY <1>2, InSequence DEF Kinds
<1>4. ASSUME NEW x \in Kinds
      PROVE SideOf[x] = << <<"self", x>> >> \o FlattenSeq([j \in DOMAIN extended[x] |->
                                                  Tagged(Ancestors(extended[x][j]), "module")])
  <2>1. PICK e : e = extended[x]
    OBVIOUS
  <2>2. e \in Seq(Modules)
    BY <2>1 DEF ListsOK
  <2>3. \A j \in DOMAIN e : Mixes[e[j]] = Tagged(Ancestors(e[j]), "module")
    BY <2>2, InSequence DEF Mixes
  <2>4. [j \in DOMAIN e |-> Mixes[e[j]]] = [j \in DOMAIN e |-> Tagged(Ancestors(e[j]), "module")]
    BY <2>3
  <2>5. Flat(Mixes, e) = FlattenSeq([j \in DOMAIN e |-> Tagged(Ancestors(e[j]), "module")])
    BY <2>4, Zenon DEF Flat
  <2>6. SideOf[x] = << <<"self", x>> >> \o Flat(Mixes, e)
    BY <2>1 DEF SideOf
  <2> QED
    BY <2>1, <2>5, <2>6
<1>5. [i \in DOMAIN s |-> SideOf[s[i]]]
        = [i \in DOMAIN s |-> << <<"self", s[i]>> >>
               \o FlattenSeq([j \in DOMAIN extended[s[i]] |-> Tagged(Ancestors(extended[s[i]][j]), "module")])]
  BY <1>3, <1>4, Zenon
<1>6. ClassChain(k) = Flat(SideOf, s)
  BY <1>1, <1>5, Zenon DEF ClassChain, Flat
<1> QED
  BY <1>1, <1>2, <1>6

LEMMA OnChainAmong ==
  ASSUME MethodsOK, NEW n \in Names, NEW t \in Seq(SidePlaces)
  PROVE FirstOnChain(t, n) = Among(SideHits(n), t)
<1>1. PICK h : h = SideHits(n)
  OBVIOUS
<1>2. \A p \in SidePlaces : h[p] = IF p[1] = "self" THEN SelfHit(p[2], n) ELSE InstanceHit(p[2], n)
  BY <1>1 DEF SideHits
<1>3. \A i \in DOMAIN t : h[t[i]] = IF t[i][1] = "self" THEN SelfHit(t[i][2], n) ELSE InstanceHit(t[i][2], n)
  BY <1>2, InSequence
<1>4. [i \in DOMAIN t |-> IF t[i][1] = "self" THEN SelfHit(t[i][2], n) ELSE InstanceHit(t[i][2], n)]
        = [i \in DOMAIN t |-> h[t[i]]]
  BY <1>3
<1> QED
  BY <1>1, <1>4 DEF FirstOnChain, Among

LEMMA ClassMethodAmong ==
  ASSUME ListsOK, NEW n \in Names, NEW k \in Classes
  PROVE FindClassMethod(k, n) = Among(SideFound(n), Line(k))
<1>1. PICK s : s = Line(k)
  OBVIOUS
<1>2. s \in Seq(Classes)
  BY <1>1, ChainFlat
<1>3. ASSUME NEW x \in Kinds
      PROVE FirstHit(<<DirectSelf(x, n), FirstOf(extended[x], n)>>) = SideFound(n)[x]
  <2>1. PICK e : e = extended[x]
    OBVIOUS
  <2>2. e \in Seq(Modules)
    BY <2>1 DEF ListsOK
  <2>3. \A i \in DOMAIN e : FindInstance(e[i], n) = Found(n)[e[i]]
    BY <2>2, InSequence DEF Found
  <2>4. [i \in DOMAIN e |-> FindInstance(e[i], n)] = [i \in DOMAIN e |-> Found(n)[e[i]]]
    BY <2>3
  <2>5. FirstOf(e, n) = Among(Found(n), e)
    BY <2>4, Zenon DEF FirstOf, Among
  <2>6. PICK a, b : a = DirectSelf(x, n) /\ b = FirstOf(e, n)
    OBVIOUS
  <2>7. FirstHit(<<a, b>>) = OrElse(a, b)
    BY FirstOfTwo DEF OrElse
  <2>8. SideFound(n)[x] = OrElse(a, b)
    BY <2>1, <2>5, <2>6 DEF SideFound
  <2> QED
    BY <2>1, <2>6, <2>7, <2>8
<1>4. \A i \in DOMAIN s : FirstHit(<<DirectSelf(s[i], n), FirstOf(extended[s[i]], n)>>) = SideFound(n)[s[i]]
  BY <1>2, <1>3, InSequence DEF Kinds
<1>5. [i \in DOMAIN s |-> FirstHit(<<DirectSelf(s[i], n), FirstOf(extended[s[i]], n)>>)]
        = [i \in DOMAIN s |-> SideFound(n)[s[i]]]
  BY <1>4, Zenon
<1> QED
  BY <1>1, <1>5, Zenon DEF FindClassMethod, Among

\* What a call on a class finds is the first of the chain with an entry.
LEMMA FindOnChain ==
  ASSUME ListsOK, MethodsOK, Acyclic, ClassesClean, NEW n \in Names, NEW k \in Classes
  PROVE FindClassMethod(k, n) = FirstOnChain(ClassChain(k), n) /\ ClassChain(k) \in Seq(SidePlaces)
<1>1. PICK s, f, h, w : s = Line(k) /\ f = SideFound(n) /\ h = SideHits(n) /\ w = SideOf
  OBVIOUS
<1>2. s \in Seq(Classes) /\ ClassChain(k) = Flat(w, s)
  BY <1>1, ChainFlat
<1>3. \A x \in Classes : w[x] \in Seq(SidePlaces) /\ f[x] = Among(h, w[x])
  BY <1>1, SideFacts DEF Kinds
<1>4. \A p \in SidePlaces : h[p] \in Hits
  BY <1>1, SideHitsFacts
<1>5. Firsts(f, h, w, Classes, SidePlaces)
  BY <1>3, <1>4 DEF Firsts
<1>6. Among(f, s) = Among(h, Flat(w, s))
  BY <1>2, <1>5, AmongFlat
<1>7. Flat(w, s) \in Seq(SidePlaces)
  <2>1. \A x \in Classes : w[x] \in Seq(SidePlaces)
    BY <1>3
  <2> QED
    BY <1>2, <2>1, FlatThrough
<1>8. FindClassMethod(k, n) = Among(f, s)
  BY <1>1, ClassMethodAmong
<1>9. PICK c : c = Flat(w, s)
  OBVIOUS
<1>10. FirstOnChain(c, n) = Among(h, c)
  BY <1>1, <1>7, <1>9, OnChainAmong
<1> QED
  BY <1>2, <1>6, <1>7, <1>8, <1>9, <1>10

LEMMA LookupLemma ==
  ASSUME ListsOK, MethodsOK, Acyclic, ClassesClean
  PROVE LookupFollowsAncestors
BY FindAncestors, FindOnChain DEF LookupFollowsAncestors, Kinds

\* Two joined lists are laid flat one after the other, and one place by itself.
Lays(w, S, V) == \A m \in S : w[m] \in Seq(V)

LEMMA FlatJoined ==
  ASSUME NEW S, NEW s \in Seq(S), NEW t \in Seq(S), NEW V, NEW w, Lays(w, S, V)
  PROVE Flat(w, s \o t) = Flat(w, s) \o Flat(w, t) /\ Flat(w, s) \in Seq(V) /\ Flat(w, t) \in Seq(V)
<1> \A m \in S : w[m] \in Seq(V)
  BY DEF Lays
<1>1. PICK f, e, W, j : f = Joins(S, V, w) /\ e = << >> /\ W = Seq(V) /\ j = s \o t
  OBVIOUS
<1>2. e \in W /\ j \in Seq(S)
  BY <1>1, JoinedSets
<1>3. (\A m \in S : \A l \in W : f[m][l] = l \o w[m]) /\ Steps(s, f, W) /\ Steps(t, f, W)
  <2>1. \A m \in S : \A l \in Seq(V) : Joins(S, V, w)[m][l] = l \o w[m]
    BY JoinsFacts
  <2>2. \A r \in Seq(S) : Steps(r, Joins(S, V, w), Seq(V))
    BY JoinsFacts
  <2> QED
    BY <1>1, <2>1, <2>2
<1>4. PICK a, b : a = Flat(w, s) /\ b = Flat(w, t)
  OBVIOUS
<1>5. a = Through(s, f, e) /\ a \in W /\ b = Through(t, f, e) /\ b \in W /\ Flat(w, j) = Through(j, f, e)
  <2>1. Flat(w, s) = Through(s, Joins(S, V, w), << >>) /\ Flat(w, s) \in Seq(V)
    BY FlatThrough
  <2>2. Flat(w, t) = Through(t, Joins(S, V, w), << >>) /\ Flat(w, t) \in Seq(V)
    BY FlatThrough
  <2>3. Flat(w, j) = Through(j, Joins(S, V, w), << >>)
    BY <1>2, FlatThrough
  <2> QED
    BY <1>1, <1>4, <2>1, <2>2, <2>3
<1>6. Flat(w, j) = Through(t, f, a)
  <2>1. Through(s \o t, f, e) = Through(t, f, Through(s, f, e))
    BY <1>2, <1>3, ThroughJoined
  <2> QED
    BY <1>1, <1>5, <2>1
<1> DEFINE Rel == {p \in W \X W : p[1] = a \o p[2]}
<1>7. PICK R : R = Rel
  OBVIOUS
<1>8. \A u, v : <<u, v>> \in R <=> u \in W /\ v \in W /\ u = a \o v
  BY <1>7
<1> HIDE DEF Rel
<1>9. <<a, e>> \in R
  <2>1. a \o e = a
    BY <1>1, <1>5
  <2> QED
    BY <1>2, <1>5, <1>8, <2>1
<1>10. ASSUME NEW m \in ToSet(t), NEW u \in W, NEW v \in W, <<u, v>> \in R
       PROVE <<f[m][u], f[m][v]>> \in R
  <2>1. PICK x : x = w[m]
    OBVIOUS
  <2>2. m \in S /\ x \in Seq(V) /\ u = a \o v
    BY <1>8, <1>10, <2>1, InSequence
  <2>3. PICK p, q : p = f[m][u] /\ q = f[m][v]
    OBVIOUS
  <2>4. p = u \o x /\ q = v \o x
    BY <1>3, <2>1, <2>2, <2>3
  <2>5. p = a \o q /\ p \in W /\ q \in W
    <3>1. a \in Seq(V) /\ v \in Seq(V) /\ x \in Seq(V)
      BY <1>1, <1>5, <2>2
    <3>2. (a \o v) \o x = a \o (v \o x) /\ v \o x \in Seq(V) /\ a \o (v \o x) \in Seq(V)
      BY <3>1
    <3> QED
      BY <1>1, <2>2, <2>4, <3>2
  <2> QED
    BY <1>8, <2>3, <2>5
<1>11. <<Through(t, f, a), Through(t, f, e)>> \in R
  BY <1>2, <1>3, <1>5, <1>9, <1>10, ThroughAlike
<1>12. Through(t, f, a) = a \o b
  BY <1>5, <1>8, <1>11
<1> QED
  BY <1>1, <1>4, <1>5, <1>6, <1>12

LEMMA FlatOne ==
  ASSUME NEW S, NEW x \in S, NEW V, NEW w, w[x] \in Seq(V)
  PROVE Flat(w, <<x>>) = w[x]
<1>1. PICK f, e, W, o, T : f = Joins({x}, V, w) /\ e = << >> /\ W = Seq(V) /\ o = <<x>> /\ T = {x}
  OBVIOUS
<1>2. e \in W /\ o \in Seq(T) /\ \A m \in T : w[m] \in Seq(V)
  BY <1>1, OneElement
<1>3. f[x][e] = e \o w[x] /\ Steps(o, f, W)
  <2>1. \A m \in T : \A l \in Seq(V) : Joins(T, V, w)[m][l] = l \o w[m]
    BY <1>2, JoinsFacts
  <2>2. \A r \in Seq(T) : Steps(r, Joins(T, V, w), Seq(V))
    BY <1>2, JoinsFacts
  <2> QED
    BY <1>1, <1>2, <2>1, <2>2
<1>4. Flat(w, o) = Through(o, f, e)
  BY <1>1, <1>2, FlatThrough
<1>5. Through(o, f, e) = f[x][e]
  <2>1. Steps(<<x>>, f, W)
    BY <1>1, <1>3
  <2>2. Through(<<x>>, f, e) = f[x][e]
    BY <1>2, <2>1, ThroughOne
  <2> QED
    BY <1>1, <2>2
<1>6. PICK r : r = w[x]
  OBVIOUS
<1>7. e \o r = r
  BY <1>1, <1>6
<1> QED
  BY <1>1, <1>3, <1>4, <1>5, <1>6, <1>7

\* super in a class method.
Ats == {At(h) : h \in Hits}
Tracks(f, h, S) ==
  \A m \in S : h[m] \in Hits /\ \A v \in Hits : f[m][At(v)] = At(OrElse(v, h[m]))
InModule(after, n) ==
  [m \in Modules |-> [v \in Walks |->
      IF v.hit # NotFound THEN v
      ELSE IF v.seen THEN [v EXCEPT !.hit = FindInstance(m, n)]
      ELSE SuperWalk(m, after, n)]]
ClassPasses(after, n) == [c \in Kinds |-> [w \in Walks |-> ClassSuperAt(c, w, after, n)]]

LEMMA TracksThrough ==
  ASSUME NEW S, NEW mods \in Seq(S), NEW f, NEW h, Tracks(f, h, S), NEW a \in Hits
  PROVE /\ Through(mods, f, At(a)) = At(OrElse(a, Among(h, mods))) /\ Steps(mods, f, Ats)
        /\ Among(h, mods) \in Hits
<1>1. PICK t, z, u, V : t = Tries(S, h) /\ z = NotFound /\ u = At(a) /\ V = Ats
  OBVIOUS
<1>2. \A m \in S : h[m] \in Hits /\ \A v \in Hits : f[m][At(v)] = At(OrElse(v, h[m]))
  BY DEF Tracks
<1>3. z \in Hits /\ u \in V /\ \A v \in Hits : At(v) \in V
  BY <1>1 DEF Hits, NotFound, Ats
<1>4. /\ Steps(mods, t, Hits) /\ Through(mods, t, z) = Among(h, mods) /\ Among(h, mods) \in Hits
      /\ \A m \in S : \A v \in Hits : t[m][v] = OrElse(v, h[m])
  <2>1. \A m \in S : h[m] \in Hits
    BY <1>2
  <2>2. Steps(mods, t, Hits) /\ \A m \in S : \A v \in Hits : t[m][v] = OrElse(v, h[m])
    BY <1>1, <2>1, TriesFacts
  <2>3. Through(mods, t, z) = Among(h, mods) /\ Among(h, mods) \in Hits
    BY <1>1, <2>1, AmongThrough
  <2> QED
    BY <2>2, <2>3
<1>5. \A v, w \in Hits : OrElse(v, w) \in Hits
  BY DEF OrElse
<1>6. Steps(mods, f, V)
  <2>1. \A m \in S : \A x \in V : f[m][x] \in V
    <3> TAKE m \in S
    <3> TAKE x \in V
    <3>1. PICK v \in Hits : x = At(v)
      BY <1>1 DEF Ats
    <3>2. PICK y : y = OrElse(v, h[m])
      OBVIOUS
    <3>3. y \in Hits /\ f[m][x] = At(y)
      BY <1>2, <1>5, <3>1, <3>2
    <3> QED
      BY <1>3, <3>3
  <2> QED
    BY <2>1, InSequence DEF Steps
<1> DEFINE Rel == {p \in V \X Hits : p[1] = At(OrElse(a, p[2]))}
<1>7. PICK R : R = Rel
  OBVIOUS
<1>8. \A x, v : <<x, v>> \in R <=> x \in V /\ v \in Hits /\ x = At(OrElse(a, v))
  BY <1>7
<1> HIDE DEF Rel
<1>9. <<u, z>> \in R
  <2>1. OrElse(a, z) = a
    BY <1>1 DEF OrElse
  <2> QED
    BY <1>1, <1>3, <1>8, <2>1
<1>10. ASSUME NEW m \in ToSet(mods), NEW x \in V, NEW v \in Hits, <<x, v>> \in R
       PROVE <<f[m][x], t[m][v]>> \in R
  <2>1. PICK y, q, b : y = OrElse(a, v) /\ q = t[m][v] /\ b = h[m]
    OBVIOUS
  <2>2. m \in S /\ y \in Hits /\ x = At(y) /\ b \in Hits /\ q = OrElse(v, b) /\ q \in Hits
    BY <1>2, <1>4, <1>5, <1>8, <1>10, <2>1, InSequence
  <2>3. OrElse(y, b) = OrElse(a, q)
    BY <2>1, <2>2 DEF OrElse
  <2>4. f[m][x] = At(OrElse(a, q))
    BY <1>2, <2>1, <2>2, <2>3
  <2>5. PICK r : r = f[m][x]
    OBVIOUS
  <2>6. r \in V
    BY <1>3, <1>5, <2>2, <2>4, <2>5
  <2> QED
    BY <1>8, <2>1, <2>2, <2>4, <2>5, <2>6
<1>11. <<Through(mods, f, u), Through(mods, t, z)>> \in R
  BY <1>3, <1>4, <1>6, <1>9, <1>10, ThroughAlike
<1> QED
  BY <1>1, <1>4, <1>6, <1>8, <1>11

\* A module reaches modules only.
LEMMA ModuleWalk ==
  ASSUME ListsOK, Acyclic, NEW w, WalksAs(w), NEW m \in Modules
  PROVE ToSet(w[m]) \subseteq Modules
<1> DEFINE T == {x \in Kinds : x \in Modules => ToSet(w[x]) \subseteq Modules}
<1>1. ASSUME NEW x \in Kinds, Graph[x] \subseteq T PROVE x \in T
  <2> SUFFICES ASSUME x \in Modules PROVE ToSet(w[x]) \subseteq Modules
    OBVIOUS
  <2>1. Links(x) \subseteq Modules /\ Graph[x] = Links(x)
    BY AboveFacts, LinksFacts DEF Links
  <2>2. \A z : z \in ToSet(w[x]) <=> z = x \/ \E y \in Links(x) : z \in ToSet(w[y])
    BY WalkHolds
  <2> QED
    BY <1>1, <2>1, <2>2
<1>2. PICK L, K : L = Graph /\ K = Kinds
  OBVIOUS
<1> HIDE DEF T
<1>3. K \subseteq T
  BY <1>1, <1>2, AlongLinks DEF Acyclic
<1>4. m \in Kinds
  BY DEF Kinds
<1> QED
  BY <1>2, <1>3, <1>4 DEF T

LEMMA HitSet ==
  ASSUME NEW v, NEW s, NEW g, v = [seen |-> s, hit |-> g], NEW h
  PROVE [v EXCEPT !.hit = h] = [seen |-> s, hit |-> h]
OBVIOUS

LEMMA SeenSet ==
  ASSUME NEW v, NEW s, NEW g, v = [seen |-> s, hit |-> g], NEW b
  PROVE [v EXCEPT !.seen = b] = [seen |-> b, hit |-> g]
OBVIOUS

LEMMA InModuleFacts ==
  ASSUME ListsOK, MethodsOK, Acyclic, NEW n \in Names, NEW after \in Classes
  PROVE /\ Tracks(InModule(after, n), Found(n), Modules)
        /\ \A m \in Modules : InModule(after, n)[m][Unseen] = Unseen
<1>1. PICK f, h, u : f = InModule(after, n) /\ h = Found(n) /\ u = Unseen
  OBVIOUS
<1>2. u \in Walks /\ u.seen = FALSE /\ u.hit = NotFound
  BY <1>1, WalksFacts
<1>3. \A m \in Modules : h[m] \in Hits /\ h[m] = FindInstance(m, n)
  BY <1>1, MixesFacts
<1>4. \A m \in Modules : \A v \in Walks :
         f[m][v] = IF v.hit # NotFound THEN v
                   ELSE IF v.seen THEN [v EXCEPT !.hit = FindInstance(m, n)]
                   ELSE SuperWalk(m, after, n)
  BY <1>1 DEF InModule
<1>5. ASSUME NEW m \in Modules, NEW a \in Hits PROVE f[m][At(a)] = At(OrElse(a, h[m]))
  <2>1. PICK v : v = At(a)
    OBVIOUS
  <2>2. v \in Walks /\ v.seen = TRUE /\ v.hit = a
    BY <2>1, WalksFacts
  <2>3. CASE a # NotFound
    BY <1>4, <2>1, <2>2, <2>3 DEF OrElse
  <2>4. CASE a = NotFound
    <3>1. f[m][v] = [v EXCEPT !.hit = h[m]]
      BY <1>3, <1>4, <2>2, <2>4
    <3>2. [v EXCEPT !.hit = h[m]] = At(h[m])
      <4>1. PICK y : y = h[m]
        OBVIOUS
      <4>2. v = [seen |-> TRUE, hit |-> a]
        BY <2>1 DEF At
      <4>3. [v EXCEPT !.hit = y] = [seen |-> TRUE, hit |-> y]
        BY <4>2, HitSet
      <4> QED
        BY <4>1, <4>3 DEF At
    <3> QED
      BY <2>1, <2>4, <3>1, <3>2 DEF OrElse
  <2> QED
    BY <2>3, <2>4
<1>6. ASSUME NEW m \in Modules PROVE f[m][u] = u
  <2>1. f[m][u] = SuperWalk(m, after, n)
    BY <1>2, <1>4
  <2>2. PICK w : WalksAs(w)
    BY WalkUnfold
  <2>3. m \in Kinds /\ w[m] \in Seq(Kinds) /\ after \notin ToSet(w[m])
    BY <2>2, ModuleWalk, LookupAssumption DEF WalksAs, Kinds
  <2>4. SuperWalk(m, after, n) = Through(w[m], Passes(after, n), Unseen)
    BY <2>2, <2>3, SuperThrough
  <2>5. Through(w[m], Passes(after, n), Unseen) = Unseen
    BY <2>3, PassesBefore
  <2> QED
    BY <1>1, <2>1, <2>4, <2>5
<1>7. Tracks(f, h, Modules)
  BY <1>3, <1>5 DEF Tracks
<1> QED
  BY <1>1, <1>6, <1>7

LEMMA ClassPassesFacts ==
  ASSUME ListsOK, MethodsOK, Acyclic, NEW n \in Names, NEW after \in Classes
  PROVE /\ Tracks(ClassPasses(after, n), SideFound(n), Classes)
        /\ \A c \in Classes : ClassPasses(after, n)[c][Unseen]
              = IF c = after THEN At(Among(Found(n), extended[c])) ELSE Unseen
        /\ \A c \in Classes : Among(Found(n), extended[c]) \in Hits
<1>1. PICK C, f, h, u, z : /\ C = ClassPasses(after, n) /\ f = InModule(after, n) /\ h = Found(n)
                           /\ u = Unseen /\ z = NotFound
  OBVIOUS
<1>2. u \in Walks /\ u.seen = FALSE /\ u.hit = z /\ z \in Hits
  BY <1>1, WalksFacts DEF Hits, NotFound
<1>3. \A c \in Kinds : \A v \in Walks :
         C[c][v] = IF v.hit # z THEN v
                   ELSE IF v.seen /\ DirectSelf(c, n) # z THEN [v EXCEPT !.hit = DirectSelf(c, n)]
                   ELSE Through(extended[c], f, [v EXCEPT !.seen = @ \/ c = after])
  BY <1>1, Zenon DEF ClassPasses, ClassSuperAt, InModule
<1>4. Tracks(f, h, Modules) /\ \A m \in Modules : f[m][u] = u
  BY <1>1, InModuleFacts
<1>5. ASSUME NEW e \in Seq(Modules)
      PROVE Through(e, f, u) = u /\ Through(e, f, At(z)) = At(Among(h, e)) /\ Among(h, e) \in Hits
  <2>1. PICK V : V = {u}
    OBVIOUS
  <2>2. Steps(e, f, V) /\ u \in V
    BY <1>4, <2>1, InSequence DEF Steps
  <2>3. Through(e, f, u) \in V
    BY <2>2, ThroughKeeps
  <2>4. Through(e, f, At(z)) = At(OrElse(z, Among(h, e))) /\ Among(h, e) \in Hits
    BY <1>2, <1>4, TracksThrough
  <2>5. OrElse(z, Among(h, e)) = Among(h, e)
    BY <1>1 DEF OrElse
  <2> QED
    BY <2>1, <2>3, <2>4, <2>5
<1>6. \A c \in Classes : c \in Kinds /\ extended[c] \in Seq(Modules) /\ DirectSelf(c, n) \in Hits
  BY SideHitsFacts DEF ListsOK, Kinds
<1>7. ASSUME NEW c \in Classes PROVE C[c][u] = IF c = after THEN At(Among(h, extended[c])) ELSE u
  <2>1. C[c][u] = Through(extended[c], f, [u EXCEPT !.seen = @ \/ c = after])
    BY <1>2, <1>3, <1>6
  <2>2. [u EXCEPT !.seen = @ \/ c = after] = IF c = after THEN At(z) ELSE u
    <3>1. u = [seen |-> FALSE, hit |-> z]
      BY <1>1 DEF Unseen
    <3>2. [u EXCEPT !.seen = @ \/ c = after] = [seen |-> u.seen \/ c = after, hit |-> z]
      BY <3>1, SeenSet
    <3> QED
      BY <1>2, <3>1, <3>2 DEF At
  <2> QED
    BY <1>5, <1>6, <2>1, <2>2
<1>8. ASSUME NEW c \in Classes, NEW a \in Hits PROVE C[c][At(a)] = At(OrElse(a, SideFound(n)[c]))
  <2>1. PICK v, d, r : v = At(a) /\ d = DirectSelf(c, n) /\ r = Among(h, extended[c])
    OBVIOUS
  <2>2. v \in Walks /\ v.seen = TRUE /\ v.hit = a
    BY <2>1, WalksFacts
  <2>3. SideFound(n)[c] = OrElse(d, r)
    BY <1>1, <1>6, <2>1 DEF SideFound
  <2>4. CASE a # z
    BY <1>1, <1>3, <1>6, <2>1, <2>2, <2>4 DEF OrElse
  <2>5. CASE a = z /\ d # z
    <3>1. C[c][v] = [v EXCEPT !.hit = d]
      BY <1>3, <1>6, <2>1, <2>2, <2>5
    <3>2. [v EXCEPT !.hit = d] = At(d)
      <4>1. PICK y : y = d
        OBVIOUS
      <4>2. v = [seen |-> TRUE, hit |-> a]
        BY <2>1 DEF At
      <4>3. [v EXCEPT !.hit = y] = [seen |-> TRUE, hit |-> y]
        BY <4>2, HitSet
      <4> QED
        BY <4>1, <4>3 DEF At
    <3> QED
      BY <1>1, <2>1, <2>3, <2>5, <3>1, <3>2 DEF OrElse
  <2>6. CASE a = z /\ d = z
    <3>1. C[c][v] = Through(extended[c], f, [v EXCEPT !.seen = @ \/ c = after])
      <4>1. v.hit = z /\ DirectSelf(c, n) = z
        BY <2>1, <2>2, <2>6
      <4> QED
        BY <1>3, <1>6, <2>2, <4>1
    <3>2. [v EXCEPT !.seen = @ \/ c = after] = At(z)
      <4>1. v = [seen |-> TRUE, hit |-> z]
        BY <2>1, <2>6 DEF At
      <4>2. [v EXCEPT !.seen = @ \/ c = after] = [seen |-> v.seen \/ c = after, hit |-> z]
        BY <4>1, SeenSet
      <4> QED
        BY <2>2, <4>2 DEF At
    <3>3. C[c][v] = At(r)
      BY <1>5, <1>6, <2>1, <3>1, <3>2
    <3> QED
      BY <1>1, <2>1, <2>3, <2>6, <3>3 DEF OrElse
  <2> QED
    BY <2>4, <2>5, <2>6
<1>9. \A c \in Classes : SideFound(n)[c] \in Hits /\ Among(h, extended[c]) \in Hits
  BY <1>1, <1>5, <1>6 DEF SideFound, OrElse
<1>10. Tracks(C, SideFound(n), Classes)
  BY <1>8, <1>9 DEF Tracks
<1> QED
  BY <1>1, <1>7, <1>9, <1>10

\* The chain of the class side around the class super is called from.
ChainCut(c, A, p, M, B) == CutAt(c, A, p, M \o B)

LEMMA ChainSplit ==
  ASSUME ListsOK, MethodsOK, Acyclic, NEW n \in Names, NEW s \in Seq(Classes),
         NEW x \in Classes, NEW a \in Seq(Classes), NEW b \in Seq(Classes), CutAt(s, a, x, b)
  PROVE LET A == Flat(SideOf, a)
            M == Flat(Mixes, extended[x])
            B == Flat(SideOf, b)
        IN  /\ ChainCut(Flat(SideOf, s), A, <<"self", x>>, M, B)
            /\ A \in Seq(SidePlaces) /\ M \in Seq(SidePlaces) /\ B \in Seq(SidePlaces)
            /\ Flat(SideOf, s) \in Seq(SidePlaces)
<1>1. PICK w, V, o, p, q : w = SideOf /\ V = SidePlaces /\ o = <<x>> /\ p = <<"self", x>> /\ q = <<p>>
  OBVIOUS
<1>2. (\A m \in Classes : w[m] \in Seq(V)) /\ o \in Seq(Classes)
  BY <1>1, SideFacts, OneElement DEF Kinds
<1>3. PICK c : c = a \o o
  OBVIOUS
<1>4. c \in Seq(Classes) /\ s = c \o b
  BY <1>1, <1>2, <1>3, JoinedSets DEF CutAt
<1>5. PICK A, B, M, X : A = Flat(w, a) /\ B = Flat(w, b) /\ M = Flat(Mixes, extended[x]) /\ X = w[x]
  OBVIOUS
<1>6. Flat(w, c) = A \o X /\ A \in Seq(V) /\ X \in Seq(V)
  <2>1. Flat(w, a \o o) = Flat(w, a) \o Flat(w, o) /\ Flat(w, a) \in Seq(V)
    <3>1. Lays(w, Classes, V)
      BY <1>2 DEF Lays
    <3> QED
      BY <1>2, <3>1, FlatJoined, SMTT(30)
  <2>2. Flat(w, o) = w[x]
    BY <1>1, <1>2, FlatOne
  <2> QED
    BY <1>2, <1>3, <1>5, <2>1, <2>2
<1>7. Flat(w, s) = Flat(w, c) \o B /\ B \in Seq(V)
  <2>1. Flat(w, c \o b) = Flat(w, c) \o Flat(w, b) /\ Flat(w, b) \in Seq(V)
    <3>1. Lays(w, Classes, V)
      BY <1>2 DEF Lays
    <3>2. c \in Seq(Classes)
      BY <1>4
    <3> QED
      BY <3>1, <3>2, FlatJoined, SMTT(30)
  <2> QED
    BY <1>4, <1>5, <2>1
<1>8. X = q \o M /\ M \in Seq(V) /\ q \in Seq(V)
  BY <1>1, <1>5, SideFacts DEF Kinds
<1>9. A \o X = (A \o q) \o M
  <2>1. A \in Seq(V) /\ q \in Seq(V) /\ M \in Seq(V)
    BY <1>6, <1>8
  <2>2. A \o (q \o M) = (A \o q) \o M
    BY <2>1, SMTT(30)
  <2> QED
    BY <1>8, <2>2
<1>10. PICK d : d = A \o q
  OBVIOUS
<1>11. d \in Seq(V)
  BY <1>6, <1>8, <1>10, JoinedSets
<1>12. (d \o M) \o B = d \o (M \o B)
  <2>1. d \in Seq(V) /\ M \in Seq(V) /\ B \in Seq(V)
    BY <1>7, <1>8, <1>11
  <2> QED
    BY <2>1, SMTT(30)
<1>13. Flat(w, s) = d \o (M \o B)
  BY <1>6, <1>7, <1>9, <1>10, <1>12
<1>14. ChainCut(Flat(w, s), A, p, M, B)
  BY <1>1, <1>10, <1>13 DEF ChainCut, CutAt
<1>15. Flat(w, s) \in Seq(V)
  <2>1. Flat(w, c) \in Seq(V)
    BY <1>2, <1>4, FlatThrough
  <2> QED
    BY <1>7, <2>1, JoinedSets
<1> QED
  BY <1>1, <1>5, <1>6, <1>7, <1>8, <1>14, <1>15

\* The classes of the chain are those of the line.
LEMMA ChainSelf ==
  ASSUME ListsOK, MethodsOK, Acyclic, NEW n \in Names, NEW s \in Seq(Classes)
  PROVE \A z \in ToSet(Flat(SideOf, s)) : z[1] = "self" => z = <<"self", z[2]>> /\ z[2] \in ToSet(s)
<1>1. PICK w, V : w = SideOf /\ V = SidePlaces
  OBVIOUS
<1>2. \A m \in Classes : w[m] \in Seq(V)
  BY <1>1, SideFacts DEF Kinds
<1>3. \A z : z \in ToSet(Flat(w, s)) <=> \E m \in ToSet(s) : z \in ToSet(w[m])
  BY <1>2, FlatSet
<1>4. \A m \in Modules : Mixes[m] \in Seq(V)
  BY <1>1, MixesFacts
<1>5. ASSUME NEW m \in Modules, NEW z \in ToSet(Mixes[m]) PROVE z[1] = "module"
  <2>1. PICK t : t = Ancestors(m)
    OBVIOUS
  <2>2. t \in Seq(Kinds)
    BY <2>1, FindAncestors DEF Kinds
  <2>3. Mixes[m] = [i \in DOMAIN t |-> <<"module", t[i]>>]
    BY <2>1 DEF Mixes, Tagged
  <2>4. \E i \in DOMAIN t : z = <<"module", t[i]>>
    BY <2>3 DEF ToSet
  <2> QED
    BY <2>4
<1>6. ASSUME NEW z \in ToSet(Flat(w, s)), z[1] = "self" PROVE z = <<"self", z[2]>> /\ z[2] \in ToSet(s)
  <2>1. PICK m \in ToSet(s) : z \in ToSet(w[m])
    BY <1>3, <1>6
  <2>2. m \in Classes /\ m \in Kinds
    BY InSequence DEF Kinds
  <2>3. PICK e, r, p, q : e = extended[m] /\ r = Flat(Mixes, e) /\ p = <<"self", m>> /\ q = <<p>>
    OBVIOUS
  <2>4. e \in Seq(Modules) /\ r \in Seq(V) /\ q \in Seq(V) /\ w[m] = q \o r
    BY <1>1, <2>2, <2>3, SideFacts
  <2>5. p \in V /\ ToSet(q) = {p}
    <3>1. p \in V
      BY <1>1, <2>2, <2>3, SideHitsFacts
    <3> QED
      BY <2>3, <3>1, OneElement
  <2>6. ToSet(w[m]) = {p} \union ToSet(r)
    BY <2>4, <2>5, JoinedSets
  <2>7. z \notin ToSet(r)
    <3>1. SUFFICES ASSUME z \in ToSet(r) PROVE FALSE
      OBVIOUS
    <3>2. PICK k \in ToSet(e) : z \in ToSet(Mixes[k])
      BY <1>4, <2>3, <2>4, <3>1, FlatSet
    <3>3. k \in Modules
      BY <2>4, <3>2, InSequence
    <3>4. z[1] = "module"
      BY <1>5, <3>2, <3>3
    <3> QED
      BY <1>6, <3>4
  <2>8. z = p
    BY <2>1, <2>6, <2>7
  <2>9. p[2] = m
    BY <2>3
  <2> QED
    BY <2>1, <2>3, <2>8, <2>9
<1> QED
  BY <1>1, <1>6

\* What super in a class method finds, for the parts of the line.
LEMMA ClassSuperCut ==
  ASSUME ListsOK, MethodsOK, Acyclic, NEW n \in Names, NEW s \in Seq(Classes),
         NEW x \in Classes, NEW a \in Seq(Classes), NEW b \in Seq(Classes), CutAt(s, a, x, b), x \notin ToSet(a)
  PROVE Through(s, ClassPasses(x, n), Unseen)
           = At(OrElse(Among(Found(n), extended[x]), Among(SideFound(n), b)))
<1>1. PICK C, h, r, u, V : /\ C = ClassPasses(x, n) /\ h = SideFound(n) /\ u = Unseen
                           /\ r = Among(Found(n), extended[x]) /\ V = Ats \union {u}
  OBVIOUS
<1>2. Tracks(C, h, Classes) /\ r \in Hits /\ \A c \in Classes : C[c][u] = IF c = x THEN At(r) ELSE u
  BY <1>1, ClassPassesFacts
<1>3. At(r) \in V /\ u \in V
  BY <1>1, <1>2 DEF Ats
<1>4. \A l \in Seq(Classes) : Steps(l, C, V)
  <2>1. \A l \in Seq(Classes) : Steps(l, C, Ats)
    BY <1>2, TracksThrough
  <2>2. \A l \in Seq(Classes) : \A c \in ToSet(l) : C[c][u] \in V
    BY <1>2, <1>3, InSequence
  <2> QED
    BY <1>1, <2>1, <2>2 DEF Steps
<1>5. Through(s, C, u) = Through(b, C, C[x][Through(a, C, u)])
  BY <1>3, <1>4, ThroughCut
<1>6. Through(a, C, u) = u
  <2>1. PICK W : W = {u}
    OBVIOUS
  <2>2. \A c \in ToSet(a) : c \in Classes /\ c # x
    BY InSequence
  <2>3. Steps(a, C, W) /\ u \in W
    BY <1>2, <2>1, <2>2 DEF Steps
  <2>4. Through(a, C, u) \in W
    BY <2>3, ThroughKeeps
  <2> QED
    BY <2>1, <2>4
<1>7. C[x][u] = At(r)
  BY <1>2
<1>8. Through(b, C, At(r)) = At(OrElse(r, Among(h, b)))
  BY <1>2, TracksThrough
<1> QED
  BY <1>1, <1>5, <1>6, <1>7, <1>8

LEMMA ClassSuperLemma ==
  ASSUME ListsOK, MethodsOK, Acyclic, ClassesClean
  PROVE ClassSuperFollowsChain
<1> SUFFICES ASSUME NEW k \in Classes, NEW n \in Names, NEW chain, chain = ClassChain(k), NoRepeats(chain),
                    NEW i \in DOMAIN chain, chain[i][1] = "self"
             PROVE FindClassSuper(k, chain[i][2], n) = FirstOnChain(After(chain, i), n)
  BY DEF ClassSuperFollowsChain
<1>1. PICK s : s = Line(k)
  OBVIOUS
<1>2. s \in Seq(Classes) /\ chain = Flat(SideOf, s) /\ chain \in Seq(SidePlaces)
  BY <1>1, ChainFlat, FindOnChain
<1>3. Distinct(chain)
  BY <1>2, NoRepeatsFacts
<1>4. i \in 1 .. Len(chain) /\ chain[i] \in ToSet(chain)
  BY <1>2, InSequence
<1>5. PICK x : x = chain[i][2]
  OBVIOUS
<1>6. chain[i] = <<"self", x>> /\ x \in ToSet(s) /\ x \in Classes
  <2>1. \A z \in ToSet(chain) : z[1] = "self" => z = <<"self", z[2]>> /\ z[2] \in ToSet(s)
    BY <1>2, ChainSelf
  <2> QED
    BY <1>2, <1>4, <1>5, <2>1, InSequence
<1>7. PICK a \in Seq(Classes), b \in Seq(Classes) : CutAt(s, a, x, b) /\ x \notin ToSet(a)
  BY <1>2, <1>6, Cut
<1>8. PICK A, M, B, p : A = Flat(SideOf, a) /\ M = Flat(Mixes, extended[x]) /\ B = Flat(SideOf, b) /\ p = <<"self", x>>
  OBVIOUS
<1>9. CutAt(chain, A, p, M \o B) /\ A \in Seq(SidePlaces) /\ M \in Seq(SidePlaces) /\ B \in Seq(SidePlaces)
  BY <1>2, <1>6, <1>7, <1>8, ChainSplit DEF ChainCut
<1>10. PICK t : t = M \o B
  OBVIOUS
<1>11. t \in Seq(SidePlaces) /\ p \in SidePlaces
  <2>1. p \in SidePlaces
    BY <1>6, <1>8, SideHitsFacts DEF Kinds
  <2> QED
    BY <1>9, <1>10, <2>1, JoinedSets
<1>12. After(chain, i) = t
  <2>1. PICK j : j = Len(A) + 1
    OBVIOUS
  <2>2. j \in 1 .. Len(chain) /\ chain[j] = p /\ After(chain, j) = t
    <3>1. chain \in Seq(SidePlaces) /\ p \in SidePlaces /\ A \in Seq(SidePlaces) /\ t \in Seq(SidePlaces)
          /\ CutAt(chain, A, p, t)
      BY <1>2, <1>9, <1>10, <1>11
    <3>2. /\ Len(A) + 1 \in 1 .. Len(chain) /\ chain[Len(A) + 1] = p
          /\ After(chain, Len(A) + 1) = t
      BY <3>1, AfterCut
    <3> QED
      BY <2>1, <3>2
  <2>3. i = j
    BY <1>3, <1>4, <1>6, <1>8, <2>2 DEF Distinct
  <2> QED
    BY <2>2, <2>3
<1>13. PICK h, f, r : h = SideHits(n) /\ f = SideFound(n) /\ r = Among(Found(n), extended[x])
  OBVIOUS
<1>14. FirstOnChain(t, n) = Among(h, t)
  BY <1>11, <1>13, OnChainAmong
<1>15. Among(h, t) = OrElse(Among(h, M), Among(h, B))
  <2>1. \A q \in SidePlaces : h[q] \in Hits
    BY <1>13, SideHitsFacts
  <2> QED
    BY <1>9, <1>10, <2>1, AmongJoined
<1>16. Among(h, M) = r
  BY <1>6, <1>8, <1>13, SideFacts DEF Kinds
<1>17. Among(h, B) = Among(f, b)
  <2>1. PICK w : w = SideOf
    OBVIOUS
  <2>2. Firsts(f, h, w, Classes, SidePlaces)
    BY <1>13, <2>1, SideHitsFacts, SideFacts DEF Firsts, Kinds
  <2>3. Among(f, b) = Among(h, Flat(w, b))
    BY <2>2, AmongFlat
  <2> QED
    BY <1>8, <2>1, <2>3
<1>18. Through(s, ClassPasses(x, n), Unseen) = At(OrElse(r, Among(f, b)))
  BY <1>2, <1>6, <1>7, <1>13, ClassSuperCut
<1>19. FindClassSuper(k, x, n) = OrElse(r, Among(f, b))
  <2>1. FindClassSuper(k, x, n) = Through(s, ClassPasses(x, n), Unseen).hit
    BY <1>1, Zenon DEF FindClassSuper, ClassPasses
  <2> QED
    BY <1>18, <2>1 DEF At
<1> QED
  BY <1>5, <1>12, <1>14, <1>15, <1>16, <1>17, <1>19

\* What every action writes among the class methods of a class is a method or a
\* name: undef_method is for instance methods, and module_function, which
\* copies what it finds, for modules.
Writes(k, n, v) == selfs' = [selfs EXCEPT ![k][n] = v]

LEMMA CleanSet ==
  ASSUME MethodsOK, ClassesClean, NEW k \in Kinds, NEW n \in Names, NEW v,
         v # "undef" \/ k \in Modules, Writes(k, n, v)
  PROVE ClassesClean'
<1>1. selfs \in [Kinds -> [Names -> Entries]]
  BY DEF MethodsOK, Tables
<1>2. ASSUME NEW c \in Classes, NEW m \in Names PROVE selfs'[c][m] # "undef"
  <2>1. c \in Kinds /\ c \notin Modules /\ selfs[c][m] # "undef"
    BY LookupAssumption DEF ClassesClean, Kinds
  <2>2. selfs'[c][m] = IF c = k /\ m = n THEN v ELSE selfs[c][m]
    BY <1>1, <2>1 DEF Writes
  <2> QED
    BY <2>1, <2>2
<1> QED
  BY <1>2 DEF ClassesClean

LEMMA CleanRenewed ==
  ASSUME MethodsOK, ClassesClean, NEW k \in Kinds, NEW n \in Names, NEW v \in Visibilities,
         selfs' = [selfs EXCEPT ![k] = Renewed(@, n, v)]
  PROVE ClassesClean'
<1>1. selfs \in [Kinds -> [Names -> Entries]] /\ v # "undef"
  BY DEF MethodsOK, Tables, Visibilities
<1>2. PICK r : r = Renewed(selfs[k], n, v)
  OBVIOUS
<1>3. \A m \in Names : r[m] = selfs[k][m] \/ r[m] = v
  BY <1>1, <1>2 DEF Renewed
<1>4. \A c \in Kinds : selfs'[c] = IF c = k THEN r ELSE selfs[c]
  BY <1>1, <1>2
<1>5. ASSUME NEW c \in Classes, NEW m \in Names PROVE selfs'[c][m] # "undef"
  <2>1. c \in Kinds /\ selfs[c][m] # "undef"
    BY DEF ClassesClean, Kinds
  <2> QED
    BY <1>1, <1>3, <1>4, <2>1
<1> QED
  BY <1>5 DEF ClassesClean

LEMMA CleanInit == Init => ClassesClean
<1> SUFFICES ASSUME Init, NEW k \in Classes, NEW n \in Names PROVE selfs[k][n] # "undef"
  BY DEF ClassesClean
<1>1. k \in Kinds /\ selfs = [x \in Kinds |-> NoMethods]
  BY DEF Init, Kinds
<1>2. selfs[k] = NoMethods
  BY <1>1
<1> QED
  BY <1>2 DEF NoMethods

LEMMA CleanStep == IInv /\ ClassesClean /\ [Next]_vars => ClassesClean'
<1> SUFFICES ASSUME IInv, ClassesClean, [Next]_vars PROVE ClassesClean'
  OBVIOUS
<1>1. MethodsOK /\ BodiesOK
  BY DEF IInv, TypeOK
<1>2. /\ "public" \in Visibilities /\ "private" \in Visibilities /\ "undef" \notin Visibilities
      /\ Defined \subseteq Names /\ Aliases \subseteq Names
  BY DEF Visibilities, Names
<1>3. ASSUME UNCHANGED selfs PROVE ClassesClean'
  BY <1>3 DEF ClassesClean
<1>4. ASSUME NEW n \in Defined, Def(n) PROVE ClassesClean'
  <2>1. InBody
    BY <1>4 DEF Def
  <2>2. PICK k, g : k = Here.of /\ g = mode[Here.of]
    OBVIOUS
  <2>3. k \in Kinds /\ g \in Modes /\ n \in Names
    BY <1>1, <1>2, <2>1, <2>2, HereFacts
  <2>4. PICK v : v = IF g = "module_function" THEN "private" ELSE g
    OBVIOUS
  <2>5. v # "undef"
    BY <1>2, <2>3, <2>4 DEF Modes
  <2>6. \/ Writes(k, n, v)
        \/ Writes(k, n, "public") \/ selfs' = selfs
    BY <1>4, <2>2, <2>4, Zenon DEF Def, DefIn, Writes
  <2>7. CASE Writes(k, n, v)
    BY <1>1, <2>3, <2>5, <2>7, CleanSet
  <2>8. CASE Writes(k, n, "public")
    BY <1>1, <2>3, <2>8, CleanSet
  <2> QED
    BY <1>3, <2>6, <2>7, <2>8
<1>5. ASSUME NEW n \in Defined, ModuleFunction(n) PROVE ClassesClean'
  <2>1. PICK k, v : k = Here.of /\ v = FindInstance(Here.of, n)[1]
    OBVIOUS
  <2>2. InBody /\ k \in Modules /\ Writes(k, n, v)
    BY <1>5, <2>1, Zenon DEF ModuleFunction, Writes
  <2>3. k \in Kinds /\ n \in Names
    BY <1>2, <2>2 DEF Kinds
  <2> QED
    BY <1>1, <2>2, <2>3, CleanSet
<1>6. ASSUME NEW k \in Kinds, NEW n \in Defined, DefSelf(k, n) PROVE ClassesClean'
  <2>1. Writes(k, n, "public") /\ n \in Names
    BY <1>2, <1>6 DEF DefSelf, DefIn, Writes
  <2> QED
    BY <1>1, <2>1, CleanSet
<1>7. ASSUME NEW n \in Names, NEW v \in Visibilities, SetVisibility(n, v) \/ SetClassVisibility(n, v)
      PROVE ClassesClean'
  <2>1. InBody
    BY <1>7 DEF SetVisibility, SetClassVisibility
  <2>2. PICK k \in Kinds : k = Here.of
    BY <1>1, <2>1, HereFacts
  <2>3. selfs' = [selfs EXCEPT ![k] = Renewed(@, n, v)]
    BY <1>7, <2>2, Zenon DEF SetVisibility, SetClassVisibility
  <2> QED
    BY <1>1, <2>3, CleanRenewed
<1>8. ASSUME NEW new \in Aliases, NEW old \in Defined, AliasClassMethod(new, old) PROVE ClassesClean'
  <2>1. InBody
    BY <1>8 DEF AliasClassMethod
  <2>2. PICK k \in Kinds : k = Here.of
    BY <1>1, <2>1, HereFacts
  <2>3. PICK e : e = ScopeGetSelf(k, old)
    OBVIOUS
  <2>4. (Method(e) /\ Writes(k, new, e)) \/ Writes(k, new, "symbol")
    BY <1>8, <2>2, <2>3, Zenon DEF AliasClassMethod, DefIn, Writes
  <2>5. new \in Names /\ (Method(e) => e # "undef")
    BY <1>2 DEF Method
  <2>6. CASE Method(e) /\ Writes(k, new, e)
    BY <1>1, <2>5, <2>6, CleanSet
  <2>7. CASE Writes(k, new, "symbol")
    BY <1>1, <2>5, <2>7, CleanSet
  <2> QED
    BY <2>4, <2>6, <2>7
<1>9. ASSUME \/ \E k \in Kinds : OpenClass(k)
             \/ OpenSingleton \/ CloseBody \/ LeaveBody
             \/ \E n \in Defined : DefTop(n) \/ DefSingleton(n)
             \/ \E k \in Kinds, n \in Defined : RemoveMethod(k, n) \/ UndefMethod(k, n)
             \/ \E v \in Visibilities \union {"module_function"} : SetMode(v)
             \/ \E new \in Aliases, old \in Defined : Alias(new, old)
             \/ \E k \in Kinds, m \in Modules : Include(k, m) \/ Prepend(k, m) \/ ExtendClass(k, m)
             \/ \E m \in Modules : ExtendObject(m)
             \/ UNCHANGED vars
      PROVE UNCHANGED selfs
  BY <1>9 DEF OpenClass, OpenSingleton, CloseBody, LeaveBody, DefTop, DefSingleton, RemoveMethod, UndefMethod,
              SetMode, Alias, Include, Prepend, ExtendClass, ExtendObject, vars
<1> QED
  BY <1>3, <1>4, <1>5, <1>6, <1>7, <1>8, <1>9 DEF Next

(***************************************************************************)
(* Theorems.                                                               *)
(***************************************************************************)
\* The tables and the stack of bodies hold what the actions may put there, no
\* module reaches itself (so every walk ends), and the two variables of a class
\* say what its last body says, unless that one is spoilt.
THEOREM LookupInvariant == Spec => []IInv
<1>1. Init => IInv
  BY InitInv
<1>2. IInv /\ [Next]_vars => IInv'
  BY StepInv
<1> QED
  BY <1>1, <1>2, PTL DEF Spec

\* A private method runs only for the object itself and a protected one for
\* objects of the family (dispatch), what others may call the object can call
\* itself, and a def goes where its class body says, with the visibility it
\* says (__singleton_target__ and __visibility__).
THEOREM VisibilityCorrect == Spec => []VisibilityKept
<1>1. IInv => VisibilityKept
  <2>1. IInv => ListsOK /\ MethodsOK /\ Acyclic
    BY DEF IInv, TypeOK
  <2> QED
    BY <2>1, HiddenLemma, ModeLemma DEF VisibilityKept
<1> QED
  BY <1>1, LookupInvariant, PTL

\* respond_to?, public_send and calls agree; include?, included_modules and
\* is_a? agree with ancestors (except what ReflectionAgrees leaves out).
THEOREM ReflectionCorrect == Spec => []ReflectionHonest
<1>1. IInv => ReflectionHonest
  <2>1. IInv => ListsOK /\ MethodsOK /\ Acyclic
    BY DEF IInv, TypeOK
  <2> QED
    BY <2>1, RespondLemma, ReflectionLemma DEF ReflectionHonest
<1> QED
  BY <1>1, LookupInvariant, PTL

\* A call and super follow the ancestors: a method, of an object or of a class,
\* is found at the first place of `ancestors` (or of the chain of the class side)
\* that has it (find_instance_method, find_class_method), and super from a place
\* finds it at the first place after that one.
THEOREM DispatchCorrect == Spec => []DispatchFollowsAncestors
<1>1. IInv /\ ClassesClean => DispatchFollowsAncestors
  <2>1. IInv => ListsOK /\ MethodsOK /\ Acyclic
    BY DEF IInv, TypeOK
  <2> QED
    BY <2>1, LookupLemma, SuperLemma, ClassSuperLemma DEF DispatchFollowsAncestors
<1> QED
  BY <1>1, LookupInvariant, CleanInit, CleanStep, PTL DEF Spec
=============================================================================
