---------------------------- MODULE Hashes_proofs ----------------------------
(***************************************************************************)
(* Proofs about Hashes: whatever operations and blocks do, a hash has one  *)
(* entry for a key, in the order in which the keys came, a frozen one      *)
(* keeps its entries, the process environment follows ENV, and iterators   *)
(* and copying methods return what their names say.                        *)
(***************************************************************************)
EXTENDS Hashes, Recursion, SequenceTheorems, TLAPS

(***************************************************************************)
(* Tables.                                                                 *)
(***************************************************************************)
LEMMA ArgumentsTyped ==
  ASSUME NEW o \in Others
  PROVE o \in Seq(Entries) /\ Len(o) <= MaxLen /\ Unique(o, FALSE) /\ Unique(o, TRUE)
<1>1. o \in BoundedSeq(Entries, MaxLen) /\ Unique(o, FALSE) /\ MaxLen \in Nat
  BY HashesAssumption
<1>2. o \in Seq(Entries) /\ Len(o) <= MaxLen
  BY <1>1, Bounded
<1>3. Unique(o, TRUE)
  BY <1>1, Zenon DEF Unique, Same
<1> QED
  BY <1>1, <1>2, <1>3

LEMMA SameRelation ==
  /\ \A k, id : Same(k, k, id)
  /\ \A k, l, id : Same(k, l, id) => Same(l, k, id)
  /\ \A k, l, m, id : Same(k, l, id) /\ Same(l, m, id) => Same(k, m, id)
<1>1. \A k, id : Same(k, k, id)
  BY DEF Same
<1>2. \A k, l, id : Same(k, l, id) => Same(l, k, id)
  BY DEF Same
<1>3. \A k, l, m, id : Same(k, l, id) /\ Same(l, m, id) => Same(k, m, id)
  BY DEF Same
<1> QED
  BY <1>1, <1>2, <1>3, Zenon

LEMMA PositionFacts ==
  ASSUME NEW t \in Seq(Entries), NEW k, NEW id
  PROVE /\ Position(t, k, id) \in 0 .. Len(t)
        /\ Position(t, k, id) # 0 => Same(t[Position(t, k, id)].key, k, id)
        /\ Position(t, k, id) = 0 => \A i \in 1 .. Len(t) : ~Same(t[i].key, k, id)
<1> DEFINE I == {i \in 1 .. Len(t) : Same(t[i].key, k, id)}
<1>1. Position(t, k, id) = IF I # {} THEN Min(I) ELSE 0
  BY Zenon DEF Position, SelectInSeq
<1>2. I \subseteq Nat /\ I \subseteq 1 .. Len(t)
  OBVIOUS
<1>3. I # {} => Min(I) \in I
  <2> HIDE DEF I
  <2> QED
    BY <1>2, MinExists
<1>4. CASE I = {}
  BY <1>1, <1>4
<1>5. CASE I # {}
  BY <1>1, <1>3, <1>5
<1> QED
  BY <1>4, <1>5

\* In a table with one entry for a key, the entry for it is found.
LEMMA Found ==
  ASSUME NEW t \in Seq(Entries), NEW k, NEW id, Unique(t, id),
         NEW i \in 1 .. Len(t), Same(t[i].key, k, id)
  PROVE Position(t, k, id) = i
<1> DEFINE p == Position(t, k, id)
<1>1. p \in 0 .. Len(t) /\ p # 0 /\ Same(t[p].key, k, id)
  BY PositionFacts
<1>2. p \in 1 .. Len(t)
  BY <1>1
<1> HIDE DEF p
<1>3. Same(t[p].key, t[i].key, id)
  BY <1>1, SameRelation, Zenon
<1>4. DOMAIN t = 1 .. Len(t)
  OBVIOUS
<1>5. p = i
  BY <1>2, <1>3, <1>4, Zenon DEF Unique
<1> QED
  BY <1>5 DEF p

\* A step keeps what was there in place and may add new keys behind it.
Grown(t, u, id) ==
  /\ Len(t) <= Len(u)
  /\ \A i \in 1 .. Len(t) : u[i].key = t[i].key
  /\ Unique(t, id) => Unique(u, id)

\* A step takes some entries out and leaves the others in order.
Thinned(t, u) ==
  \E g \in [1 .. Len(u) -> 1 .. Len(t)] :
     /\ \A i, j \in 1 .. Len(u) : i < j => g[i] < g[j]
     /\ \A i \in 1 .. Len(u) : u[i].key = t[g[i]].key

\* What was there and stays is in the order it was, new keys come after it.
Ordered(t, u, id) ==
  \A i, j \in DOMAIN u :
     LET a == Position(t, u[i].key, id)  b == Position(t, u[j].key, id)
     IN  (i < j /\ b # 0) => (a # 0 /\ a < b)

LEMMA GrownOrdered ==
  ASSUME NEW t \in Seq(Entries), NEW u \in Seq(Entries), NEW id, Unique(t, id), Grown(t, u, id)
  PROVE Unique(u, id) /\ Ordered(t, u, id)
<1>1. Unique(u, id)
  BY DEF Grown
<1>2. ASSUME NEW i \in 1 .. Len(u), NEW j \in 1 .. Len(u), i < j, Position(t, u[j].key, id) # 0
      PROVE Position(t, u[i].key, id) # 0 /\ Position(t, u[i].key, id) < Position(t, u[j].key, id)
  <2>1. PICK b : b = Position(t, u[j].key, id)
    OBVIOUS
  <2>2. b \in 1 .. Len(t) /\ Same(t[b].key, u[j].key, id)
    BY <1>2, <2>1, PositionFacts
  <2>3. b \in 1 .. Len(u) /\ Same(u[b].key, u[j].key, id)
    BY <2>2 DEF Grown
  <2>4. b = j
    <3>1. b \in DOMAIN u /\ j \in DOMAIN u
      BY <2>3
    <3> QED
      BY <1>1, <2>3, <3>1, Zenon DEF Unique
  <2>5. i \in 1 .. Len(t) /\ t[i].key = u[i].key
    BY <1>2, <2>2, <2>4 DEF Grown
  <2>6. Same(t[i].key, u[i].key, id)
    BY <2>5, SameRelation, Zenon
  <2>7. Position(t, u[i].key, id) = i
    BY <2>5, <2>6, Found
  <2> QED
    BY <1>2, <2>1, <2>4, <2>7
<1>3. DOMAIN u = 1 .. Len(u)
  OBVIOUS
<1> QED
  BY <1>1, <1>2, <1>3, Zenon DEF Ordered

LEMMA ThinnedOrdered ==
  ASSUME NEW t \in Seq(Entries), NEW u \in Seq(Entries), NEW id, Unique(t, id), Thinned(t, u)
  PROVE Unique(u, id) /\ Ordered(t, u, id)
<1>1. PICK g \in [1 .. Len(u) -> 1 .. Len(t)] :
        /\ \A i, j \in 1 .. Len(u) : i < j => g[i] < g[j]
        /\ \A i \in 1 .. Len(u) : u[i].key = t[g[i]].key
  BY DEF Thinned
<1>2. DOMAIN u = 1 .. Len(u) /\ DOMAIN t = 1 .. Len(t)
  OBVIOUS
<1>3. \A i \in 1 .. Len(u) : Position(t, u[i].key, id) = g[i]
  <2> SUFFICES ASSUME NEW i \in 1 .. Len(u) PROVE Position(t, u[i].key, id) = g[i]
    OBVIOUS
  <2>1. g[i] \in 1 .. Len(t) /\ t[g[i]].key = u[i].key
    BY <1>1
  <2>2. Same(t[g[i]].key, u[i].key, id)
    BY <2>1, SameRelation, Zenon
  <2> QED
    BY <2>1, <2>2, Found
<1>4. \A i, j \in 1 .. Len(u) : g[i] = g[j] => i = j
  <2> SUFFICES ASSUME NEW i \in 1 .. Len(u), NEW j \in 1 .. Len(u), g[i] = g[j], i # j PROVE FALSE
    OBVIOUS
  <2>1. g[i] \in Int /\ ~(g[i] < g[j]) /\ ~(g[j] < g[i])
    BY <1>1
  <2>2. i < j \/ j < i
    OBVIOUS
  <2> QED
    BY <1>1, <2>1, <2>2
<1>5. Unique(u, id)
  <2> SUFFICES ASSUME NEW i \in 1 .. Len(u), NEW j \in 1 .. Len(u), Same(u[i].key, u[j].key, id)
               PROVE i = j
    BY <1>2, Zenon DEF Unique
  <2>1. g[i] \in 1 .. Len(t) /\ g[j] \in 1 .. Len(t) /\ Same(t[g[i]].key, t[g[j]].key, id)
    BY <1>1
  <2>2. g[i] = g[j]
    BY <1>2, <2>1, Zenon DEF Unique
  <2> QED
    BY <1>4, <2>2
<1>6. \A i, j \in 1 .. Len(u) : i < j => g[i] # 0 /\ g[i] < g[j]
  BY <1>1
<1>7. Ordered(t, u, id)
  BY <1>2, <1>3, <1>6, Zenon DEF Ordered
<1> QED
  BY <1>5, <1>7

LEMMA GrownSelf ==
  ASSUME NEW t \in Seq(Entries), NEW id
  PROVE Grown(t, t, id)
BY DEF Grown

LEMMA GrownTwice ==
  ASSUME NEW t \in Seq(Entries), NEW u \in Seq(Entries), NEW w \in Seq(Entries), NEW id,
         Grown(t, u, id), Grown(u, w, id)
  PROVE Grown(t, w, id)
<1>1. Len(t) <= Len(w)
  BY DEF Grown
<1>2. ASSUME NEW i \in 1 .. Len(t) PROVE w[i].key = t[i].key
  <2>1. i \in 1 .. Len(u)
    BY DEF Grown
  <2> QED
    BY <2>1 DEF Grown
<1>3. Unique(t, id) => Unique(w, id)
  BY Zenon DEF Grown
<1> QED
  BY <1>1, <1>2, <1>3 DEF Grown

LEMMA EntryWith ==
  ASSUME NEW e \in Entries
  PROVE /\ \A v \in Values : /\ [e EXCEPT !.val = v] \in Entries
                             /\ [e EXCEPT !.val = v].key = e.key /\ [e EXCEPT !.val = v].val = v
        /\ \A k \in Keys : [e EXCEPT !.key = k] \in Entries
BY DEF Entries

\* The entry at p gets the value v.
Valued(t, p, v) == [t EXCEPT ![p].val = v]

Revalued(t, u, p, v) ==
  /\ p \in 1 .. Len(t) /\ u \in Seq(Entries) /\ Len(u) = Len(t)
  /\ \A i \in 1 .. Len(t) : u[i].key = t[i].key /\ u[i].val = IF i = p THEN v ELSE t[i].val

LEMMA ValueStored ==
  ASSUME NEW t \in Seq(Entries), NEW p \in 1 .. Len(t), NEW v \in Values
  PROVE Revalued(t, Valued(t, p, v), p, v)
<1>1. t[p] \in Entries
  OBVIOUS
<1>2. [t[p] EXCEPT !.val = v] \in Entries /\ [t[p] EXCEPT !.val = v].key = t[p].key
        /\ [t[p] EXCEPT !.val = v].val = v
  BY <1>1, EntryWith
<1> DEFINE e == [t[p] EXCEPT !.val = v]
<1>3. PICK u : u = Valued(t, p, v)
  OBVIOUS
<1>4. u = [t EXCEPT ![p] = e]
  BY <1>3 DEF Valued
<1>5. e \in Entries /\ e.key = t[p].key /\ e.val = v
  BY <1>2
<1> HIDE DEF e
<1>6. u \in Seq(Entries) /\ Len(u) = Len(t)
  BY <1>4, <1>5
<1>7. \A i \in 1 .. Len(t) : u[i] = IF i = p THEN e ELSE t[i]
  BY <1>4
<1>8. Revalued(t, u, p, v)
  BY <1>5, <1>6, <1>7 DEF Revalued
<1> QED
  BY <1>3, <1>8

LEMMA KeysStay ==
  ASSUME NEW t \in Seq(Entries), NEW u \in Seq(Entries), NEW id,
         Len(u) = Len(t), \A i \in 1 .. Len(t) : u[i].key = t[i].key
  PROVE Grown(t, u, id)
<1>1. DOMAIN t = 1 .. Len(t) /\ DOMAIN u = 1 .. Len(t) /\ Len(t) <= Len(u)
  OBVIOUS
<1>2. Unique(t, id) => Unique(u, id)
  BY <1>1, Zenon DEF Unique
<1> QED
  BY <1>1, <1>2 DEF Grown

\* Storing finds the entry or appends one.
LEMMA PutFound ==
  ASSUME NEW t \in Seq(Entries), NEW k \in Keys, NEW v \in Values, NEW id,
         Position(t, k, id) # 0
  PROVE Revalued(t, Put(t, k, v, id), Position(t, k, id), v)
<1>1. PICK p : p = Position(t, k, id)
  OBVIOUS
<1>2. p \in 1 .. Len(t)
  BY <1>1, PositionFacts
<1>3. Put(t, k, v, id) = Valued(t, p, v)
  BY <1>1 DEF Put, Has, Valued
<1>4. Revalued(t, Valued(t, p, v), p, v)
  BY <1>2, ValueStored
<1> QED
  BY <1>1, <1>3, <1>4

Added(t, u, k, v) ==
  /\ u \in Seq(Entries) /\ Len(u) = Len(t) + 1 /\ Len(t) \in Nat
  /\ \A i \in 1 .. Len(t) : u[i] = t[i]
  /\ u[Len(t) + 1].key = k /\ u[Len(t) + 1].val = v

LEMMA PutNew ==
  ASSUME NEW t \in Seq(Entries), NEW k \in Keys, NEW v \in Values, NEW id,
         Position(t, k, id) = 0
  PROVE Added(t, Put(t, k, v, id), k, v)
<1> DEFINE e == [key |-> k, val |-> v]
<1>1. PICK u : u = Put(t, k, v, id)
  OBVIOUS
<1>2. u = Append(t, e)
  BY <1>1 DEF Put, Has
<1>3. e \in Entries /\ e.key = k /\ e.val = v
  BY DEF Entries
<1> HIDE DEF e
<1>4. /\ u \in Seq(Entries) /\ Len(u) = Len(t) + 1 /\ Len(t) \in Nat
      /\ \A i \in 1 .. Len(t) : u[i] = t[i]
      /\ u[Len(t) + 1] = e
  BY <1>2, <1>3
<1>5. Added(t, u, k, v)
  BY <1>3, <1>4 DEF Added
<1> QED
  BY <1>1, <1>5

LEMMA PutFacts ==
  ASSUME NEW t \in Seq(Entries), NEW k \in Keys, NEW v \in Values, NEW id
  PROVE Put(t, k, v, id) \in Seq(Entries) /\ Grown(t, Put(t, k, v, id), id)
<1>1. PICK p : p = Position(t, k, id)
  OBVIOUS
<1>2. PICK u : u = Put(t, k, v, id)
  OBVIOUS
<1>3. CASE p # 0
  <2>1. u \in Seq(Entries) /\ Len(u) = Len(t) /\ \A i \in 1 .. Len(t) : u[i].key = t[i].key
    <3>1. Revalued(t, u, p, v)
      BY <1>1, <1>2, <1>3, PutFound
    <3> QED
      BY <3>1 DEF Revalued
  <2>2. Grown(t, u, id)
    BY <2>1, KeysStay
  <2> QED
    BY <1>2, <2>1, <2>2
<1>4. CASE p = 0
  <2>1. /\ \A i \in 1 .. Len(t) : ~Same(t[i].key, k, id)
        /\ u \in Seq(Entries) /\ Len(u) = Len(t) + 1 /\ Len(t) \in Nat
        /\ \A i \in 1 .. Len(t) : u[i] = t[i]
        /\ u[Len(t) + 1].key = k
    <3>1. \A i \in 1 .. Len(t) : ~Same(t[i].key, k, id)
      BY <1>1, <1>4, PositionFacts
    <3>2. Added(t, u, k, v)
      BY <1>1, <1>2, <1>4, PutNew
    <3> QED
      BY <3>1, <3>2 DEF Added
  <2>2. ASSUME Unique(t, id) PROVE Unique(u, id)
    <3> SUFFICES ASSUME NEW i \in DOMAIN u, NEW j \in DOMAIN u, Same(u[i].key, u[j].key, id)
                 PROVE i = j
      BY Zenon DEF Unique
    <3>1. i \in 1 .. Len(t) + 1 /\ j \in 1 .. Len(t) + 1
      BY <2>1
    <3>2. CASE i \in 1 .. Len(t) /\ j \in 1 .. Len(t)
      <4>1. Same(t[i].key, t[j].key, id) /\ i \in DOMAIN t /\ j \in DOMAIN t
        BY <2>1, <3>2
      <4> QED
        BY <2>2, <4>1, Zenon DEF Unique
    <3>3. CASE i = Len(t) + 1 /\ j # Len(t) + 1
      <4>1. j \in 1 .. Len(t) /\ u[j] = t[j] /\ u[i].key = k
        BY <2>1, <3>1, <3>3
      <4>2. Same(t[j].key, k, id)
        BY <4>1, SameRelation, Zenon
      <4> QED
        BY <2>1, <4>1, <4>2
    <3>4. CASE i # Len(t) + 1 /\ j = Len(t) + 1
      <4>1. i \in 1 .. Len(t) /\ u[i] = t[i] /\ u[j].key = k
        BY <2>1, <3>1, <3>4
      <4>2. Same(t[i].key, k, id)
        BY <4>1, Zenon
      <4> QED
        BY <2>1, <4>1, <4>2
    <3> QED
      BY <3>1, <3>2, <3>3, <3>4
  <2>3. Grown(t, u, id)
    BY <2>1, <2>2 DEF Grown
  <2> QED
    BY <1>2, <2>1, <2>3
<1> QED
  BY <1>3, <1>4

\* The tables between t and the one with all the entries es.
PutSteps(f, t, es, id) ==
  /\ f \in [0 .. Len(es) -> Seq(Entries)]
  /\ f[0] = t /\ f[Len(es)] = PutAll(t, es, id)
  /\ \A n \in 1 .. Len(es) : f[n] = Put(f[n - 1], es[n].key, es[n].val, id)

LEMMA PutAllSteps ==
  ASSUME NEW t \in Seq(Entries), NEW es \in Seq(Entries), NEW id
  PROVE \E f : PutSteps(f, t, es, id)
<1> DEFINE N == Len(es)
           S == Seq(Entries)
           step == [n \in 1 .. N |-> [u \in S |-> Put(u, es[n].key, es[n].val, id)]]
           Def(g) == g = [n \in 0 .. N |-> IF n = 0 THEN t
                                           ELSE Put(g[n - 1], es[n].key, es[n].val, id)]
           put == CHOOSE g : Def(g)
<1>1. N \in Nat /\ \A n \in 1 .. N : es[n].key \in Keys /\ es[n].val \in Values
  <2>1. \A n \in 1 .. N : es[n] \in Entries
    OBVIOUS
  <2> QED
    BY <2>1 DEF Entries
<1>2. step \in [1 .. N -> [S -> S]]
  <2>1. ASSUME NEW n \in 1 .. N, NEW u \in S PROVE Put(u, es[n].key, es[n].val, id) \in S
    BY <1>1, PutFacts
  <2> QED
    BY <2>1
<1>3. \A n \in 1 .. N : \A u \in S : step[n][u] = Put(u, es[n].key, es[n].val, id)
  OBVIOUS
<1>4. PutAll(t, es, id) = put[N]
  BY Zenon DEF PutAll
<1> HIDE DEF step, N
<1>5. PICK g \in [0 .. N -> S] : Iterates(g, N, t, step)
  <2>1. t \in S
    OBVIOUS
  <2> HIDE DEF S
  <2> QED
    BY <1>1, <1>2, <2>1, Recursion
<1>6. Def(g)
  <2>1. ASSUME NEW n \in 0 .. N
        PROVE g[n] = IF n = 0 THEN t ELSE Put(g[n - 1], es[n].key, es[n].val, id)
    <3>1. CASE n = 0
      BY <1>5, <3>1 DEF Iterates
    <3>2. CASE n # 0
      <4>1. n \in 1 .. N /\ n - 1 \in 0 .. N
        BY <1>1, <3>2
      <4>2. g[n] = step[n][g[n - 1]] /\ g[n - 1] \in S
        BY <1>5, <4>1 DEF Iterates
      <4> QED
        BY <1>3, <3>2, <4>1, <4>2
    <3> QED
      BY <3>1, <3>2
  <2> QED
    BY <2>1
<1> HIDE DEF Def
<1>7. Def(put)
  BY <1>6, Zenon
<1> HIDE DEF put
<1> USE DEF Def
<1>8. DOMAIN put = 0 .. N /\ put[0] = t
  BY <1>1, <1>7
<1>9. \A n \in 1 .. N : put[n] = Put(put[n - 1], es[n].key, es[n].val, id)
  <2> SUFFICES ASSUME NEW n \in 1 .. N PROVE put[n] = Put(put[n - 1], es[n].key, es[n].val, id)
    OBVIOUS
  <2>1. n \in 0 .. N /\ n # 0
    BY <1>1
  <2> QED
    BY <1>7, <2>1
<1> HIDE DEF Def
<1>10. \A n \in 0 .. N : put[n] \in S
  <2> DEFINE T == {m \in 0 .. N : put[m] \in S}
  <2>1. 0 \in T
    BY <1>1, <1>8
  <2>2. ASSUME NEW n \in 1 .. N, n - 1 \in T PROVE n \in T
    <3>1. put[n - 1] \in S /\ n \in 0 .. N
      BY <1>1, <2>2
    <3>2. put[n] \in S
      BY <1>1, <1>9, <3>1, PutFacts
    <3> QED
      BY <3>1, <3>2
  <2> HIDE DEF T
  <2>3. \A n \in 0 .. N : n \in T
    BY <1>1, <2>1, <2>2, UpTo
  <2> QED
    BY <2>3 DEF T
<1>11. PICK h : h = put
  OBVIOUS
<1>12. h = [n \in 0 .. N |-> h[n]]
  BY <1>7, <1>11 DEF Def
<1>13. h \in [0 .. N -> S]
  BY <1>10, <1>11, <1>12
<1>14. PutSteps(h, t, es, id)
  BY <1>4, <1>8, <1>9, <1>11, <1>13 DEF PutSteps, N
<1> QED
  BY <1>14

LEMMA PutAllFacts ==
  ASSUME NEW t \in Seq(Entries), NEW es \in Seq(Entries), NEW id
  PROVE PutAll(t, es, id) \in Seq(Entries) /\ Grown(t, PutAll(t, es, id), id)
<1>1. PICK f : PutSteps(f, t, es, id)
  BY PutAllSteps
<1>2. /\ f \in [0 .. Len(es) -> Seq(Entries)] /\ f[0] = t /\ f[Len(es)] = PutAll(t, es, id)
      /\ \A n \in 1 .. Len(es) : f[n] = Put(f[n - 1], es[n].key, es[n].val, id)
  BY <1>1 DEF PutSteps
<1> DEFINE T == {n \in 0 .. Len(es) : Grown(t, f[n], id)}
<1>3. 0 \in T /\ Len(es) \in Nat
  BY <1>2, GrownSelf
<1>4. ASSUME NEW n \in 1 .. Len(es), n - 1 \in T PROVE n \in T
  <2>1. es[n].key \in Keys /\ es[n].val \in Values
    <3>1. es[n] \in Entries
      OBVIOUS
    <3> QED
      BY <3>1 DEF Entries
  <2>2. f[n - 1] \in Seq(Entries) /\ f[n] \in Seq(Entries) /\ Grown(t, f[n - 1], id) /\ n \in 0 .. Len(es)
    BY <1>2, <1>4
  <2>3. Grown(f[n - 1], f[n], id)
    BY <1>2, <2>1, <2>2, PutFacts
  <2>4. Grown(t, f[n], id)
    BY <2>2, <2>3, GrownTwice
  <2> QED
    BY <2>2, <2>4
<1> HIDE DEF T
<1>5. \A n \in 0 .. Len(es) : n \in T
  BY <1>3, <1>4, UpTo
<1>6. Len(es) \in T
  BY <1>3, <1>5
<1> QED
  BY <1>2, <1>6 DEF T

\* Some of the entries, in order: what was picked is there, and nothing else.
LEMMA PickedThinned ==
  ASSUME NEW t \in Seq(Entries), NEW P
  PROVE /\ Picked(t, P) \in Seq(Entries) /\ Len(Picked(t, P)) <= Len(t)
        /\ Thinned(t, Picked(t, P))
        /\ \A i \in 1 .. Len(Picked(t, P)) : \E j \in 1 .. Len(t) : j \in P /\ Picked(t, P)[i] = t[j]
        /\ \A j \in 1 .. Len(t) : j \in P => \E i \in 1 .. Len(Picked(t, P)) : Picked(t, P)[i] = t[j]
<1>1. PICK u : u = Picked(t, P)
  OBVIOUS
<1>2. u \in Seq(Entries) /\ Len(u) <= Len(t)
  BY <1>1, PickedFacts
<1>3. PICK g : Picks(t, P, Len(t), u, g)
  BY <1>1, PickedFrom
<1>4. /\ g \in [1 .. Len(u) -> 1 .. Len(t)]
      /\ \A i, j \in 1 .. Len(u) : i < j => g[i] < g[j]
      /\ \A i \in 1 .. Len(u) : g[i] \in P /\ u[i] = t[g[i]]
      /\ \A k \in 1 .. Len(t) : k \in P => \E i \in 1 .. Len(u) : g[i] = k
  BY <1>3 DEF Picks
<1>5. Thinned(t, u)
  BY <1>4 DEF Thinned
<1>6. \A i \in 1 .. Len(u) : \E j \in 1 .. Len(t) : j \in P /\ u[i] = t[j]
  BY <1>4
<1>7. \A j \in 1 .. Len(t) : j \in P => \E i \in 1 .. Len(u) : u[i] = t[j]
  BY <1>4
<1> QED
  BY <1>1, <1>2, <1>5, <1>6, <1>7

LEMMA FilledFacts ==
  ASSUME NEW t \in Seq(Entries)
  PROVE Filled(t) \in Seq(Entries) /\ Len(Filled(t)) <= Len(t) /\ Thinned(t, Filled(t))
BY PickedThinned DEF Filled

\* u is t without its entry at p.
Shrunk(t, u, p) ==
  /\ u \in Seq(Entries) /\ Len(u) = Len(t) - 1
  /\ \A i \in 1 .. Len(u) : u[i] = IF i < p THEN t[i] ELSE t[i + 1]

LEMMA WithoutShrinks ==
  ASSUME NEW t \in Seq(Entries), NEW k, NEW id, NEW p, p = Position(t, k, id), p # 0
  PROVE p \in 1 .. Len(t) /\ Shrunk(t, Without(t, k, id), p)
<1>1. p \in 1 .. Len(t)
  BY PositionFacts
<1> DEFINE u == Without(t, k, id)
<1>2. u = SubSeq(t, 1, p - 1) \o SubSeq(t, p + 1, Len(t))
  BY DEF Without, Has, RemoveAt
<1> HIDE DEF u
<1>3. /\ SubSeq(t, 1, p - 1) \in Seq(Entries) /\ Len(SubSeq(t, 1, p - 1)) = p - 1
      /\ \A i \in 1 .. p - 1 : SubSeq(t, 1, p - 1)[i] = t[i]
  <2>1. 1 \in 1 .. Len(t) + 1 /\ p - 1 \in 0 .. Len(t)
    BY <1>1
  <2> QED
    BY <1>1, <2>1
<1>4. /\ SubSeq(t, p + 1, Len(t)) \in Seq(Entries)
      /\ Len(SubSeq(t, p + 1, Len(t))) = Len(t) - p
      /\ \A i \in 1 .. Len(t) - p : SubSeq(t, p + 1, Len(t))[i] = t[p + i]
  <2>1. p + 1 \in 1 .. Len(t) + 1
    BY <1>1
  <2> QED
    BY <1>1, <2>1
<1>5. /\ u \in Seq(Entries) /\ Len(u) = Len(t) - 1
      /\ \A i \in 1 .. Len(u) : u[i] = IF i < p THEN t[i] ELSE t[i + 1]
  <2>1. u \in Seq(Entries) /\ Len(u) = (p - 1) + (Len(t) - p)
    BY <1>2, <1>3, <1>4
  <2>2. Len(u) = Len(t) - 1
    BY <1>1, <2>1
  <2>3. ASSUME NEW i \in 1 .. Len(u) PROVE u[i] = IF i < p THEN t[i] ELSE t[i + 1]
    <3>1. CASE i < p
      <4>1. i \in 1 .. p - 1
        BY <1>1, <3>1
      <4>2. u[i] = SubSeq(t, 1, p - 1)[i]
        BY <1>2, <1>3, <1>4, <4>1
      <4> QED
        BY <1>3, <3>1, <4>1, <4>2
    <3>2. CASE ~(i < p)
      <4>1. i - (p - 1) \in 1 .. Len(t) - p /\ i \in p .. (p - 1) + (Len(t) - p)
        BY <1>1, <2>2, <3>2
      <4>2. u[i] = SubSeq(t, p + 1, Len(t))[i - (p - 1)]
        <5> DEFINE x == SubSeq(t, 1, p - 1)
                   y == SubSeq(t, p + 1, Len(t))
        <5>1. x \in Seq(Entries) /\ y \in Seq(Entries) /\ u = x \o y
              /\ Len(x) = p - 1 /\ Len(y) = Len(t) - p
          BY <1>2, <1>3, <1>4
        <5> HIDE DEF x, y
        <5>2. i \in 1 .. Len(x) + Len(y) /\ ~(i <= Len(x))
          BY <1>1, <4>1, <5>1
        <5>3. (x \o y)[i] = y[i - Len(x)]
          BY <5>1, <5>2
        <5> QED
          BY <5>1, <5>3 DEF y
      <4>3. SubSeq(t, p + 1, Len(t))[i - (p - 1)] = t[p + (i - (p - 1))]
        BY <1>4, <4>1
      <4>4. p + (i - (p - 1)) = i + 1
        BY <1>1
      <4> QED
        BY <3>2, <4>2, <4>3, <4>4
    <3> QED
      BY <3>1, <3>2
  <2> QED
    BY <2>1, <2>2, <2>3
<1> QED
  BY <1>1, <1>5 DEF Shrunk, u

\* Deleting takes one entry out, and the others keep their values.
LEMMA WithoutFacts ==
  ASSUME NEW t \in Seq(Entries), NEW k, NEW id
  PROVE LET u == Without(t, k, id) IN
        /\ u \in Seq(Entries) /\ Len(u) <= Len(t) /\ Thinned(t, u)
        /\ \A j \in 1 .. Len(u) : \E i \in 1 .. Len(t) : u[j] = t[i] /\ i # Position(t, k, id)
        /\ \A i \in 1 .. Len(t) : i # Position(t, k, id) => \E j \in 1 .. Len(u) : u[j] = t[i]
<1> DEFINE p == Position(t, k, id)
           u == Without(t, k, id)
<1>1. CASE p = 0
  <2>1. u = t
    BY <1>1 DEF Without, Has
  <2> DEFINE g == [i \in 1 .. Len(t) |-> i]
  <2>2. /\ g \in [1 .. Len(t) -> 1 .. Len(t)]
        /\ \A i, j \in 1 .. Len(t) : i < j => g[i] < g[j]
        /\ \A i \in 1 .. Len(t) : t[i].key = t[g[i]].key
    OBVIOUS
  <2> HIDE DEF g
  <2>3. Thinned(t, t)
    BY <2>2 DEF Thinned
  <2>4. \A i \in 1 .. Len(t) : i # p
    BY <1>1
  <2> HIDE DEF u, p
  <2> QED
    BY <2>1, <2>3, <2>4 DEF u, p
<1>2. CASE p # 0
  <2>1. p \in 1 .. Len(t)
    BY <1>2, PositionFacts
  <2> HIDE DEF u, p
  <2>2. /\ u \in Seq(Entries) /\ Len(u) = Len(t) - 1
        /\ \A i \in 1 .. Len(u) : u[i] = IF i < p THEN t[i] ELSE t[i + 1]
    BY <1>2, WithoutShrinks DEF Shrunk, u, p
  <2> DEFINE g == [i \in 1 .. Len(u) |-> IF i < p THEN i ELSE i + 1]
  <2>3. \A i \in 1 .. Len(u) : g[i] \in 1 .. Len(t) /\ g[i] # p /\ u[i] = t[g[i]]
    BY <2>1, <2>2
  <2>4. \A i, j \in 1 .. Len(u) : i < j => g[i] < g[j]
    BY <2>1, <2>2
  <2>5. g \in [1 .. Len(u) -> 1 .. Len(t)]
    BY <2>3
  <2> HIDE DEF g
  <2>6. Thinned(t, u)
    BY <2>3, <2>4, <2>5 DEF Thinned
  <2>7. \A i \in 1 .. Len(t) : i # p => \E j \in 1 .. Len(u) : u[j] = t[i]
    <3> SUFFICES ASSUME NEW i \in 1 .. Len(t), i # p PROVE \E j \in 1 .. Len(u) : u[j] = t[i]
      OBVIOUS
    <3>1. CASE i < p
      <4>1. i \in 1 .. Len(u) /\ u[i] = t[i]
        BY <2>1, <2>2, <3>1
      <4> QED
        BY <4>1
    <3>2. CASE i > p
      <4>1. i - 1 \in 1 .. Len(u) /\ ~(i - 1 < p) /\ i - 1 + 1 = i
        BY <2>1, <2>2, <3>2
      <4>2. u[i - 1] = t[i]
        BY <2>2, <4>1
      <4> QED
        BY <4>1, <4>2
    <3> QED
      BY <2>1, <3>1, <3>2
  <2>8. Len(u) <= Len(t)
    BY <2>1, <2>2
  <2> QED
    BY <2>2, <2>3, <2>6, <2>7, <2>8 DEF u, p
<1> QED
  BY <1>1, <1>2

(***************************************************************************)
(* The process environment.                                                *)
(***************************************************************************)
Environments == {NotEnv} \cup [is : {TRUE}, vars : [Names -> Values]]

LEMMA SyncedFacts ==
  ASSUME NEW env \in Environments, NEW k \in Keys, NEW v \in Values
  PROVE /\ Synced(env, k, v) \in Environments
        /\ env.is => Synced(env, k, v).vars = [env.vars EXCEPT ![k.name] = v]
<1>1. CASE env = NotEnv
  <2>1. ~env.is
    BY <1>1 DEF NotEnv
  <2> QED
    BY <2>1 DEF Synced
<1>2. CASE env \in [is : {TRUE}, vars : [Names -> Values]]
  <2>1. env.is = TRUE /\ env.vars \in [Names -> Values] /\ k.name \in Names /\ Nil \in Values
    BY <1>2 DEF Names, Values
  <2>2. Synced(env, k, v) = [env EXCEPT !.vars[k.name] = v]
    BY <2>1 DEF Synced
  <2> DEFINE w == [env.vars EXCEPT ![k.name] = v]
  <2>3. Synced(env, k, v) = [env EXCEPT !.vars = w]
    BY <2>2
  <2>4. w \in [Names -> Values]
    BY <2>1
  <2> HIDE DEF w
  <2>5. [env EXCEPT !.vars = w] \in [is : {TRUE}, vars : [Names -> Values]]
        /\ [env EXCEPT !.vars = w].vars = w
    BY <1>2, <2>4
  <2> QED
    BY <2>3, <2>5 DEF Environments, w
<1> QED
  BY <1>1, <1>2 DEF Environments

LEMMA SyncedAllTyped ==
  ASSUME NEW env \in Environments, NEW es \in Seq(Entries)
  PROVE SyncedAll(env, es) \in Environments
<1> DEFINE N == Len(es)
           step == [n \in 1 .. N |->
                       [u \in Environments |-> Synced(u, es[n].key, es[n].val)]]
           Def(g) == g = [n \in 0 .. N |-> IF n = 0 THEN env
                                           ELSE Synced(g[n - 1], es[n].key, es[n].val)]
           synced == CHOOSE g : Def(g)
<1>1. N \in Nat /\ \A n \in 1 .. N : es[n].key \in Keys /\ es[n].val \in Values
  <2>1. \A n \in 1 .. N : es[n] \in Entries
    OBVIOUS
  <2> QED
    BY <2>1 DEF Entries
<1>2. step \in [1 .. N -> [Environments -> Environments]]
  <2>1. ASSUME NEW n \in 1 .. N, NEW u \in Environments
        PROVE Synced(u, es[n].key, es[n].val) \in Environments
    BY <1>1, SyncedFacts
  <2> QED
    BY <2>1
<1>3. \A n \in 1 .. N : \A u \in Environments : step[n][u] = Synced(u, es[n].key, es[n].val)
  OBVIOUS
<1>4. SyncedAll(env, es) = synced[N]
  BY Zenon DEF SyncedAll
<1> HIDE DEF step, N
<1>5. PICK g \in [0 .. N -> Environments] : Iterates(g, N, env, step)
  BY <1>1, <1>2, Recursion
<1>6. Def(g)
  <2>1. ASSUME NEW n \in 0 .. N
        PROVE g[n] = IF n = 0 THEN env ELSE Synced(g[n - 1], es[n].key, es[n].val)
    <3>1. CASE n = 0
      BY <1>5, <3>1 DEF Iterates
    <3>2. CASE n # 0
      <4>1. n \in 1 .. N /\ n - 1 \in 0 .. N
        BY <1>1, <3>2
      <4>2. g[n] = step[n][g[n - 1]] /\ g[n - 1] \in Environments
        BY <1>5, <4>1 DEF Iterates
      <4> QED
        BY <1>3, <3>2, <4>1, <4>2
    <3> QED
      BY <3>1, <3>2
  <2> QED
    BY <2>1
<1> HIDE DEF Def
<1>7. Def(synced)
  BY <1>6, Zenon
<1> HIDE DEF synced
<1> USE DEF Def
<1>8. synced[0] = env
  BY <1>1, <1>7
<1>9. \A n \in 1 .. N : synced[n] = Synced(synced[n - 1], es[n].key, es[n].val)
  <2> SUFFICES ASSUME NEW n \in 1 .. N
               PROVE synced[n] = Synced(synced[n - 1], es[n].key, es[n].val)
    OBVIOUS
  <2>1. n \in 0 .. N /\ n # 0
    BY <1>1
  <2> QED
    BY <1>7, <2>1
<1> HIDE DEF Def
<1> DEFINE T == {m \in 0 .. N : synced[m] \in Environments}
<1>10. 0 \in T
  BY <1>1, <1>8
<1>11. ASSUME NEW n \in 1 .. N, n - 1 \in T PROVE n \in T
  <2>1. synced[n - 1] \in Environments
    BY <1>11
  <2>2. es[n].key \in Keys /\ es[n].val \in Values
    BY <1>1
  <2>3. Synced(synced[n - 1], es[n].key, es[n].val) \in Environments
    BY <2>1, <2>2, SyncedFacts, Zenon
  <2>4. synced[n] \in Environments
    BY <1>9, <2>3, Zenon
  <2> QED
    BY <1>1, <2>4
<1>12. \A n \in 0 .. N : n \in T
  <2> HIDE DEF T
  <2> QED
    BY <1>1, <1>10, <1>11, UpTo
<1> QED
  BY <1>1, <1>4, <1>12

LEMMA MirrorFacts ==
  ASSUME NEW t \in Seq(Entries), NEW no, ~no, Unique(t, no)
  PROVE /\ Mirror(t) \in [Names -> Values]
        /\ \A n \in Names : \A i \in 1 .. Len(t) : t[i].key.name = n => Mirror(t)[n] = t[i].val
        /\ \A n \in Names : (\A i \in 1 .. Len(t) : t[i].key.name # n) => Mirror(t)[n] = Nil
<1> DEFINE I(n) == {i \in 1 .. Len(t) : t[i].key.name = n}
           at(n) == IF I(n) # {} THEN Min(I(n)) ELSE 0
<1>1. Mirror(t) = [n \in Names |-> IF at(n) = 0 THEN Nil ELSE t[at(n)].val]
  BY Zenon DEF Mirror, SelectInSeq
<1>2. \A n : I(n) \subseteq Nat /\ I(n) \subseteq 1 .. Len(t)
  OBVIOUS
<1>3. ASSUME NEW n, I(n) # {} PROVE at(n) \in I(n)
  <2> HIDE DEF I
  <2> QED
    BY <1>2, <1>3, MinExists
<1>4. ASSUME NEW n, I(n) = {} PROVE at(n) = 0
  BY <1>4
<1>5. \A n : at(n) # 0 => at(n) \in 1 .. Len(t) /\ t[at(n)].key.name = n
  <2> SUFFICES ASSUME NEW n, at(n) # 0 PROVE at(n) \in 1 .. Len(t) /\ t[at(n)].key.name = n
    OBVIOUS
  <2>1. at(n) \in I(n)
    BY <1>3, <1>4
  <2> QED
    BY <2>1
<1>6. \A n : (\E i \in 1 .. Len(t) : t[i].key.name = n) => at(n) # 0
  <2> SUFFICES ASSUME NEW n, \E i \in 1 .. Len(t) : t[i].key.name = n PROVE at(n) # 0
    OBVIOUS
  <2>1. at(n) \in I(n)
    BY <1>3
  <2> QED
    BY <2>1
<1> HIDE DEF at
<1>7. \A i \in 1 .. Len(t) : t[i].val \in Values
  <2>1. \A i \in 1 .. Len(t) : t[i] \in Entries
    OBVIOUS
  <2> QED
    BY <2>1 DEF Entries
<1>8. Mirror(t) \in [Names -> Values]
  <2>1. Nil \in Values
    BY DEF Values
  <2> QED
    BY <1>1, <1>5, <1>7, <2>1
<1>9. \A n \in Names : \A i \in 1 .. Len(t) : t[i].key.name = n => Mirror(t)[n] = t[i].val
  <2> SUFFICES ASSUME NEW n \in Names, NEW i \in 1 .. Len(t), t[i].key.name = n
               PROVE Mirror(t)[n] = t[i].val
    OBVIOUS
  <2>1. at(n) # 0 /\ at(n) \in 1 .. Len(t) /\ t[at(n)].key.name = n
    BY <1>5, <1>6
  <2>2. at(n) = i
    <3>1. Same(t[at(n)].key, t[i].key, no)
      BY <2>1 DEF Same
    <3>2. at(n) \in DOMAIN t /\ i \in DOMAIN t
      BY <2>1
    <3> QED
      BY <3>1, <3>2, Zenon DEF Unique
  <2> QED
    BY <1>1, <2>1, <2>2
<1>10. \A n \in Names : (\A i \in 1 .. Len(t) : t[i].key.name # n) => Mirror(t)[n] = Nil
  BY <1>1, <1>5
<1> QED
  BY <1>8, <1>9, <1>10

\* An entry that is stored is seen under its name alone.
LEMMA MirrorPut ==
  ASSUME NEW t \in Seq(Entries), NEW no, ~no, Unique(t, no), NEW k \in Keys, NEW v \in Values
  PROVE Mirror(Put(t, k, v, no)) = [Mirror(t) EXCEPT ![k.name] = v]
<1> DEFINE p == Position(t, k, no)
           u == Put(t, k, v, no)
<1>1. u \in Seq(Entries) /\ Unique(u, no)
  BY PutFacts DEF Grown
<1>2. k.name \in Names
  BY DEF Names
<1>p. ASSUME p # 0
      PROVE /\ p \in 1 .. Len(t) /\ t[p].key.name = k.name /\ Len(u) = Len(t)
            /\ \A i \in 1 .. Len(t) : u[i].key = t[i].key /\ u[i].val = IF i = p THEN v ELSE t[i].val
  <2>1. t[p].key.name = k.name
    BY <1>p, PositionFacts DEF Same
  <2>2. Revalued(t, u, p, v)
    BY <1>p, PutFound
  <2> QED
    BY <2>1, <2>2 DEF Revalued
<1>a. ASSUME p = 0
      PROVE /\ Len(u) = Len(t) + 1 /\ Len(t) \in Nat
            /\ \A i \in 1 .. Len(t) : u[i] = t[i]
            /\ u[Len(t) + 1].key = k /\ u[Len(t) + 1].val = v
  <2>1. Added(t, u, k, v)
    BY <1>a, PutNew
  <2> QED
    BY <2>1 DEF Added
<1> HIDE DEF u, p
<1>3. \E i \in 1 .. Len(u) : u[i].key.name = k.name /\ u[i].val = v
  <2>1. CASE p # 0
    BY <1>p, <2>1
  <2>2. CASE p = 0
    <3>1. Len(t) + 1 \in 1 .. Len(u)
      BY <1>a, <2>2
    <3> QED
      BY <1>a, <2>2, <3>1
  <2> QED
    BY <2>1, <2>2
<1>4. \A n \in Names \ {k.name} : \A i \in 1 .. Len(t) : t[i].key.name = n =>
         i \in 1 .. Len(u) /\ u[i].key = t[i].key /\ u[i].val = t[i].val
  <2>1. CASE p # 0
    BY <1>p, <2>1
  <2>2. CASE p = 0
    BY <1>a, <2>2
  <2> QED
    BY <2>1, <2>2
<1>5. \A i \in 1 .. Len(u) : u[i].key.name # k.name =>
         \E j \in 1 .. Len(t) : t[j].key.name = u[i].key.name
  <2> SUFFICES ASSUME NEW i \in 1 .. Len(u), u[i].key.name # k.name
               PROVE i \in 1 .. Len(t) /\ t[i].key.name = u[i].key.name
    OBVIOUS
  <2>1. CASE p # 0
    BY <1>p, <2>1
  <2>2. CASE p = 0
    <3>1. i # Len(t) + 1
      BY <1>a, <2>2
    <3>2. i \in 1 .. Len(t)
      BY <1>a, <2>2, <3>1
    <3> QED
      BY <1>a, <2>2, <3>2
  <2> QED
    BY <2>1, <2>2
<1>6. ASSUME NEW n \in Names PROVE Mirror(u)[n] = IF n = k.name THEN v ELSE Mirror(t)[n]
  <2>1. CASE n = k.name
    BY <1>1, <1>3, <2>1, MirrorFacts
  <2>2. CASE n # k.name /\ \E i \in 1 .. Len(t) : t[i].key.name = n
    <3>1. PICK i \in 1 .. Len(t) : t[i].key.name = n
      BY <2>2
    <3>2. i \in 1 .. Len(u) /\ u[i].key = t[i].key /\ u[i].val = t[i].val
      BY <1>4, <2>2, <3>1
    <3>3. Mirror(u)[n] = u[i].val
      BY <1>1, <3>1, <3>2, MirrorFacts
    <3>4. Mirror(t)[n] = t[i].val
      BY <3>1, MirrorFacts
    <3> QED
      BY <2>2, <3>2, <3>3, <3>4
  <2>3. CASE n # k.name /\ ~\E i \in 1 .. Len(t) : t[i].key.name = n
    <3>1. \A i \in 1 .. Len(u) : u[i].key.name # n
      BY <1>5, <2>3
    <3>2. Mirror(u)[n] = Nil
      BY <1>1, <3>1, MirrorFacts
    <3>3. Mirror(t)[n] = Nil
      BY <2>3, MirrorFacts
    <3> QED
      BY <2>3, <3>2, <3>3
  <2> QED
    BY <2>1, <2>2, <2>3
<1>7. Mirror(u) \in [Names -> Values] /\ Mirror(t) \in [Names -> Values]
  BY <1>1, MirrorFacts
<1>8. Mirror(u) = [Mirror(t) EXCEPT ![k.name] = v]
  BY <1>2, <1>6, <1>7
<1> QED
  BY <1>8 DEF u

LEMMA MirrorWithout ==
  ASSUME NEW t \in Seq(Entries), NEW no, ~no, Unique(t, no), NEW k \in Keys
  PROVE Mirror(Without(t, k, no)) = [Mirror(t) EXCEPT ![k.name] = Nil]
<1> DEFINE p == Position(t, k, no)
           u == Without(t, k, no)
<1>1. /\ u \in Seq(Entries) /\ Thinned(t, u)
      /\ \A j \in 1 .. Len(u) : \E i \in 1 .. Len(t) : u[j] = t[i] /\ i # p
      /\ \A i \in 1 .. Len(t) : i # p => \E j \in 1 .. Len(u) : u[j] = t[i]
  BY WithoutFacts
<1>2. \A i \in 1 .. Len(t) : t[i].key.name = k.name => p = i
  BY Found, Zenon DEF Same
<1>3. \A i \in 1 .. Len(t) : i = p => t[i].key.name = k.name
  BY PositionFacts DEF Same
<1> HIDE DEF u, p
<1>4. Unique(u, no)
  BY <1>1, ThinnedOrdered
<1>5. k.name \in Names
  BY DEF Names
<1>6. ASSUME NEW n \in Names PROVE Mirror(u)[n] = IF n = k.name THEN Nil ELSE Mirror(t)[n]
  <2>1. CASE n = k.name
    <3>1. \A j \in 1 .. Len(u) : u[j].key.name # n
      BY <1>1, <1>2, <2>1
    <3>2. Mirror(u)[n] = Nil
      BY <1>1, <1>4, <3>1, MirrorFacts
    <3> QED
      BY <2>1, <3>2
  <2>2. CASE n # k.name /\ \E i \in 1 .. Len(t) : t[i].key.name = n
    <3>1. PICK i \in 1 .. Len(t) : t[i].key.name = n
      BY <2>2
    <3>2. i # p
      BY <1>3, <2>2, <3>1
    <3>3. PICK j \in 1 .. Len(u) : u[j] = t[i]
      BY <1>1, <3>2
    <3>4. Mirror(u)[n] = u[j].val
      BY <1>1, <1>4, <3>1, <3>3, MirrorFacts
    <3>5. Mirror(t)[n] = t[i].val
      BY <3>1, MirrorFacts
    <3> QED
      BY <2>2, <3>3, <3>4, <3>5
  <2>3. CASE n # k.name /\ ~\E i \in 1 .. Len(t) : t[i].key.name = n
    <3>1. \A j \in 1 .. Len(u) : u[j].key.name # n
      BY <1>1, <2>3
    <3>2. Mirror(u)[n] = Nil
      BY <1>1, <1>4, <3>1, MirrorFacts
    <3>3. Mirror(t)[n] = Nil
      BY <2>3, MirrorFacts
    <3> QED
      BY <2>3, <3>2, <3>3
  <2> QED
    BY <2>1, <2>2, <2>3
<1>7. Mirror(u) \in [Names -> Values] /\ Mirror(t) \in [Names -> Values]
  BY <1>1, <1>4, MirrorFacts
<1>8. Mirror(u) = [Mirror(t) EXCEPT ![k.name] = Nil]
  BY <1>5, <1>6, <1>7
<1> QED
  BY <1>8 DEF u

(***************************************************************************)
(* The invariant.  TypeOK speaks of where an iterator stands; that it goes *)
(* on within the slots needs what it has seen and, for transform_keys!,    *)
(* how many it counted at its start.                                       *)
(***************************************************************************)
Memory(m) == m \in [buf : Seq(Entries), len : Nat] /\ Len(m.buf) <= MaxLen /\ m.len <= Len(m.buf)

Flags == [frozen : BOOLEAN, identity : BOOLEAN]
Defaults == [value : Values, proc : BOOLEAN]

Seen == [key : Keys, val : Values, ret : Values \cup Keys]
Iterating == [op : Visits \cup InPlace, i : Nat, n : Nat, seen : Seq(Seen), changes : Nat,
              whole : Seq(Entries)]
Merging == [op : {"merge!"}, rest : Seq(Entries), changes : Nat]

\* transform_keys! has collected keys, for slots that are there.
Rekeys(l, m) ==
  /\ l.n <= Len(m.buf) /\ (l.changes = 0 => l.n <= m.len)
  /\ \A j \in 1 .. Len(l.seen) : l.seen[j].ret \in Keys

Stands(l, m) ==
  /\ l \in Iterating
  /\ l.i < Len(m.buf) /\ (l.changes = 0 => l.i < m.len)
  /\ l.op = "transform_keys!" => Rekeys(l, m) /\ l.i < l.n

Iterator(l, m) == l = NoLoop \/ (l \in Merging /\ l.rest # <<>>) \/ Stands(l, m)

HashInv ==
  /\ Memory(mem) /\ mode \in Flags /\ default \in Defaults /\ environ \in Environments
  /\ Iterator(loop, mem)

\* What a step does to the entries, and what it does to the environment of the process.
EntriesRight ==
  /\ mode.frozen => Live' = Live \/ (Stepped /\ loop.op \in InPlace \cup {"merge!"})
  /\ \/ Live' = Live /\ (Id' = Id \/ Id' = TRUE)
     \/ Id' = Id /\ (Grown(Live, Live', Id) \/ Thinned(Live, Live'))
     \/ last'.op = "replace" /\ Unique(Live', Id')
     \/ Stepped /\ loop.op = "transform_keys!"

Mirrored(t, env) ==
  \/ \E k \in Keys, v \in Values : env = Synced(environ, k, v) /\ t = Put(Live, k, v, Id)
  \/ \E k \in Keys : env = Synced(environ, k, Nil) /\ t = Without(Live, k, Id)

EnvironRight ==
  \/ Live' = Live /\ environ' = environ
  \/ last'.op \in Unmirrored
  \/ Mirrored(Live', environ')

StepRight == HashInv' /\ EntriesRight /\ EnvironRight

LEMMA HashInvTypes ==
  ASSUME HashInv
  PROVE TypeOK
<1>1. mem.buf \in Seq(Entries) /\ Len(mem.buf) <= MaxLen /\ mem.len \in 0 .. Len(mem.buf)
  BY DEF HashInv, Memory
<1>2. mem.buf \in BoundedSeq(Entries, MaxLen)
  <2>1. MaxLen \in Nat
    BY HashesAssumption
  <2> QED
    BY <1>1, <2>1, Bounded
<1>3. environ = NotEnv \/ environ.vars \in [Names -> Values]
  BY DEF HashInv, Environments
<1>4. ASSUME loop # NoLoop, loop.op # "merge!"
      PROVE loop.i \in 0 .. Len(mem.buf) - 1 /\ (loop.changes = 0 => loop.i < mem.len)
  <2>1. ~(loop \in Merging)
    BY <1>4 DEF Merging
  <2>2. Stands(loop, mem)
    BY <1>4, <2>1 DEF HashInv, Iterator
  <2>3. loop.i \in Nat /\ loop.i < Len(mem.buf) /\ (loop.changes = 0 => loop.i < mem.len)
    BY <2>2 DEF Stands, Iterating
  <2> QED
    BY <1>1, <2>3
<1>5. mode \in [frozen : BOOLEAN, identity : BOOLEAN] /\ default \in [value : Values, proc : BOOLEAN]
  BY DEF HashInv, Flags, Defaults
<1> QED
  BY <1>1, <1>2, <1>3, <1>4, <1>5 DEF TypeOK

LEMMA MemoryFacts ==
  ASSUME NEW m, Memory(m), NEW t, t = SubSeq(m.buf, 1, m.len)
  PROVE /\ t \in Seq(Entries) /\ Len(t) = m.len /\ \A i \in 1 .. m.len : t[i] = m.buf[i]
        /\ m.buf \in Seq(Entries) /\ Len(m.buf) <= MaxLen /\ m.len \in 0 .. Len(m.buf)
        /\ m = [buf |-> m.buf, len |-> m.len]
<1>1. m.buf \in Seq(Entries) /\ m.len \in Nat /\ Len(m.buf) <= MaxLen /\ m.len <= Len(m.buf)
      /\ m = [buf |-> m.buf, len |-> m.len]
  BY DEF Memory
<1> QED
  BY <1>1

LEMMA LiveFacts ==
  ASSUME HashInv
  PROVE /\ Live \in Seq(Entries) /\ Len(Live) = mem.len /\ \A i \in 1 .. mem.len : Live[i] = mem.buf[i]
        /\ mem.buf \in Seq(Entries) /\ Len(mem.buf) <= MaxLen /\ mem.len \in 0 .. Len(mem.buf)
        /\ MaxLen \in Nat
<1>1. Memory(mem) /\ MaxLen \in Nat
  BY HashesAssumption DEF HashInv
<1> QED
  BY <1>1, MemoryFacts DEF Live

LEMMA RewriteFacts ==
  ASSUME HashInv, NEW t \in Seq(Entries), Len(t) <= MaxLen
  PROVE /\ Memory(Rewrite(t)) /\ Rewrite(t).len = Len(t)
        /\ SubSeq(Rewrite(t).buf, 1, Rewrite(t).len) = t
        /\ Len(mem.buf) <= Len(Rewrite(t).buf)
<1>1. PICK b : b = mem.buf
  OBVIOUS
<1>2. b \in Seq(Entries) /\ Len(b) <= MaxLen /\ MaxLen \in Nat /\ Len(b) \in Nat /\ Len(t) \in Nat
  BY <1>1, LiveFacts
<1> DEFINE r == SubSeq(b, Len(t) + 1, Len(b))
           c == t \o r
<1>3. r \in Seq(Entries) /\ Len(r) = IF Len(t) <= Len(b) THEN Len(b) - Len(t) ELSE 0
  BY <1>2, SubSeqProperties
<1> HIDE DEF r
<1>4. c \in Seq(Entries) /\ Len(c) = Len(t) + Len(r) /\ \A i \in 1 .. Len(t) : c[i] = t[i]
  BY <1>3
<1> HIDE DEF c
<1>5. Len(t) <= Len(c) /\ Len(b) <= Len(c) /\ Len(c) <= MaxLen
  BY <1>2, <1>3, <1>4
<1>6. Rewrite(t) = [buf |-> c, len |-> Len(t)]
  BY <1>1 DEF Rewrite, c, r
<1>7. SubSeq(c, 1, Len(t)) = t
  <2>1. SubSeq(c, 1, Len(t)) \in Seq(Entries) /\ Len(SubSeq(c, 1, Len(t))) = Len(t)
        /\ \A i \in 1 .. Len(t) : SubSeq(c, 1, Len(t))[i] = c[i]
    BY <1>2, <1>4, <1>5
  <2> DEFINE s == SubSeq(c, 1, Len(t))
  <2>2. s \in Seq(Entries) /\ Len(s) = Len(t) /\ \A i \in 1 .. Len(t) : s[i] = t[i]
    BY <1>4, <2>1
  <2> HIDE DEF s
  <2>3. s = t
    BY <2>2
  <2> QED
    BY <2>3 DEF s
<1>8. Memory(Rewrite(t))
  BY <1>2, <1>4, <1>5, <1>6 DEF Memory
<1> QED
  BY <1>1, <1>5, <1>6, <1>7, <1>8

LEMMA LoopKinds ==
  /\ \A l \in Iterating : l # NoLoop /\ l.op # "merge!" /\ l.op \in Visits \cup InPlace
  /\ \A l \in Merging : l # NoLoop /\ l.op = "merge!"
<1>1. NoLoop.op = "none"
  BY DEF NoLoop
<1>2. "none" \notin Visits \cup InPlace /\ "merge!" \notin Visits \cup InPlace
  BY DEF Visits, InPlace, Filters
<1>3. \A l \in Iterating : l.op \in Visits \cup InPlace
  BY DEF Iterating
<1>4. \A l \in Merging : l.op = "merge!"
  BY DEF Merging
<1> QED
  BY <1>1, <1>2, <1>3, <1>4

\* A block that changes the hash leaves its iterator where it stands.
LEMMA DisturbedFacts ==
  ASSUME HashInv, NEW m, Memory(m), Len(mem.buf) <= Len(m.buf)
  PROVE Iterator(Disturbed, m)
<1>1. PICK l : l = loop
  OBVIOUS
<1>2. PICK b : b = mem.buf
  OBVIOUS
<1>3. Len(b) \in Nat /\ Len(m.buf) \in Nat /\ Len(b) <= Len(m.buf)
  BY <1>2, LiveFacts DEF Memory
<1>4. CASE l = NoLoop
  BY <1>1, <1>4 DEF Disturbed, Iterator
<1> DEFINE d == [l EXCEPT !.changes = @ + 1]
<1>5. CASE l \in Merging /\ l.rest # <<>>
  <2>1. l # NoLoop
    BY <1>5, LoopKinds
  <2>2. d \in Merging /\ d.rest = l.rest
    BY <1>5 DEF Merging
  <2>3. Disturbed = d
    BY <1>1, <2>1 DEF Disturbed
  <2> HIDE DEF d
  <2> QED
    BY <1>5, <2>2, <2>3 DEF Iterator
<1>6. CASE Stands(l, mem)
  <2>1. /\ l \in Iterating /\ l.i < Len(b)
        /\ l.op = "transform_keys!" => Rekeys(l, mem) /\ l.i < l.n
    BY <1>2, <1>6 DEF Stands
  <2>2. l # NoLoop
    BY <2>1, LoopKinds
  <2>3. Disturbed = d
    BY <1>1, <2>2 DEF Disturbed
  <2>4. /\ d \in Iterating /\ d.i = l.i /\ d.n = l.n /\ d.seen = l.seen /\ d.op = l.op
        /\ d.changes = l.changes + 1 /\ l.changes \in Nat /\ l.i \in Nat /\ l.n \in Nat
    BY <2>1 DEF Iterating
  <2> HIDE DEF d
  <2>5. d.changes # 0
    BY <2>4
  <2>6. d.i < Len(m.buf)
    BY <1>3, <2>1, <2>4
  <2>7. d.op = "transform_keys!" => Rekeys(d, m)
    <3> SUFFICES ASSUME d.op = "transform_keys!" PROVE Rekeys(d, m)
      OBVIOUS
    <3>1. l.n <= Len(b) /\ \A j \in 1 .. Len(l.seen) : l.seen[j].ret \in Keys
      BY <1>2, <2>1, <2>4 DEF Rekeys
    <3>2. d.n <= Len(m.buf)
      BY <1>3, <2>4, <3>1
    <3>3. \A j \in 1 .. Len(d.seen) : d.seen[j].ret \in Keys
      BY <2>4, <3>1
    <3> QED
      BY <2>5, <3>2, <3>3 DEF Rekeys
  <2>8. Stands(d, m)
    BY <2>1, <2>4, <2>5, <2>6, <2>7 DEF Stands
  <2> QED
    BY <2>3, <2>8 DEF Iterator
<1>7. Iterator(l, mem)
  BY <1>1 DEF HashInv
<1> QED
  BY <1>4, <1>5, <1>6, <1>7 DEF Iterator

(***************************************************************************)
(* The steps.                                                              *)
(***************************************************************************)
\* A step that leaves the entries and the process environment alone.
LEMMA QuietStep ==
  ASSUME HashInv, UNCHANGED <<mem, environ>>, mode' \in Flags, Id' = Id \/ Id' = TRUE,
         default' \in Defaults, Iterator(loop', mem)
  PROVE StepRight
<1>1. Live' = Live
  BY DEF Live
<1>2. HashInv'
  BY DEF HashInv
<1>3. EntriesRight
  BY <1>1, Zenon DEF EntriesRight
<1>4. EnvironRight
  BY <1>1, Zenon DEF EnvironRight
<1> QED
  BY <1>2, <1>3, <1>4 DEF StepRight

LEMMA StillStep ==
  ASSUME HashInv, UNCHANGED <<mem, mode, default, environ>>, Iterator(loop', mem)
  PROVE StepRight
<1>1. mode' \in Flags /\ default' \in Defaults /\ Id' = Id
  BY DEF HashInv, Id
<1> QED
  BY <1>1, QuietStep

LEMMA AnswerStep ==
  ASSUME HashInv, UNCHANGED <<mem, mode, default, environ, loop>>
  PROVE StepRight
<1>1. Iterator(loop', mem)
  BY DEF HashInv
<1> QED
  BY <1>1, StillStep

\* The entries become t, the process environment env.
LEMMA ChangeStep ==
  ASSUME HashInv, NEW op, NEW out, NEW m, NEW t, NEW env \in Environments,
         m.len <= MaxLen => Memory(m) /\ Len(mem.buf) <= Len(m.buf) /\ t = SubSeq(m.buf, 1, m.len),
         Grown(Live, t, Id) \/ Thinned(Live, t),
         op \in Unmirrored \/ Mirrored(t, env),
         Change(op, m, env, out)
  PROVE StepRight
<1>1. CASE mode.frozen
  <2>1. UNCHANGED <<mem, mode, default, environ, loop>>
    BY <1>1 DEF Change, Answer
  <2> QED
    BY <2>1, AnswerStep
<1>2. CASE ~mode.frozen
  <2>1. /\ m.len <= MaxLen /\ mem' = m /\ environ' = env /\ loop' = Disturbed
        /\ last' = [op |-> op, out |-> out] /\ mode' = mode /\ default' = default
    BY <1>2 DEF Change
  <2>2. Memory(m) /\ Len(mem.buf) <= Len(m.buf) /\ t = SubSeq(m.buf, 1, m.len)
    BY <2>1
  <2>3. Live' = t /\ Id' = Id /\ last'.op = op
    BY <2>1, <2>2 DEF Live, Id
  <2>4. Iterator(Disturbed, m)
    BY <2>2, DisturbedFacts
  <2>5. HashInv'
    BY <2>1, <2>2, <2>4 DEF HashInv
  <2>6. EntriesRight
    BY <1>2, <2>3, Zenon DEF EntriesRight
  <2>7. EnvironRight
    <3>1. CASE op \in Unmirrored
      BY <2>3, <3>1, Zenon DEF EnvironRight
    <3>2. CASE Mirrored(t, env)
      BY <2>1, <2>3, <3>2, Zenon DEF EnvironRight
    <3> QED
      BY <3>1, <3>2
  <2> QED
    BY <2>5, <2>6, <2>7 DEF StepRight
<1> QED
  BY <1>1, <1>2

\* The same where the entries are written anew.
LEMMA RewriteStep ==
  ASSUME HashInv, NEW op, NEW out, NEW t \in Seq(Entries), NEW env \in Environments,
         Grown(Live, t, Id) \/ Thinned(Live, t),
         op \in Unmirrored \/ Mirrored(t, env),
         Change(op, Rewrite(t), env, out)
  PROVE StepRight
<1>1. PICK m : m = Rewrite(t)
  OBVIOUS
<1>2. m.len = Len(t)
  BY <1>1 DEF Rewrite
<1>3. m.len <= MaxLen => Memory(m) /\ Len(mem.buf) <= Len(m.buf) /\ t = SubSeq(m.buf, 1, m.len)
  BY <1>1, <1>2, RewriteFacts
<1>4. Change(op, m, env, out)
  BY <1>1
<1> QED
  BY <1>3, <1>4, ChangeStep

LEMMA EnvironTyped ==
  ASSUME HashInv
  PROVE environ \in Environments
BY DEF HashInv

LEMMA StoreStep ==
  ASSUME HashInv, NEW k \in Keys, NEW v \in Values, Store(k, v)
  PROVE StepRight
<1>1. PICK t : t = Put(Live, k, v, Id)
  OBVIOUS
<1>2. PICK env : env = Synced(environ, k, v)
  OBVIOUS
<1>3. t \in Seq(Entries) /\ Grown(Live, t, Id)
  BY <1>1, LiveFacts, PutFacts
<1>4. env \in Environments
  BY <1>2, EnvironTyped, SyncedFacts
<1>5. Mirrored(t, env)
  BY <1>1, <1>2, Zenon DEF Mirrored
<1>6. Change("[]=", Rewrite(t), env, Val(v))
  BY <1>1, <1>2 DEF Store
<1> QED
  BY <1>3, <1>4, <1>5, <1>6, RewriteStep

LEMMA DeleteStep ==
  ASSUME HashInv, NEW k \in Keys, Delete(k)
  PROVE StepRight
<1>1. PICK t : t = Without(Live, k, Id)
  OBVIOUS
<1>2. PICK env : env = Synced(environ, k, Nil)
  OBVIOUS
<1>3. t \in Seq(Entries) /\ Thinned(Live, t)
  BY <1>1, LiveFacts, WithoutFacts
<1>4. env \in Environments
  <2>1. Nil \in Values
    BY DEF Values
  <2> QED
    BY <1>2, <2>1, EnvironTyped, SyncedFacts
<1>5. Mirrored(t, env)
  BY <1>1, <1>2, Zenon DEF Mirrored
<1>6. PICK out : out = Val(Get(Live, k, Id, Nil))
  OBVIOUS
<1>7. Change("delete", Rewrite(t), env, out)
  BY <1>1, <1>2, <1>6 DEF Delete
<1> QED
  BY <1>3, <1>4, <1>5, <1>7, RewriteStep

LEMMA ClearStep ==
  ASSUME HashInv, Clear
  PROVE StepRight
<1>1. PICK b : b = mem.buf
  OBVIOUS
<1>2. PICK m : m = [mem EXCEPT !.len = 0]
  OBVIOUS
<1>3. m.buf = b /\ m.len = 0 /\ m \in [buf : Seq(Entries), len : Nat] /\ Len(b) <= MaxLen /\ Len(b) \in Nat
  BY <1>1, <1>2, LiveFacts DEF HashInv, Memory
<1>4. Memory(m) /\ Len(mem.buf) <= Len(m.buf)
  BY <1>1, <1>3 DEF Memory
<1>5. PICK t : t = SubSeq(m.buf, 1, m.len)
  OBVIOUS
<1>6. t \in Seq(Entries) /\ Len(t) = 0
  BY <1>3, <1>4, <1>5, MemoryFacts
<1>7. Thinned(Live, t)
  <2> DEFINE g == [i \in {} |-> 0]
  <2>1. 1 .. Len(t) = {}
    BY <1>6
  <2>2. /\ g \in [1 .. Len(t) -> 1 .. Len(Live)]
        /\ \A i, j \in 1 .. Len(t) : i < j => g[i] < g[j]
        /\ \A i \in 1 .. Len(t) : t[i].key = Live[g[i]].key
    BY <2>1
  <2> HIDE DEF g
  <2> QED
    BY <2>2 DEF Thinned
<1>8. PICK env : env = environ
  OBVIOUS
<1>9. env \in Environments
  BY <1>8, EnvironTyped
<1>10. Change("clear", m, env, Self) /\ "clear" \in Unmirrored
  BY <1>2, <1>8 DEF Clear, Unmirrored
<1> QED
  BY <1>4, <1>5, <1>7, <1>9, <1>10, ChangeStep

LEMMA MergeBangStep ==
  ASSUME HashInv, NEW o \in Others, MergeBang(o)
  PROVE StepRight
<1>1. PICK t : t = PutAll(Live, o, Id)
  OBVIOUS
<1>2. o \in Seq(Entries)
  BY ArgumentsTyped
<1>3. t \in Seq(Entries) /\ Grown(Live, t, Id)
  BY <1>1, <1>2, LiveFacts, PutAllFacts
<1>4. PICK env : env = environ
  OBVIOUS
<1>5. env \in Environments
  BY <1>4, EnvironTyped
<1>6. Change("merge!", Rewrite(t), env, Self) /\ "merge!" \in Unmirrored
  BY <1>1, <1>4 DEF MergeBang, Unmirrored
<1> QED
  BY <1>3, <1>5, <1>6, RewriteStep

LEMMA CompactBangStep ==
  ASSUME HashInv, CompactBang
  PROVE StepRight
<1>1. PICK t : t = Filled(Live)
  OBVIOUS
<1>2. t \in Seq(Entries) /\ Thinned(Live, t)
  BY <1>1, LiveFacts, FilledFacts
<1>3. PICK env : env = environ
  OBVIOUS
<1>4. env \in Environments
  BY <1>3, EnvironTyped
<1>5. PICK out : out = IF Filled(Live) # Live THEN Self ELSE Val(Nil)
  OBVIOUS
<1>6. Change("compact!", Rewrite(t), env, out) /\ "compact!" \in Unmirrored
  BY <1>1, <1>3, <1>5 DEF CompactBang, Unmirrored
<1> QED
  BY <1>2, <1>4, <1>6, RewriteStep

LEMMA ReplaceStep ==
  ASSUME HashInv, NEW o \in Others, NEW id \in BOOLEAN, Replace(o, id)
  PROVE StepRight
<1>1. CASE mode.frozen
  <2>1. UNCHANGED <<mem, mode, default, environ, loop>>
    BY <1>1 DEF Replace, Answer
  <2> QED
    BY <2>1, AnswerStep
<1>2. CASE ~mode.frozen
  <2>1. /\ mem' = Rewrite(o) /\ environ' = SyncedAll(environ, o)
        /\ mode' = [mode EXCEPT !.identity = id] /\ default' = [value |-> Nil, proc |-> FALSE]
        /\ loop' = Disturbed /\ last' = [op |-> "replace", out |-> Self]
    BY <1>2 DEF Replace
  <2>2. o \in Seq(Entries) /\ Len(o) <= MaxLen /\ Unique(o, id)
    <3>1. id = TRUE \/ id = FALSE
      OBVIOUS
    <3> QED
      BY <3>1, ArgumentsTyped, Zenon
  <2>3. PICK m : m = Rewrite(o)
    OBVIOUS
  <2>4. Memory(m) /\ SubSeq(m.buf, 1, m.len) = o /\ Len(mem.buf) <= Len(m.buf)
    BY <2>2, <2>3, RewriteFacts
  <2>5. Iterator(Disturbed, m)
    BY <2>4, DisturbedFacts
  <2>6. environ' \in Environments
    BY <2>1, <2>2, EnvironTyped, SyncedAllTyped
  <2>7. mode' \in Flags /\ Id' = id
    BY <2>1 DEF HashInv, Flags, Id
  <2>8. default' \in Defaults
    BY <2>1 DEF Defaults, Values
  <2>9. HashInv'
    BY <2>1, <2>3, <2>4, <2>5, <2>6, <2>7, <2>8 DEF HashInv
  <2>10. Live' = o
    BY <2>1, <2>3, <2>4 DEF Live
  <2>11. last'.op = "replace" /\ "replace" \in Unmirrored
    BY <2>1 DEF Unmirrored
  <2>12. EntriesRight
    BY <1>2, <2>2, <2>7, <2>10, <2>11, Zenon DEF EntriesRight
  <2>13. EnvironRight
    BY <2>11, Zenon DEF EnvironRight
  <2> QED
    BY <2>9, <2>12, <2>13 DEF StepRight
<1> QED
  BY <1>1, <1>2

LEMMA FlagsStep ==
  ASSUME HashInv, Freeze \/ CompareByIdentity \/ Rehash
  PROVE StepRight
<1>1. CASE Freeze
  <2>1. UNCHANGED <<mem, default, environ, loop>> /\ mode' = [mode EXCEPT !.frozen = TRUE]
    BY <1>1 DEF Freeze
  <2>2. mode' \in Flags /\ Id' = Id
    BY <2>1 DEF HashInv, Flags, Id
  <2>3. default' \in Defaults /\ Iterator(loop', mem)
    BY <2>1 DEF HashInv
  <2> QED
    BY <2>1, <2>2, <2>3, QuietStep
<1>2. CASE CompareByIdentity /\ ~mode.frozen
  <2>1. UNCHANGED <<mem, default, environ>> /\ loop' = Disturbed /\ mode' = [mode EXCEPT !.identity = TRUE]
    BY <1>2 DEF CompareByIdentity
  <2>2. mode' \in Flags /\ Id' = TRUE
    BY <2>1 DEF HashInv, Flags, Id
  <2>3. PICK m : m = mem
    OBVIOUS
  <2>4. Memory(m) /\ Len(m.buf) \in Nat
    BY <2>3, LiveFacts DEF HashInv
  <2>5. Len(mem.buf) <= Len(m.buf)
    BY <2>3, <2>4
  <2>6. Iterator(Disturbed, m)
    BY <2>4, <2>5, DisturbedFacts
  <2>7. default' \in Defaults /\ Iterator(loop', mem)
    BY <2>1, <2>3, <2>6 DEF HashInv
  <2> QED
    BY <2>1, <2>2, <2>7, QuietStep
<1>3. CASE (CompareByIdentity /\ mode.frozen) \/ Rehash
  <2>1. UNCHANGED <<mem, mode, default, environ, loop>>
    BY <1>3 DEF CompareByIdentity, Rehash, Answer
  <2> QED
    BY <2>1, AnswerStep
<1> QED
  BY <1>1, <1>2, <1>3

LEMMA SetDefaultStep ==
  ASSUME HashInv, NEW op, NEW d, d \in Defaults, SetDefault(op, d)
  PROVE StepRight
<1>1. CASE mode.frozen
  <2>1. UNCHANGED <<mem, mode, default, environ, loop>>
    BY <1>1 DEF SetDefault, Answer
  <2> QED
    BY <2>1, AnswerStep
<1>2. CASE ~mode.frozen
  <2>1. default' = d /\ UNCHANGED <<mem, mode, environ, loop>>
    BY <1>2 DEF SetDefault
  <2>2. mode' \in Flags /\ Id' = Id /\ default' \in Defaults /\ Iterator(loop', mem)
    BY <2>1 DEF HashInv, Id
  <2> QED
    BY <2>1, <2>2, QuietStep
<1> QED
  BY <1>1, <1>2

LEMMA DefaultsStep ==
  ASSUME HashInv, (\E v \in Values : DefaultAssign(v)) \/ (\E b \in BOOLEAN : DefaultProcAssign(b))
  PROVE StepRight
<1>1. CASE \E v \in Values : DefaultAssign(v)
  <2>1. PICK v \in Values : DefaultAssign(v)
    BY <1>1
  <2>2. [value |-> v, proc |-> FALSE] \in Defaults
    BY DEF Defaults
  <2> QED
    BY <2>1, <2>2, SetDefaultStep DEF DefaultAssign
<1>2. CASE \E b \in BOOLEAN : DefaultProcAssign(b)
  <2>1. PICK b \in BOOLEAN : DefaultProcAssign(b)
    BY <1>2
  <2>2. PICK d : d = IF b THEN [value |-> Nil, proc |-> TRUE] ELSE [default EXCEPT !.proc = FALSE]
    OBVIOUS
  <2>3. d \in Defaults
    BY <2>2 DEF HashInv, Defaults, Values
  <2>4. SetDefault("default_proc=", d)
    BY <2>1, <2>2 DEF DefaultProcAssign
  <2> QED
    BY <2>3, <2>4, SetDefaultStep
<1> QED
  BY <1>1, <1>2

LEMMA MutateStep ==
  ASSUME HashInv, Mutate
  PROVE StepRight
<1>1. CASE \E k \in Keys : Delete(k) \/ \E v \in Values : Store(k, v)
  BY <1>1, DeleteStep, StoreStep
<1>2. CASE \E o \in Others : MergeBang(o) \/ \E id \in BOOLEAN : Replace(o, id)
  BY <1>2, MergeBangStep, ReplaceStep
<1>3. CASE Clear \/ CompactBang
  BY <1>3, ClearStep, CompactBangStep
<1>4. CASE Freeze \/ CompareByIdentity \/ Rehash
  BY <1>4, FlagsStep
<1>5. CASE (\E v \in Values : DefaultAssign(v)) \/ (\E b \in BOOLEAN : DefaultProcAssign(b))
  BY <1>5, DefaultsStep
<1> QED
  BY <1>1, <1>2, <1>3, <1>4, <1>5 DEF Mutate

LEMMA QueryStep ==
  ASSUME HashInv, Query
  PROVE StepRight
<1>1. UNCHANGED <<mem, mode, default, environ, loop>>
  BY Zenon DEF Query, Answer, Lookup, Fetch, HasKey, DefaultFor, Assoc, HasValue, Key, RAssoc,
               ValuesAt, FetchValues, Slice, Except, Merge, KeysOf, ValuesOf, ToA, Size, Dup,
               Compact, Invert
<1> QED
  BY <1>1, AnswerStep

(***************************************************************************)
(* The iterators.                                                          *)
(***************************************************************************)
\* An iterator, or merge!, changes the entries before the block runs again.
LEMMA MovedStep ==
  ASSUME HashInv, NEW m, NEW t, mem' = m, Memory(m), t = SubSeq(m.buf, 1, m.len),
         UNCHANGED <<mode, default, environ>>, Iterator(loop', m),
         ~mode.frozen \/ (Stepped /\ loop.op \in InPlace \cup {"merge!"}),
         \/ Grown(Live, t, Id) \/ Thinned(Live, t)
         \/ Stepped /\ loop.op = "transform_keys!",
         last'.op \in Unmirrored
  PROVE StepRight
<1>1. Live' = t /\ Id' = Id
  BY DEF Live, Id
<1>2. HashInv'
  BY DEF HashInv
<1>3. EntriesRight
  BY <1>1, Zenon DEF EntriesRight
<1>4. EnvironRight
  BY Zenon DEF EnvironRight
<1> QED
  BY <1>2, <1>3, <1>4 DEF StepRight

LEMMA IteratorMoved ==
  ASSUME NEW l \in Iterating, NEW m, NEW i \in Nat, HasMore(l, m, i),
         Memory(m), l.op = "transform_keys!" => Rekeys(l, m)
  PROVE Stands([l EXCEPT !.i = i], m)
<1> DEFINE d == [l EXCEPT !.i = i]
<1>1. /\ d \in Iterating /\ d.i = i /\ d.n = l.n /\ d.seen = l.seen /\ d.op = l.op
      /\ d.changes = l.changes /\ l.n \in Nat
  BY DEF Iterating
<1> HIDE DEF d
<1>2. m.len \in Nat /\ Len(m.buf) \in Nat /\ m.len <= Len(m.buf)
  BY DEF Memory
<1>3. CASE l.op = "transform_keys!"
  <2>1. i < l.n /\ l.n <= Len(m.buf) /\ (l.changes = 0 => l.n <= m.len)
    BY <1>3 DEF HasMore, Rekeys
  <2>2. i < Len(m.buf) /\ (l.changes = 0 => i < m.len)
    BY <1>1, <1>2, <2>1
  <2>3. Rekeys(d, m)
    BY <1>1, <1>3 DEF Rekeys
  <2>4. Stands(d, m)
    BY <1>1, <2>1, <2>2, <2>3 DEF Stands
  <2> QED
    BY <2>4 DEF d
<1>4. CASE l.op # "transform_keys!"
  <2>1. i < m.len
    BY <1>4 DEF HasMore
  <2>2. i < Len(m.buf)
    BY <1>2, <2>1
  <2>3. Stands(d, m)
    BY <1>1, <1>4, <2>1, <2>2 DEF Stands
  <2> QED
    BY <2>3 DEF d
<1> QED
  BY <1>3, <1>4

\* transform_keys! writes keys into slots that are there.
LEMMA RekeyedFacts ==
  ASSUME HashInv, NEW l \in Iterating, \A j \in 1 .. Len(l.seen) : l.seen[j].ret \in Keys
  PROVE /\ Memory(Rekeyed(l))
        /\ l.seen = <<>> => Rekeyed(l) = mem
<1>1. PICK m : m = mem
  OBVIOUS
<1>2. PICK b : b = m.buf
  OBVIOUS
<1>3. /\ b \in Seq(Entries) /\ Len(b) <= MaxLen /\ m.len \in Nat /\ m.len <= Len(b)
      /\ m \in [buf : Seq(Entries), len : Nat]
  BY <1>1, <1>2 DEF HashInv, Memory
<1> DEFINE c == [i \in DOMAIN b |-> IF i <= Len(l.seen) THEN [b[i] EXCEPT !.key = l.seen[i].ret]
                                   ELSE b[i]]
<1>4. Rekeyed(l) = [m EXCEPT !.buf = c]
  BY <1>1, <1>2 DEF Rekeyed
<1>5. Len(l.seen) \in Nat
  BY DEF Iterating
<1>6. \A i \in 1 .. Len(b) : c[i] \in Entries
  <2> SUFFICES ASSUME NEW i \in 1 .. Len(b) PROVE c[i] \in Entries
    OBVIOUS
  <2>1. b[i] \in Entries /\ i \in DOMAIN b
    BY <1>3
  <2>2. CASE i <= Len(l.seen)
    <3>1. l.seen[i].ret \in Keys
      BY <1>5, <2>2
    <3>2. [b[i] EXCEPT !.key = l.seen[i].ret] \in Entries
      BY <2>1, <3>1, EntryWith
    <3> QED
      BY <2>1, <2>2, <3>2
  <2>3. CASE ~(i <= Len(l.seen))
    BY <2>1, <2>3
  <2> QED
    BY <2>2, <2>3
<1>7. DOMAIN b = 1 .. Len(b) /\ Len(b) \in Nat
  BY <1>3
<1>8. c \in [1 .. Len(b) -> Entries]
  BY <1>6, <1>7
<1>9. l.seen = <<>> => c = b
  <2> SUFFICES ASSUME l.seen = <<>> PROVE c = b
    OBVIOUS
  <2>1. \A i \in 1 .. Len(b) : ~(i <= Len(l.seen))
    OBVIOUS
  <2>2. \A i \in 1 .. Len(b) : c[i] = b[i]
    BY <1>7, <2>1
  <2> QED
    BY <1>3, <1>7, <1>8, <2>2
<1> HIDE DEF c
<1>10. c \in Seq(Entries) /\ Len(c) = Len(b)
  BY <1>7, <1>8
<1>11. Memory([m EXCEPT !.buf = c])
  BY <1>3, <1>10 DEF Memory
<1>12. c = b => [m EXCEPT !.buf = c] = m
  BY <1>2, <1>3
<1> QED
  BY <1>1, <1>4, <1>9, <1>11, <1>12

LEMMA NothingSeen ==
  ASSUME NEW l, l.seen = <<>>
  PROVE \A j \in 1 .. Len(l.seen) : l.seen[j].ret \in Keys
OBVIOUS

\* transform_keys! takes on no more entries than there are.
LEMMA RoomFacts ==
  ASSUME NEW op, NEW n \in Nat
  PROVE /\ Room(op, n) \in Nat /\ Room(op, n) <= n
        /\ op # "transform_keys!" => Room(op, n) = n
        /\ Room(op, n) < n => op = "transform_keys!" /\ Room(op, n) = MaxRekeyed
        /\ op = "transform_keys!" => \A i \in 1 .. n : i <= Room(op, n) <=> i <= MaxRekeyed
<1>1. MaxRekeyed \in Nat
  BY HashesAssumption
<1> QED
  BY <1>1 DEF Room

LEMMA StartLoopStep ==
  ASSUME HashInv, NEW op \in Visits \cup InPlace, StartLoop(op)
  PROVE StepRight
<1>1. loop = NoLoop /\ UNCHANGED <<mode, default, environ>>
  BY DEF StartLoop
<1>2. CASE mode.frozen /\ op \in InPlace
  <2>1. UNCHANGED <<mem, loop>>
    BY <1>2 DEF StartLoop
  <2> QED
    BY <1>1, <2>1, AnswerStep
<1>3. CASE ~(mode.frozen /\ op \in InPlace)
  <2>1. PICK m : m = mem
    OBVIOUS
  <2>2. PICK l : l = [op |-> op, i |-> 0, n |-> Room(op, mem.len), seen |-> <<>>,
                     changes |-> 0, whole |-> Live]
    OBVIOUS
  <2>3. Proceed(l, m, 0)
    BY <1>3, <2>1, <2>2 DEF StartLoop
  <2>4. Memory(m) /\ m.len \in Nat /\ m.len <= Len(m.buf)
    BY <2>1 DEF HashInv, Memory
  <2>5. l \in Iterating /\ l.seen = <<>> /\ l.n <= m.len
    <3>1. Live \in Seq(Entries) /\ mem.len \in Nat
      BY LiveFacts
    <3>2. Room(op, mem.len) \in Nat /\ Room(op, mem.len) <= mem.len
      BY <3>1, RoomFacts
    <3> QED
      BY <2>1, <2>2, <3>1, <3>2 DEF Iterating
  <2>6. \A j \in 1 .. Len(l.seen) : l.seen[j].ret \in Keys
    BY <2>5, NothingSeen
  <2>7. Rekeys(l, m)
    <3>1. l.n \in Nat /\ Len(m.buf) \in Nat
      BY <2>4, <2>5 DEF Iterating, Memory
    <3> QED
      BY <2>4, <2>5, <2>6, <3>1 DEF Rekeys
  <2>8. CASE HasMore(l, m, 0)
    <3>1. mem' = m /\ loop' = [l EXCEPT !.i = 0]
      BY <2>3, <2>8 DEF Proceed
    <3>2. Stands([l EXCEPT !.i = 0], m)
      BY <2>4, <2>5, <2>7, <2>8, IteratorMoved
    <3>3. Iterator(loop', mem)
      BY <2>1, <3>1, <3>2 DEF Iterator
    <3> QED
      BY <1>1, <2>1, <3>1, <3>3, StillStep
  <2>9. CASE ~HasMore(l, m, 0)
    <3>1. mem' = (IF l.op = "transform_keys!" THEN Rekeyed(l) ELSE m) /\ loop' = NoLoop
      BY <2>3, <2>9 DEF Proceed, End
    <3>2. Rekeyed(l) = mem
      BY <2>5, <2>6, RekeyedFacts
    <3>3. mem' = mem
      BY <2>1, <3>1, <3>2
    <3>4. Iterator(loop', mem)
      BY <3>1 DEF Iterator
    <3> QED
      BY <1>1, <3>3, <3>4, StillStep
  <2> QED
    BY <2>8, <2>9
<1> QED
  BY <1>2, <1>3

\* An iterator that has seen one more entry is not where its block left it.
LEMMA SeenMore ==
  ASSUME NEW l, l = loop, l \in Iterating, NEW e, NEW s, s = Append(l.seen, e),
         loop' = NoLoop \/ loop'.seen = s
  PROVE Stepped
<1>1. loop # NoLoop
  BY LoopKinds
<1>2. l.seen \in Seq(Seen)
  BY DEF Iterating
<1>3. s # l.seen
  <2>1. Len(s) = Len(l.seen) + 1 /\ Len(l.seen) \in Nat
    BY <1>2
  <2> QED
    BY <2>1
<1>4. PICK d : d = [l EXCEPT !.changes = @ + 1]
  OBVIOUS
<1>5. d \in Iterating /\ d.seen = l.seen
  <2>1. l.changes \in Nat /\ l.changes + 1 \in Nat
    BY DEF Iterating
  <2>2. PICK c \in Nat : c = l.changes + 1
    BY <2>1
  <2>3. d = [l EXCEPT !.changes = c]
    BY <1>4, <2>2
  <2> QED
    BY <2>3 DEF Iterating
<1>6. Disturbed = d
  BY <1>1, <1>4 DEF Disturbed
<1>7. d # NoLoop
  BY <1>5, LoopKinds
<1>8. loop' # l /\ loop' # d
  BY <1>1, <1>3, <1>5, <1>7
<1> QED
  BY <1>1, <1>6, <1>8 DEF Stepped

LEMMA Kinds ==
  /\ \A op : op \in Filters => op \in InPlace /\ op \in Unmirrored /\ op # "transform_keys!"
  /\ "transform_values!" \in InPlace /\ "transform_values!" \in Unmirrored
  /\ "transform_keys!" \in InPlace /\ "transform_keys!" \in Unmirrored
  /\ "block" \in Unmirrored /\ "merge!" \in Unmirrored
  /\ \A op \in Visits : op \notin Filters /\ op # "transform_keys!" /\ op # "transform_values!"
  /\ \A op \in InPlace : op \in Filters \/ op = "transform_keys!" \/ op = "transform_values!"
BY DEF Filters, InPlace, Unmirrored, Visits

\* The block of an iterator returns: what it was given and returned is seen.
Noted(l, e) == [l EXCEPT !.seen = Append(@, e)]

LEMMA SeenFacts ==
  ASSUME NEW L, NEW m, Memory(m), Stands(L, m), NEW e \in Seen,
         L.op = "transform_keys!" => e.ret \in Keys,
         NEW l, l = Noted(L, e)
  PROVE /\ l \in Iterating /\ l.op = L.op /\ l.i = L.i /\ l.i \in Nat /\ l.i < Len(m.buf)
        /\ l.seen = Append(L.seen, e)
        /\ l.op = "transform_keys!" => Rekeys(l, m)
<1>1. L \in Iterating /\ L.i < Len(m.buf) /\ (L.op = "transform_keys!" => Rekeys(L, m))
  BY DEF Stands
<1>2. L.seen \in Seq(Seen) /\ L.i \in Nat
  BY <1>1 DEF Iterating
<1> DEFINE s == Append(L.seen, e)
<1>3. /\ s \in Seq(Seen) /\ Len(s) = Len(L.seen) + 1 /\ Len(L.seen) \in Nat
      /\ s[Len(L.seen) + 1] = e /\ \A j \in 1 .. Len(L.seen) : s[j] = L.seen[j]
  BY <1>2
<1>4. l = [L EXCEPT !.seen = s]
  BY DEF Noted
<1> HIDE DEF s
<1>5. /\ l \in Iterating /\ l.op = L.op /\ l.i = L.i /\ l.n = L.n /\ l.changes = L.changes
      /\ l.seen = s
  BY <1>1, <1>3, <1>4 DEF Iterating
<1>6. ASSUME l.op = "transform_keys!" PROVE Rekeys(l, m)
  <2>1. /\ L.n <= Len(m.buf) /\ (L.changes = 0 => L.n <= m.len)
        /\ \A j \in 1 .. Len(L.seen) : L.seen[j].ret \in Keys
    BY <1>1, <1>5, <1>6 DEF Rekeys
  <2>2. \A j \in 1 .. Len(s) : s[j].ret \in Keys
    <3> SUFFICES ASSUME NEW j \in 1 .. Len(s) PROVE s[j].ret \in Keys
      OBVIOUS
    <3>1. CASE j \in 1 .. Len(L.seen)
      BY <1>3, <2>1, <3>1
    <3>2. CASE j = Len(L.seen) + 1
      BY <1>3, <1>5, <1>6, <3>2
    <3> QED
      BY <1>3, <3>1, <3>2
  <2> QED
    BY <1>5, <2>1, <2>2 DEF Rekeys
<1> QED
  BY <1>1, <1>2, <1>5, <1>6 DEF s

\* What an iterator makes of the slots when its block returns r: the slots m, and t of
\* them live.
LEMMA ProceedStep ==
  ASSUME HashInv, NEW L, L = loop, Stands(L, mem), NEW e \in Seen,
         L.op = "transform_keys!" => e.ret \in Keys,
         NEW l, l = Noted(L, e),
         NEW m, Memory(m), Len(mem.buf) <= Len(m.buf), NEW t, t = SubSeq(m.buf, 1, m.len),
         NEW i \in Nat, Proceed(l, m, i), UNCHANGED <<mode, default, environ>>,
         \/ m = mem
         \/ l.op \in InPlace \ {"transform_keys!"} /\ (Grown(Live, t, Id) \/ Thinned(Live, t))
  PROVE StepRight
<1>1. PICK M : M = mem
  OBVIOUS
<1>2. Memory(M) /\ Stands(L, M)
  BY <1>1 DEF HashInv
<1>3. /\ l \in Iterating /\ l.op = L.op /\ l.seen = Append(L.seen, e)
      /\ l.op = "transform_keys!" => Rekeys(l, M)
  BY <1>2, SeenFacts
<1>4. L \in Iterating /\ l.op \in Visits \cup InPlace
  BY <1>2, <1>3, LoopKinds DEF Stands
<1>5. l.op = "transform_keys!" => m = M
  BY <1>1
<1>6. CASE HasMore(l, m, i)
  <2>1. mem' = m /\ loop' = [l EXCEPT !.i = i] /\ last'.op = "block"
    BY <1>6 DEF Proceed
  <2>2. Stands([l EXCEPT !.i = i], m)
    BY <1>3, <1>5, <1>6, IteratorMoved
  <2>3. Iterator(loop', m)
    BY <2>1, <2>2 DEF Iterator
  <2>4. loop'.seen = l.seen
    BY <1>3, <2>1 DEF Iterating
  <2>5. Stepped
    BY <1>3, <1>4, <2>4, SeenMore
  <2>6. CASE m = mem
    BY <2>1, <2>3, <2>6, StillStep
  <2>7. CASE l.op \in InPlace \ {"transform_keys!"} /\ (Grown(Live, t, Id) \/ Thinned(Live, t))
    <3>1. loop.op \in InPlace \cup {"merge!"} /\ last'.op \in Unmirrored
      BY <1>3, <2>1, <2>7, Kinds
    <3> QED
      BY <2>1, <2>3, <2>5, <2>7, <3>1, MovedStep
  <2> QED
    BY <2>6, <2>7
<1>7. CASE ~HasMore(l, m, i)
  <2>1. /\ mem' = IF l.op = "transform_keys!" THEN Rekeyed(l) ELSE m
        /\ loop' = NoLoop /\ last'.op = l.op
    BY <1>7 DEF Proceed, End
  <2>2. Stepped
    BY <1>3, <1>4, <2>1, SeenMore
  <2>3. CASE l.op = "transform_keys!"
    <3>1. PICK w : w = Rekeyed(l)
      OBVIOUS
    <3>2. Memory(w)
      BY <1>3, <2>3, <3>1, RekeyedFacts DEF Rekeys
    <3>3. PICK u : u = SubSeq(w.buf, 1, w.len)
      OBVIOUS
    <3>4. mem' = w /\ Iterator(loop', w)
      BY <2>1, <2>3, <3>1 DEF Iterator
    <3>5. loop.op \in InPlace \cup {"merge!"} /\ last'.op \in Unmirrored /\ loop.op = "transform_keys!"
      BY <1>3, <2>1, <2>3, Kinds
    <3> QED
      BY <2>2, <3>2, <3>3, <3>4, <3>5, MovedStep
  <2>4. CASE l.op # "transform_keys!" /\ m = mem
    <3>1. mem' = mem /\ Iterator(loop', mem)
      BY <2>1, <2>4 DEF Iterator
    <3> QED
      BY <3>1, StillStep
  <2>5. CASE l.op \in InPlace \ {"transform_keys!"} /\ (Grown(Live, t, Id) \/ Thinned(Live, t))
    <3>1. mem' = m /\ Iterator(loop', m)
      BY <2>1, <2>5 DEF Iterator
    <3>2. loop.op \in InPlace \cup {"merge!"} /\ last'.op \in Unmirrored
      BY <1>3, <2>1, <2>5, Kinds
    <3> QED
      BY <2>2, <2>5, <3>1, <3>2, MovedStep
  <2> QED
    BY <1>4, <2>3, <2>4, <2>5
<1> QED
  BY <1>6, <1>7

\* The iterator L has its entry e from a slot of M, and has noted it.
Noting(r, L, M, slot, e, l) ==
  /\ L = loop /\ M = mem /\ slot = M.buf[L.i + 1]
  /\ e = [key |-> slot.key, val |-> slot.val, ret |-> r] /\ l = Noted(L, e)

\* The iterator goes on with what it has seen, or ends.
Resumed(l, r, slot) ==
  IF Stops(l.op, r) THEN End(l, mem, Outcome(l.op, l.seen, TRUE))
  ELSE Proceed(l,
               IF Dropped(l.op, r) THEN Rewrite(Without(Live, slot.key, Id))
               ELSE IF l.op = "transform_values!" THEN [mem EXCEPT !.buf[l.i + 1].val = r]
               ELSE mem,
               IF Dropped(l.op, r) THEN l.i ELSE l.i + 1)

LEMMA ReturnFacts ==
  ASSUME HashInv, NEW r, r \in Returns(loop.op), BlockReturns(r),
         NEW L, NEW M, NEW slot, NEW e, NEW l, Noting(r, L, M, slot, e, l)
  PROVE /\ loop # NoLoop /\ loop.op \in Visits \cup InPlace /\ UNCHANGED <<mode, default, environ>>
        /\ Stands(L, mem)
        /\ slot \in Entries /\ slot.key \in Keys /\ slot.val \in Values
        /\ r \in Values \cup Keys /\ (L.op = "transform_values!" => r \in Values)
        /\ e \in Seen /\ (L.op = "transform_keys!" => e.ret \in Keys)
        /\ l \in Iterating /\ l.op = L.op /\ l.seen = Append(L.seen, e)
        /\ l.i = L.i /\ l.i \in Nat /\ l.i < Len(M.buf)
        /\ Resumed(l, r, slot)
        /\ Memory(M) /\ M.buf \in Seq(Entries) /\ Len(M.buf) <= MaxLen /\ M.len \in 0 .. Len(M.buf)
        /\ M.len \in Nat /\ Len(M.buf) \in Nat /\ M \in [buf : Seq(Entries), len : Nat]
<1>1. L = loop /\ M = mem /\ slot = mem.buf[loop.i + 1]
      /\ e = [key |-> slot.key, val |-> slot.val, ret |-> r] /\ l = Noted(L, e)
  BY Zenon DEF Noting
<1>2. loop # NoLoop /\ loop.op \in Visits \cup InPlace /\ UNCHANGED <<mode, default, environ>>
  BY <1>1 DEF BlockReturns
<1>3. Stands(L, mem)
  <2>1. "merge!" \notin Visits \cup InPlace
    BY DEF Visits, InPlace, Filters
  <2>2. ~(L \in Merging)
    BY <1>1, <1>2, <2>1, LoopKinds
  <2> QED
    BY <1>1, <1>2, <2>2 DEF HashInv, Iterator
<1>4. slot \in Entries /\ slot.key \in Keys /\ slot.val \in Values
  <2>1. loop.i \in Nat /\ loop.i < Len(mem.buf)
    BY <1>1, <1>3 DEF Stands, Iterating
  <2>2. mem.buf \in Seq(Entries) /\ loop.i + 1 \in 1 .. Len(mem.buf)
    BY <1>1, <2>1, LiveFacts
  <2>3. slot \in Entries
    BY <1>1, <2>2
  <2> QED
    BY <1>1, <2>3 DEF Entries
<1>5. /\ r \in Values \cup Keys
      /\ L.op = "transform_keys!" => r \in Keys
      /\ L.op = "transform_values!" => r \in Values
  BY <1>1 DEF Returns
<1>6. e \in Seen /\ (L.op = "transform_keys!" => e.ret \in Keys)
  BY <1>1, <1>4, <1>5 DEF Seen
<1>7. /\ l \in Iterating /\ l.op = L.op /\ l.seen = Append(L.seen, e)
      /\ l.i = L.i /\ l.i \in Nat /\ l.i < Len(M.buf)
  <2>1. Memory(M) /\ Stands(L, M)
    BY <1>1, <1>3 DEF HashInv
  <2> QED
    BY <1>1, <1>6, <2>1, SeenFacts
<1>8. Resumed(l, r, slot)
  <2> DEFINE slot0 == mem.buf[loop.i + 1]
             e0 == [key |-> slot0.key, val |-> slot0.val, ret |-> r]
             l0 == Noted(loop, e0)
  <2>1. IF Stops(l0.op, r) THEN End(l0, mem, Outcome(l0.op, l0.seen, TRUE))
        ELSE Proceed(l0,
                     IF Dropped(l0.op, r) THEN Rewrite(Without(Live, slot0.key, Id))
                     ELSE IF l0.op = "transform_values!" THEN [mem EXCEPT !.buf[l0.i + 1].val = r]
                     ELSE mem,
                     IF Dropped(l0.op, r) THEN l0.i ELSE l0.i + 1)
    BY Zenon DEF BlockReturns, Noted
  <2>2. slot0 = slot
    BY <1>1
  <2>3. e0 = e
    BY <1>1, <2>2
  <2> HIDE DEF e0
  <2>4. l0 = l
    BY <1>1, <2>3
  <2> HIDE DEF l0, slot0
  <2> QED
    BY <2>1, <2>2, <2>4, Zenon DEF Resumed
<1>9. Memory(M) /\ M.buf \in Seq(Entries) /\ Len(M.buf) <= MaxLen /\ M.len \in 0 .. Len(M.buf)
      /\ M.len \in Nat /\ Len(M.buf) \in Nat /\ M \in [buf : Seq(Entries), len : Nat]
  BY <1>1, LiveFacts DEF HashInv, Memory
<1> QED
  BY <1>1, <1>2, <1>3, <1>4, <1>5, <1>6, <1>7, <1>8, <1>9

LEMMA BlockReturnsStep ==
  ASSUME HashInv, NEW r, r \in Returns(loop.op), BlockReturns(r)
  PROVE StepRight
<1>1. PICK L : L = loop
  OBVIOUS
<1>2. PICK M : M = mem
  OBVIOUS
<1>3. PICK slot : slot = M.buf[L.i + 1]
  OBVIOUS
<1>4. PICK e : e = [key |-> slot.key, val |-> slot.val, ret |-> r]
  OBVIOUS
<1>5. PICK l : l = Noted(L, e)
  OBVIOUS
<1>6. Noting(r, L, M, slot, e, l)
  BY <1>1, <1>3, <1>4, <1>5, <1>2 DEF Noting
<1>7. /\ loop # NoLoop /\ loop.op \in Visits \cup InPlace /\ UNCHANGED <<mode, default, environ>>
      /\ Stands(L, mem)
      /\ r \in Values \cup Keys /\ (L.op = "transform_values!" => r \in Values)
      /\ e \in Seen /\ (L.op = "transform_keys!" => e.ret \in Keys)
      /\ l \in Iterating /\ l.op = L.op /\ l.i = L.i /\ l.i \in Nat /\ l.i < Len(M.buf)
  BY <1>6, ReturnFacts
<1>8. Resumed(l, r, slot)
  BY <1>6, ReturnFacts
<1>9. Memory(M) /\ M.buf \in Seq(Entries) /\ Len(M.buf) <= MaxLen /\ M.len \in 0 .. Len(M.buf)
      /\ M.len \in Nat /\ Len(M.buf) \in Nat /\ M \in [buf : Seq(Entries), len : Nat]
  BY <1>6, ReturnFacts
<1>10. CASE Stops(l.op, r)
  <2>1. mem' = mem /\ loop' = NoLoop
    <3>1. End(l, mem, Outcome(l.op, l.seen, TRUE))
      BY <1>8, <1>10, Zenon DEF Resumed
    <3> QED
      BY <3>1 DEF End
  <2>2. Iterator(loop', mem)
    BY <2>1 DEF Iterator
  <2> QED
    BY <1>7, <2>1, <2>2, StillStep
<1>11. CASE ~Stops(l.op, r) /\ Dropped(l.op, r)
  <2>1. l.op \in InPlace \ {"transform_keys!"}
    BY <1>11, Kinds DEF Dropped, Filters
  <2>2. PICK t : t = Without(Live, slot.key, Id)
    OBVIOUS
  <2>3. t \in Seq(Entries) /\ Thinned(Live, t) /\ Len(t) <= MaxLen
    <3>1. Live \in Seq(Entries) /\ Len(Live) = mem.len /\ mem.len <= Len(mem.buf)
          /\ Len(mem.buf) <= MaxLen /\ Len(mem.buf) \in Nat /\ mem.len \in Nat /\ MaxLen \in Nat
      BY LiveFacts
    <3>2. t \in Seq(Entries) /\ Thinned(Live, t) /\ Len(t) <= Len(Live)
      BY <2>2, <3>1, WithoutFacts
    <3>3. Len(t) \in Nat
      BY <3>2
    <3> QED
      BY <3>1, <3>2, <3>3
  <2>4. PICK m : m = Rewrite(t)
    OBVIOUS
  <2>5. Memory(m) /\ Len(mem.buf) <= Len(m.buf) /\ t = SubSeq(m.buf, 1, m.len)
    BY <2>3, <2>4, RewriteFacts
  <2>6. Proceed(l, m, l.i)
    BY <1>8, <1>11, <2>2, <2>4 DEF Resumed
  <2> QED
    BY <1>1, <1>5, <1>7, <2>1, <2>3, <2>5, <2>6, ProceedStep
<1>12. CASE ~Stops(l.op, r) /\ ~Dropped(l.op, r) /\ l.op = "transform_values!"
  <2>1. PICK b : b = Valued(M.buf, l.i + 1, r)
    OBVIOUS
  <2>2. PICK m : m = [M EXCEPT !.buf = b]
    OBVIOUS
  <2>3. l.i + 1 \in 1 .. Len(M.buf) /\ l.i + 1 \in Nat
    BY <1>7, <1>9
  <2>4. /\ b \in Seq(Entries) /\ Len(b) = Len(M.buf)
        /\ \A i \in 1 .. Len(M.buf) : b[i].key = M.buf[i].key
    <3>1. Revalued(M.buf, b, l.i + 1, r)
      BY <1>7, <1>9, <1>12, <2>1, <2>3, ValueStored
    <3> QED
      BY <3>1 DEF Revalued
  <2>5. m.buf = b /\ m.len = M.len /\ Memory(m) /\ Len(mem.buf) <= Len(m.buf)
    BY <1>2, <1>9, <2>2, <2>4 DEF Memory
  <2>6. PICK t : t = SubSeq(m.buf, 1, m.len)
    OBVIOUS
  <2>7. t \in Seq(Entries) /\ Len(t) = M.len /\ \A i \in 1 .. M.len : t[i] = b[i]
    <3>1. t \in Seq(Entries) /\ Len(t) = m.len /\ \A i \in 1 .. m.len : t[i] = m.buf[i]
      BY <2>5, <2>6, MemoryFacts
    <3> QED
      BY <2>5, <3>1
  <2>8. Grown(Live, t, Id)
    <3>1. Live \in Seq(Entries) /\ Len(Live) = M.len /\ \A i \in 1 .. M.len : Live[i] = M.buf[i]
      BY <1>2, LiveFacts
    <3>2. \A i \in 1 .. M.len : i \in 1 .. Len(M.buf)
      BY <1>9
    <3>3. \A i \in 1 .. Len(Live) : t[i].key = Live[i].key
      BY <2>4, <2>7, <3>1, <3>2
    <3> QED
      BY <2>7, <3>1, <3>3, KeysStay
  <2>9. Proceed(l, m, l.i + 1)
    BY <1>2, <1>8, <1>12, <2>1, <2>2 DEF Valued, Resumed
  <2>10. l.op \in InPlace \ {"transform_keys!"}
    BY <1>12, Kinds
  <2> QED
    BY <1>1, <1>5, <1>7, <2>3, <2>5, <2>6, <2>8, <2>9, <2>10, ProceedStep
<1>13. CASE ~Stops(l.op, r) /\ ~Dropped(l.op, r) /\ l.op # "transform_values!"
  <2>1. Proceed(l, M, l.i + 1)
    BY <1>2, <1>8, <1>13 DEF Resumed
  <2>2. PICK t : t = SubSeq(M.buf, 1, M.len)
    OBVIOUS
  <2>3. l.i + 1 \in Nat /\ Len(mem.buf) <= Len(M.buf)
    BY <1>2, <1>7, <1>9
  <2> QED
    BY <1>1, <1>5, <1>2, <1>7, <1>9, <2>1, <2>2, <2>3, ProceedStep
<1> QED
  BY <1>10, <1>11, <1>12, <1>13

\* merge! stores entries up to the first one whose key is there, and waits there.
LEMMA MergeOnStep ==
  ASSUME HashInv, NEW t \in Seq(Entries), Grown(Live, t, Id), NEW rest \in Seq(Entries),
         NEW changes \in Nat, MergeOn(t, rest, changes), UNCHANGED <<mode, default, environ>>,
         ~mode.frozen \/ (loop \in Merging /\ Len(rest) < Len(loop.rest))
  PROVE StepRight
<1> DEFINE I == {i \in 1 .. Len(rest) : Has(t, rest[i].key, Id)}
           c0 == IF I # {} THEN Min(I) ELSE 0
           first0 == IF c0 = 0 THEN rest ELSE SubSeq(rest, 1, c0 - 1)
           done0 == PutAll(t, first0, Id)
<1>1. /\ Len(done0) <= MaxLen /\ mem' = Rewrite(done0)
      /\ loop' = IF c0 = 0 THEN NoLoop
                 ELSE [op |-> "merge!", rest |-> SubSeq(rest, c0, Len(rest)), changes |-> changes]
      /\ last' = [op |-> IF c0 = 0 THEN "merge!" ELSE "block", out |-> Self]
  BY Zenon DEF MergeOn, SelectInSeq
<1>2. c0 \in 0 .. Len(rest)
  <2>1. I \subseteq Nat /\ I \subseteq 1 .. Len(rest)
    OBVIOUS
  <2>2. I # {} => Min(I) \in I
    <3> HIDE DEF I
    <3> QED
      BY <2>1, MinExists
  <2> QED
    BY <2>1, <2>2
<1> HIDE DEF c0
<1>3. PICK c : c = c0
  OBVIOUS
<1>4. c \in 0 .. Len(rest)
  BY <1>2, <1>3
<1>5. first0 \in Seq(Entries)
  <2>1. CASE c = 0
    BY <1>3, <2>1
  <2>2. CASE c # 0
    <3>1. SubSeq(rest, 1, c - 1) \in Seq(Entries)
      BY <1>4, <2>2
    <3> QED
      BY <1>3, <2>2, <3>1
  <2> QED
    BY <2>1, <2>2
<1>6. PICK first : first = first0
  OBVIOUS
<1> HIDE DEF first0
<1>7. PICK done : done = PutAll(t, first, Id)
  OBVIOUS
<1>8. done = done0 /\ first \in Seq(Entries)
  BY <1>5, <1>6, <1>7
<1> HIDE DEF done0
<1>9. done \in Seq(Entries) /\ Grown(t, done, Id)
  BY <1>7, <1>8, PutAllFacts
<1>10. Grown(Live, done, Id)
  BY <1>9, LiveFacts, GrownTwice
<1>11. PICK m : m = Rewrite(done)
  OBVIOUS
<1>12. mem' = m /\ Memory(m) /\ done = SubSeq(m.buf, 1, m.len)
  BY <1>1, <1>8, <1>9, <1>11, RewriteFacts
<1> DEFINE after == SubSeq(rest, c, Len(rest))
<1>13. c # 0 => after \in Seq(Entries) /\ Len(after) = Len(rest) - c + 1 /\ Len(after) # 0
                /\ Len(after) <= Len(rest)
  BY <1>4
<1>14. loop' = IF c = 0 THEN NoLoop ELSE [op |-> "merge!", rest |-> after, changes |-> changes]
  BY <1>1, <1>3
<1> HIDE DEF after
<1>15. Iterator(loop', m)
  <2>1. CASE c = 0
    BY <1>14, <2>1 DEF Iterator
  <2>2. CASE c # 0
    <3>1. loop' \in Merging /\ loop'.rest = after
      BY <1>13, <1>14, <2>2 DEF Merging
    <3>2. after # <<>>
      BY <1>13, <2>2
    <3> QED
      BY <3>1, <3>2 DEF Iterator
  <2> QED
    BY <2>1, <2>2
<1>16. ~mode.frozen \/ (Stepped /\ loop.op \in InPlace \cup {"merge!"})
  <2> SUFFICES ASSUME loop \in Merging, Len(rest) < Len(loop.rest)
               PROVE Stepped /\ loop.op \in InPlace \cup {"merge!"}
    OBVIOUS
  <2>1. PICK l : l = loop
    OBVIOUS
  <2>2. l \in Merging /\ l # NoLoop /\ l.op = "merge!"
    BY <2>1, LoopKinds
  <2>3. l.rest \in Seq(Entries) /\ l.changes \in Nat
    BY <2>2 DEF Merging
  <2>4. PICK d : d = [l EXCEPT !.changes = @ + 1]
    OBVIOUS
  <2>5. d \in Merging /\ d.rest = l.rest
    <3>1. PICK n \in Nat : n = l.changes + 1
      BY <2>3
    <3>2. d = [l EXCEPT !.changes = n]
      BY <2>4, <3>1
    <3> QED
      BY <2>2, <3>2 DEF Merging
  <2>6. Disturbed = d
    BY <2>1, <2>2, <2>4 DEF Disturbed
  <2>7. loop' # l /\ loop' # d
    <3>1. CASE c = 0
      BY <1>14, <2>2, <2>5, <3>1, LoopKinds
    <3>2. CASE c # 0
      <4>1. loop'.rest = after
        BY <1>14, <3>2
      <4>2. Len(after) < Len(l.rest)
        <5>1. Len(after) \in Nat /\ Len(rest) \in Nat /\ Len(l.rest) \in Nat
          BY <1>13, <2>3, <3>2
        <5>2. Len(rest) < Len(l.rest) /\ Len(after) <= Len(rest)
          BY <1>13, <2>1, <3>2
        <5> QED
          BY <5>1, <5>2
      <4>3. after # l.rest
        <5>1. Len(l.rest) \in Nat
          BY <2>3
        <5> QED
          BY <4>2, <5>1
      <4> QED
        BY <2>5, <4>1, <4>3
    <3> QED
      BY <3>1, <3>2
  <2> QED
    BY <2>1, <2>2, <2>6, <2>7 DEF Stepped
<1>17. last'.op \in Unmirrored
  <2>1. last'.op = "merge!" \/ last'.op = "block"
    BY <1>1
  <2> QED
    BY <2>1, Kinds
<1> QED
  BY <1>10, <1>12, <1>15, <1>16, <1>17, MovedStep

LEMMA StartMergeStep ==
  ASSUME HashInv, NEW o \in Others, StartMerge(o)
  PROVE StepRight
<1>1. loop = NoLoop /\ UNCHANGED <<mode, default, environ>>
  BY DEF StartMerge
<1>2. CASE mode.frozen
  <2>1. UNCHANGED <<mem, loop>>
    BY <1>2 DEF StartMerge
  <2> QED
    BY <1>1, <2>1, AnswerStep
<1>3. CASE ~mode.frozen
  <2>1. PICK t : t = Live
    OBVIOUS
  <2>2. t \in Seq(Entries) /\ Grown(Live, t, Id)
    BY <2>1, LiveFacts, GrownSelf
  <2>3. o \in Seq(Entries)
    BY ArgumentsTyped
  <2>4. MergeOn(t, o, 0)
    BY <1>3, <2>1 DEF StartMerge
  <2> QED
    BY <1>1, <1>3, <2>2, <2>3, <2>4, MergeOnStep
<1> QED
  BY <1>2, <1>3

LEMMA MergeReturnsStep ==
  ASSUME HashInv, NEW r \in Values, MergeReturns(r)
  PROVE StepRight
<1>1. PICK l : l = loop
  OBVIOUS
<1>2. l # NoLoop /\ l.op = "merge!" /\ UNCHANGED <<mode, default, environ>>
      /\ MergeOn(Put(Live, Head(l.rest).key, r, Id), Tail(l.rest), l.changes)
  BY <1>1 DEF MergeReturns
<1>3. l \in Merging /\ l.rest # <<>>
  <2>1. ~Stands(l, mem)
    BY <1>2, LoopKinds DEF Stands
  <2> QED
    BY <1>1, <1>2, <2>1 DEF HashInv, Iterator
<1>4. l.rest \in Seq(Entries) /\ l.changes \in Nat
  BY <1>3 DEF Merging
<1>5. Head(l.rest) \in Entries /\ Tail(l.rest) \in Seq(Entries) /\ Len(Tail(l.rest)) = Len(l.rest) - 1
      /\ Len(l.rest) \in Nat
  BY <1>3, <1>4
<1>6. PICK k \in Keys : k = Head(l.rest).key
  BY <1>5 DEF Entries
<1>7. PICK t : t = Put(Live, k, r, Id)
  OBVIOUS
<1>8. t \in Seq(Entries) /\ Grown(Live, t, Id)
  BY <1>7, LiveFacts, PutFacts
<1>9. PICK rest : rest = Tail(l.rest)
  OBVIOUS
<1>10. rest \in Seq(Entries) /\ Len(rest) < Len(l.rest)
  BY <1>5, <1>9
<1>11. MergeOn(t, rest, l.changes)
  BY <1>2, <1>6, <1>7, <1>9
<1> QED
  BY <1>1, <1>2, <1>3, <1>4, <1>8, <1>10, <1>11, MergeOnStep

LEMMA IterateStep ==
  ASSUME HashInv, Iterate
  PROVE StepRight
<1>1. CASE \E op \in Visits \cup InPlace : StartLoop(op)
  BY <1>1, StartLoopStep
<1>2. CASE \E o \in Others : StartMerge(o)
  BY <1>2, StartMergeStep
<1>3. CASE \E r \in Returns(loop.op) : BlockReturns(r)
  BY <1>3, BlockReturnsStep
<1>4. CASE \E r \in Values : MergeReturns(r)
  BY <1>4, MergeReturnsStep
<1>5. CASE BlockLeaves
  <2>1. loop' = NoLoop /\ UNCHANGED <<mem, mode, default, environ>>
    BY <1>5 DEF BlockLeaves
  <2>2. Iterator(loop', mem)
    BY <2>1 DEF Iterator
  <2> QED
    BY <2>1, <2>2, StillStep
<1> QED
  BY <1>1, <1>2, <1>3, <1>4, <1>5 DEF Iterate

LEMMA NextStep ==
  ASSUME HashInv, [Next]_vars
  PROVE HashInv' /\ (Next => StepRight)
<1>1. ASSUME Next PROVE StepRight
  BY <1>1, MutateStep, QueryStep, IterateStep DEF Next
<1>2. ASSUME UNCHANGED vars PROVE HashInv'
  BY <1>2 DEF vars, HashInv
<1> QED
  BY <1>1, <1>2 DEF StepRight

LEMMA InitHashInv ==
  ASSUME Init
  PROVE HashInv
<1>1. PICK t \in Tables :
        /\ mem = [buf |-> t, len |-> Len(t)]
        /\ environ = NotEnv \/ environ = [is |-> TRUE, vars |-> Mirror(t)]
  BY DEF Init
<1>2. t \in Seq(Entries) /\ Len(t) <= MaxLen /\ Unique(t, FALSE)
  <2>1. t \in BoundedSeq(Entries, MaxLen) /\ Unique(t, FALSE) /\ MaxLen \in Nat
    BY HashesAssumption DEF Tables
  <2> QED
    BY <2>1, Bounded
<1>3. Memory(mem)
  <2>1. Len(t) \in Nat
    BY <1>2
  <2> QED
    BY <1>1, <1>2, <2>1 DEF Memory
<1>4. environ \in Environments
  <2>1. Mirror(t) \in [Names -> Values]
    BY <1>2, MirrorFacts
  <2>2. PICK f \in [Names -> Values] : f = Mirror(t)
    BY <2>1
  <2>3. [is |-> TRUE, vars |-> f] \in [is : {TRUE}, vars : [Names -> Values]]
    OBVIOUS
  <2>4. environ = NotEnv \/ environ = [is |-> TRUE, vars |-> f]
    BY <1>1, <2>2, Zenon
  <2> QED
    BY <2>3, <2>4, Zenon DEF Environments
<1>5. mode \in Flags /\ default \in Defaults
  BY DEF Init, Flags, Defaults, Values
<1>6. Iterator(loop, mem)
  BY DEF Init, Iterator
<1> QED
  BY <1>3, <1>4, <1>5, <1>6 DEF HashInv

LEMMA HashInvCorrect == Spec => []HashInv
<1>1. HashInv /\ [Next]_vars => HashInv'
  BY NextStep
<1> QED
  BY InitHashInv, <1>1, PTL DEF Spec

\* Neither mode of comparison lets a step bring in a second entry for a key, and what
\* stays is in the order it was.
LEMMA EntriesRightSuffices ==
  ASSUME HashInv, HashInv', EntriesRight
  PROVE /\ Unique(Live, Id) =>
               Unique(Live', Id') \/ (Stepped /\ loop.op = "transform_keys!")
        /\ (Unique(Live, Id) /\ last'.op # "replace" /\ ~(Stepped /\ loop.op = "transform_keys!")) =>
               Ordered(Live, Live', Id)
        /\ (mode.frozen /\ Live' # Live) => (Stepped /\ loop.op \in InPlace \cup {"merge!"})
<1>1. (mode.frozen /\ Live' # Live) => (Stepped /\ loop.op \in InPlace \cup {"merge!"})
  BY Zenon DEF EntriesRight
<1>2. PICK t : t = Live
  OBVIOUS
<1>3. PICK u : u = Live'
  OBVIOUS
<1>4. PICK id : id = Id
  OBVIOUS
<1>5. t \in Seq(Entries) /\ u \in Seq(Entries)
  <2>1. Live \in Seq(Entries)
    BY LiveFacts
  <2>2. Live' \in Seq(Entries)
    <3>1. PICK m : m = mem'
      OBVIOUS
    <3>2. Memory(m)
      BY <3>1 DEF HashInv
    <3>3. SubSeq(m.buf, 1, m.len) \in Seq(Entries)
      BY <3>2, MemoryFacts
    <3> QED
      BY <3>1, <3>3 DEF Live
  <2> QED
    BY <1>2, <1>3, <2>1, <2>2
<1>6. ASSUME Unique(t, id), last'.op # "replace", ~(Stepped /\ loop.op = "transform_keys!")
      PROVE Unique(u, Id') /\ Ordered(t, u, id)
  <2>1. CASE u = t /\ (Id' = id \/ Id' = TRUE)
    <3>1. Ordered(t, t, id)
      BY <1>5, <1>6, GrownSelf, GrownOrdered
    <3>2. Unique(t, TRUE)
      <4>1. \A k, l : Same(k, l, TRUE) => k = l
        BY DEF Same
      <4>2. \A k : Same(k, k, id)
        BY SameRelation
      <4>3. \A k, l : Same(k, l, TRUE) => Same(k, l, id)
        BY <4>1, <4>2, Zenon
      <4> QED
        BY <1>6, <4>3, Zenon DEF Unique
    <3> QED
      BY <1>6, <2>1, <3>1, <3>2, Zenon
  <2>2. CASE Id' = id /\ (Grown(t, u, id) \/ Thinned(t, u))
    BY <1>5, <1>6, <2>2, GrownOrdered, ThinnedOrdered
  <2> QED
    BY <1>2, <1>3, <1>4, <1>6, <2>1, <2>2, Zenon DEF EntriesRight
<1>7. ASSUME last'.op = "replace", ~(Stepped /\ loop.op = "transform_keys!"), Unique(t, id)
      PROVE Unique(u, Id')
  <2>1. CASE Unique(Live', Id')
    BY <1>3, <2>1, Zenon
  <2>2. CASE u = t /\ (Id' = id \/ Id' = TRUE)
    <3>2. Unique(t, TRUE)
      <4>1. \A k, l : Same(k, l, TRUE) => k = l
        BY DEF Same
      <4>2. \A k : Same(k, k, id)
        BY SameRelation
      <4>3. \A k, l : Same(k, l, TRUE) => Same(k, l, id)
        BY <4>1, <4>2, Zenon
      <4> QED
        BY <1>7, <4>3, Zenon DEF Unique
    <3> QED
      BY <1>7, <2>2, <3>2, Zenon
  <2>3. CASE Id' = id /\ (Grown(t, u, id) \/ Thinned(t, u))
    BY <1>5, <1>7, <2>3, GrownOrdered, ThinnedOrdered
  <2> QED
    BY <1>2, <1>3, <1>4, <1>7, <2>1, <2>2, <2>3, Zenon DEF EntriesRight
<1>8. Unique(Live, Id) => Unique(Live', Id') \/ (Stepped /\ loop.op = "transform_keys!")
  BY <1>2, <1>3, <1>4, <1>6, <1>7, Zenon
<1>9. (Unique(Live, Id) /\ last'.op # "replace" /\ ~(Stepped /\ loop.op = "transform_keys!")) =>
         Ordered(Live, Live', Id)
  BY <1>2, <1>3, <1>4, <1>6, Zenon
<1> QED
  BY <1>1, <1>8, <1>9

(***************************************************************************)
(* Theorems.                                                               *)
(***************************************************************************)
\* Whatever operations and blocks do, a hash holds one entry for each key, in either
\* mode of comparison, its entries stay in the order in which their keys came, and a
\* frozen hash keeps them until a block that was running returns.
THEOREM OneEntryInOrderCorrect == Spec => OneEntryInOrder
<1>1. HashInv => TypeOK
  BY HashInvTypes
<1>2. HashInv /\ HashInv' /\ [Next]_vars =>
        [ Unique(Live, Id) =>
            Unique(Live', Id') \/ (Stepped /\ loop.op = "transform_keys!") ]_vars
  BY NextStep, EntriesRightSuffices, Zenon DEF StepRight
<1>3. HashInv /\ HashInv' /\ [Next]_vars =>
        [ (Unique(Live, Id) /\ last'.op # "replace" /\ ~(Stepped /\ loop.op = "transform_keys!")) =>
            \A i, j \in DOMAIN Live' :
                LET a == Position(Live, Live'[i].key, Id)  b == Position(Live, Live'[j].key, Id)
                IN  (i < j /\ b # 0) => (a # 0 /\ a < b) ]_vars
  BY NextStep, EntriesRightSuffices, Zenon DEF StepRight, Ordered
<1>4. HashInv /\ HashInv' /\ [Next]_vars =>
        [ (mode.frozen /\ Live' # Live) => (Stepped /\ loop.op \in InPlace \cup {"merge!"}) ]_vars
  BY NextStep, EntriesRightSuffices, Zenon DEF StepRight
<1>5. Spec => []TypeOK
  BY HashInvCorrect, <1>1, PTL
<1>6. Spec => KeysUnique
  BY HashInvCorrect, <1>2, PTL DEF Spec, KeysUnique
<1>7. Spec => OrderKept
  BY HashInvCorrect, <1>3, PTL DEF Spec, OrderKept
<1>8. Spec => FrozenKeeps
  BY HashInvCorrect, <1>4, PTL DEF Spec, FrozenKeeps
<1> QED
  BY <1>5, <1>6, <1>7, <1>8, Zenon DEF OneEntryInOrder

\* While names are compared and each has one entry, a step keeps ENV and the process alike.
LEMMA EnvironRightSuffices ==
  ASSUME HashInv, EnvironRight, environ.is, ~Id, Unique(Live, FALSE),
         environ.vars = Mirror(Live), last'.op \notin Unmirrored
  PROVE environ'.vars = Mirror(Live')
<1>1. PICK t : t = Live
  OBVIOUS
<1>2. PICK env : env = environ
  OBVIOUS
<1>3. PICK no : no = Id
  OBVIOUS
<1>4. no = FALSE
  BY <1>3 DEF HashInv, Flags, Id
<1>5. t \in Seq(Entries) /\ Unique(t, no) /\ ~no /\ env \in Environments /\ env.is
      /\ env.vars = Mirror(t)
  BY <1>1, <1>2, <1>4, LiveFacts, EnvironTyped
<1>6. Nil \in Values
  BY DEF Values
<1>7. CASE Live' = Live /\ environ' = environ
  BY <1>7
<1>8. ASSUME NEW k \in Keys, NEW v \in Values,
             environ' = Synced(environ, k, v), Live' = Put(Live, k, v, Id)
      PROVE environ'.vars = Mirror(Live')
  <2>1. environ' = Synced(env, k, v) /\ Live' = Put(t, k, v, no)
    BY <1>1, <1>2, <1>3, <1>8, Zenon
  <2>2. Synced(env, k, v).vars = [env.vars EXCEPT ![k.name] = v]
    BY <1>5, SyncedFacts
  <2>3. Mirror(Put(t, k, v, no)) = [Mirror(t) EXCEPT ![k.name] = v]
    BY <1>5, MirrorPut
  <2> QED
    BY <1>5, <2>1, <2>2, <2>3, Zenon
<1>9. ASSUME NEW k \in Keys, environ' = Synced(environ, k, Nil), Live' = Without(Live, k, Id)
      PROVE environ'.vars = Mirror(Live')
  <2>1. environ' = Synced(env, k, Nil) /\ Live' = Without(t, k, no)
    BY <1>1, <1>2, <1>3, <1>9, Zenon
  <2>2. Synced(env, k, Nil).vars = [env.vars EXCEPT ![k.name] = Nil]
    BY <1>5, <1>6, SyncedFacts
  <2>3. Mirror(Without(t, k, no)) = [Mirror(t) EXCEPT ![k.name] = Nil]
    BY <1>5, MirrorWithout
  <2> QED
    BY <1>5, <2>1, <2>2, <2>3, Zenon
<1> QED
  BY <1>7, <1>8, <1>9, Zenon DEF EnvironRight, Mirrored

\* Storing to and deleting from ENV keeps the environment of the process equal to it,
\* whatever other hash methods and iterators run in between.
THEOREM EnvFollowsCorrect == Spec => EnvFollows
<1>1. HashInv /\ [Next]_vars =>
        [ (environ.is /\ ~Id /\ Unique(Live, FALSE) /\ environ.vars = Mirror(Live)
             /\ last'.op \notin Unmirrored) =>
            environ'.vars = Mirror(Live') ]_vars
  BY NextStep, EnvironRightSuffices, Zenon DEF StepRight
<1> QED
  BY HashInvCorrect, <1>1, PTL DEF Spec, EnvFollows

(***************************************************************************)
(* What a table holds for a key.                                           *)
(***************************************************************************)
Held(t, k, id) == {t[i].val : i \in {j \in 1 .. Len(t) : Same(t[j].key, k, id)}}

\* A table with one entry for a key holds at most one value for it.
LEMMA HeldFacts ==
  ASSUME NEW t \in Seq(Entries), NEW k, NEW id, Unique(t, id)
  PROVE /\ Held(t, k, id) = IF Has(t, k, id) THEN {Get(t, k, id, Nil)} ELSE {}
        /\ \A i \in 1 .. Len(t) : Same(t[i].key, k, id) => Held(t, k, id) = {t[i].val}
        /\ Has(t, k, id) <=> \E i \in 1 .. Len(t) : Same(t[i].key, k, id)
<1>1. PICK p : p = Position(t, k, id)
  OBVIOUS
<1>2. p \in 0 .. Len(t) /\ Has(t, k, id) = (p # 0)
  BY <1>1, PositionFacts DEF Has
<1>3. p # 0 => Get(t, k, id, Nil) = t[p].val
  BY <1>1, <1>2 DEF Get
<1>4. CASE p = 0
  <2>1. \A i \in 1 .. Len(t) : ~Same(t[i].key, k, id)
    BY <1>1, <1>4, PositionFacts
  <2>2. Held(t, k, id) = {}
    BY <2>1 DEF Held
  <2> QED
    BY <1>2, <1>4, <2>1, <2>2
<1>5. CASE p # 0
  <2>1. p \in 1 .. Len(t) /\ Same(t[p].key, k, id)
    BY <1>1, <1>2, <1>5, PositionFacts
  <2>2. \A i \in 1 .. Len(t) : Same(t[i].key, k, id) => i = p
    BY <1>1, Found
  <2>3. Held(t, k, id) = {t[p].val}
    BY <2>1, <2>2 DEF Held
  <2> QED
    BY <1>2, <1>3, <1>5, <2>1, <2>2, <2>3
<1> QED
  BY <1>4, <1>5

\* Keys that are the same have the same entries.
LEMMA HeldSame ==
  ASSUME NEW t, NEW k, NEW l, NEW id, Same(k, l, id)
  PROVE Held(t, k, id) = Held(t, l, id)
<1>1. \A m : Same(m, k, id) <=> Same(m, l, id)
  BY SameRelation, Zenon
<1> QED
  BY <1>1 DEF Held

\* Storing an entry leaves those of other keys alone.
LEMMA PutHeld ==
  ASSUME NEW t \in Seq(Entries), NEW l \in Keys, NEW v \in Values, NEW id, NEW k, Unique(t, id)
  PROVE /\ Unique(Put(t, l, v, id), id)
        /\ Held(Put(t, l, v, id), k, id) = IF Same(l, k, id) THEN {v} ELSE Held(t, k, id)
<1>1. PICK u : u = Put(t, l, v, id)
  OBVIOUS
<1>2. PICK p : p = Position(t, l, id)
  OBVIOUS
<1>3. u \in Seq(Entries) /\ Unique(u, id)
  BY <1>1, PutFacts DEF Grown
<1>4. CASE p # 0
  <2>1. Revalued(t, u, p, v)
    BY <1>1, <1>2, <1>4, PutFound
  <2>2. p \in 1 .. Len(t) /\ Same(t[p].key, l, id)
    BY <1>2, <1>4, PositionFacts
  <2>3. /\ Len(u) = Len(t) /\ u[p].key = t[p].key /\ u[p].val = v
        /\ \A i \in 1 .. Len(t) : u[i].key = t[i].key /\ (i # p => u[i].val = t[i].val)
    BY <2>1, <2>2 DEF Revalued
  <2>4. CASE Same(l, k, id)
    <3>1. p \in 1 .. Len(u) /\ Same(u[p].key, k, id)
      BY <2>2, <2>3, <2>4, SameRelation, Zenon
    <3>2. Held(u, k, id) = {u[p].val}
      BY <1>3, <3>1, HeldFacts
    <3> QED
      BY <1>1, <1>3, <2>3, <2>4, <3>2
  <2>5. CASE ~Same(l, k, id)
    <3>1. ~Same(t[p].key, k, id)
      BY <2>2, <2>5, SameRelation, Zenon
    <3>2. Held(u, k, id) = Held(t, k, id)
      BY <2>2, <2>3, <3>1 DEF Held
    <3> QED
      BY <1>1, <1>3, <2>5, <3>2
  <2> QED
    BY <2>4, <2>5
<1>5. CASE p = 0
  <2>1. Added(t, u, l, v)
    BY <1>1, <1>2, <1>5, PutNew
  <2>2. /\ Len(u) = Len(t) + 1 /\ Len(t) \in Nat /\ u[Len(t) + 1].key = l /\ u[Len(t) + 1].val = v
        /\ \A i \in 1 .. Len(t) : u[i] = t[i]
    BY <2>1 DEF Added
  <2>3. Len(t) + 1 \in 1 .. Len(u) /\ \A i \in 1 .. Len(t) : i \in 1 .. Len(u)
    BY <2>2
  <2>4. \A i \in 1 .. Len(u) : i \in 1 .. Len(t) \/ i = Len(t) + 1
    BY <2>2
  <2>5. CASE Same(l, k, id)
    <3>1. Held(u, k, id) = {u[Len(t) + 1].val}
      BY <1>3, <2>2, <2>3, <2>5, HeldFacts
    <3> QED
      BY <1>1, <1>3, <2>2, <2>5, <3>1
  <2>6. CASE ~Same(l, k, id)
    <3>1. \A i \in 1 .. Len(u) : Same(u[i].key, k, id) => i \in 1 .. Len(t)
      BY <2>2, <2>4, <2>6
    <3>2. Held(u, k, id) = Held(t, k, id)
      BY <2>2, <2>3, <3>1 DEF Held
    <3> QED
      BY <1>1, <1>3, <2>6, <3>2
  <2> QED
    BY <2>5, <2>6
<1> QED
  BY <1>4, <1>5

\* Of two tables stored one after the other, the second says.
LEMMA PutAllHeld ==
  ASSUME NEW t \in Seq(Entries), NEW es \in Seq(Entries), NEW id, NEW k,
         Unique(t, id), Unique(es, id)
  PROVE /\ Unique(PutAll(t, es, id), id)
        /\ Held(PutAll(t, es, id), k, id) = IF Has(es, k, id) THEN Held(es, k, id) ELSE Held(t, k, id)
<1>1. PICK f : PutSteps(f, t, es, id)
  BY PutAllSteps
<1>2. /\ f \in [0 .. Len(es) -> Seq(Entries)] /\ f[0] = t /\ f[Len(es)] = PutAll(t, es, id)
      /\ \A n \in 1 .. Len(es) : f[n] = Put(f[n - 1], es[n].key, es[n].val, id)
  BY <1>1 DEF PutSteps
<1>3. PICK h : h = Held(es, k, id)
  OBVIOUS
<1> DEFINE Met(n) == \E i \in 1 .. n : Same(es[i].key, k, id)
           T == {n \in 0 .. Len(es) : Unique(f[n], id) /\ Held(f[n], k, id) = IF Met(n) THEN h ELSE Held(t, k, id)}
<1>4. 0 \in T /\ Len(es) \in Nat
  BY <1>2
<1>5. ASSUME NEW n \in 1 .. Len(es), n - 1 \in T PROVE n \in T
  <2>1. es[n].key \in Keys /\ es[n].val \in Values
    <3>1. es[n] \in Entries
      OBVIOUS
    <3> QED
      BY <3>1 DEF Entries
  <2>2. /\ f[n - 1] \in Seq(Entries) /\ n \in 0 .. Len(es) /\ Unique(f[n - 1], id)
        /\ Held(f[n - 1], k, id) = IF Met(n - 1) THEN h ELSE Held(t, k, id)
    BY <1>2, <1>5
  <2>3. /\ Unique(f[n], id)
        /\ Held(f[n], k, id) = IF Same(es[n].key, k, id) THEN {es[n].val} ELSE Held(f[n - 1], k, id)
    BY <1>2, <2>1, <2>2, PutHeld
  <2>4. Same(es[n].key, k, id) => h = {es[n].val}
    BY <1>3, HeldFacts
  <2>5. Met(n) <=> (Met(n - 1) \/ Same(es[n].key, k, id))
    <3>1. \A i \in 1 .. n : i \in 1 .. n - 1 \/ i = n
      OBVIOUS
    <3>2. \A i \in 1 .. n - 1 : i \in 1 .. n
      OBVIOUS
    <3>3. n \in 1 .. n
      OBVIOUS
    <3> QED
      BY <3>1, <3>2, <3>3, Zenon
  <2> HIDE DEF Met
  <2> QED
    BY <2>2, <2>3, <2>4, <2>5
<1> HIDE DEF T
<1>6. \A n \in 0 .. Len(es) : n \in T
  BY <1>4, <1>5, UpTo
<1>7. Len(es) \in T
  BY <1>4, <1>6
<1>8. Met(Len(es)) <=> Has(es, k, id)
  BY HeldFacts
<1> HIDE DEF Met
<1>9. Unique(f[Len(es)], id) /\ Held(f[Len(es)], k, id) = IF Met(Len(es)) THEN h ELSE Held(t, k, id)
  BY <1>7 DEF T
<1> QED
  BY <1>2, <1>3, <1>8, <1>9

\* A table built from entries of different keys is those entries.
LEMMA FromEntriesSame ==
  ASSUME NEW es \in Seq(Entries), NEW id, Unique(es, id)
  PROVE FromEntries(es, id) = es
<1>1. <<>> \in Seq(Entries)
  OBVIOUS
<1>2. PICK f : PutSteps(f, <<>>, es, id)
  BY <1>1, PutAllSteps
<1>3. /\ f \in [0 .. Len(es) -> Seq(Entries)] /\ f[0] = <<>> /\ f[Len(es)] = FromEntries(es, id)
      /\ \A n \in 1 .. Len(es) : f[n] = Put(f[n - 1], es[n].key, es[n].val, id)
  BY <1>2 DEF PutSteps, FromEntries
<1> DEFINE T == {n \in 0 .. Len(es) : Len(f[n]) = n /\ \A i \in 1 .. n : f[n][i] = es[i]}
<1>4. 0 \in T /\ Len(es) \in Nat
  BY <1>3
<1>5. ASSUME NEW n \in 1 .. Len(es), n - 1 \in T PROVE n \in T
  <2>1. es[n].key \in Keys /\ es[n].val \in Values /\ es[n] = [key |-> es[n].key, val |-> es[n].val]
    <3>1. es[n] \in Entries
      OBVIOUS
    <3> QED
      BY <3>1 DEF Entries
  <2>2. PICK u : u = f[n - 1]
    OBVIOUS
  <2>3. u \in Seq(Entries) /\ Len(u) = n - 1 /\ (\A i \in 1 .. n - 1 : u[i] = es[i]) /\ n \in 0 .. Len(es)
    BY <1>3, <1>5, <2>2
  <2>4. Position(u, es[n].key, id) = 0
    <3> SUFFICES ASSUME Position(u, es[n].key, id) # 0 PROVE FALSE
      OBVIOUS
    <3>1. PICK p : p = Position(u, es[n].key, id)
      OBVIOUS
    <3>2. p \in 1 .. n - 1 /\ Same(u[p].key, es[n].key, id)
      BY <2>3, <3>1, PositionFacts
    <3>3. p \in DOMAIN es /\ n \in DOMAIN es /\ Same(es[p].key, es[n].key, id)
      BY <2>3, <3>2
    <3>4. p = n
      BY <3>3, Zenon DEF Unique
    <3> QED
      BY <3>2, <3>4
  <2>5. PICK w : w = f[n]
    OBVIOUS
  <2>6. Added(u, w, es[n].key, es[n].val)
    BY <1>3, <2>1, <2>2, <2>3, <2>4, <2>5, PutNew
  <2>7. w \in Seq(Entries)
    BY <1>3, <2>3, <2>5
  <2>8. Len(w) = n /\ (\A i \in 1 .. n - 1 : w[i] = es[i]) /\ w[n].key = es[n].key /\ w[n].val = es[n].val
    BY <2>3, <2>6 DEF Added
  <2>9. w[n] = es[n]
    <3>1. w[n] \in Entries
      BY <2>7, <2>8
    <3>2. w[n] = [key |-> w[n].key, val |-> w[n].val]
      BY <3>1 DEF Entries
    <3> QED
      BY <2>1, <2>8, <3>2
  <2>10. \A i \in 1 .. n : i \in 1 .. n - 1 \/ i = n
    OBVIOUS
  <2> QED
    BY <2>3, <2>5, <2>8, <2>9, <2>10
<1> HIDE DEF T
<1>6. \A n \in 0 .. Len(es) : n \in T
  BY <1>4, <1>5, UpTo
<1>7. Len(es) \in T
  BY <1>4, <1>6
<1>8. Len(f[Len(es)]) = Len(es) /\ (\A i \in 1 .. Len(es) : f[Len(es)][i] = es[i]) /\ f[Len(es)] \in Seq(Entries)
  BY <1>3, <1>4, <1>7 DEF T
<1> QED
  BY <1>3, <1>8, SeqEqual

\* A set of entries that goes by the classes of keys that are the same.
Classwise(C, id) ==
  \A k, l \in Keys, v \in Values :
     Same(k, l, id) /\ [key |-> l, val |-> v] \in C => [key |-> k, val |-> v] \in C

Within(t, C) == \A i \in 1 .. Len(t) : t[i] \in C

\* Storing leads to no entry and to no key of another kind.
LEMMA PutWithin ==
  ASSUME NEW t \in Seq(Entries), NEW l \in Keys, NEW v \in Values, NEW id, NEW C,
         Classwise(C, id), Within(t, C), [key |-> l, val |-> v] \in C
  PROVE Within(Put(t, l, v, id), C)
<1>1. PICK u : u = Put(t, l, v, id)
  OBVIOUS
<1>2. PICK p : p = Position(t, l, id)
  OBVIOUS
<1>3. u \in Seq(Entries) /\ \A i \in 1 .. Len(u) : u[i].key \in Keys /\ u[i] = [key |-> u[i].key, val |-> u[i].val]
  <2>1. u \in Seq(Entries)
    BY <1>1, PutFacts
  <2>2. \A i \in 1 .. Len(u) : u[i] \in Entries
    BY <2>1
  <2> QED
    BY <2>1, <2>2 DEF Entries
<1>4. CASE p # 0
  <2>1. Revalued(t, u, p, v)
    BY <1>1, <1>2, <1>4, PutFound
  <2>2. p \in 1 .. Len(t) /\ Same(t[p].key, l, id)
    BY <1>2, <1>4, PositionFacts
  <2>3. /\ Len(u) = Len(t) /\ u[p].key = t[p].key /\ u[p].val = v
        /\ \A i \in 1 .. Len(t) : u[i].key = t[i].key /\ (i # p => u[i].val = t[i].val)
    BY <2>1, <2>2 DEF Revalued
  <2>5. \A i \in 1 .. Len(t) : i # p => u[i] = t[i]
    <3> SUFFICES ASSUME NEW i \in 1 .. Len(t), i # p PROVE u[i] = t[i]
      OBVIOUS
    <3>1. u[i] = [key |-> u[i].key, val |-> u[i].val]
      BY <1>3, <2>3
    <3>2. t[i] = [key |-> t[i].key, val |-> t[i].val]
      <4>1. t[i] \in Entries
        OBVIOUS
      <4> QED
        BY <4>1 DEF Entries
    <3> QED
      BY <2>3, <3>1, <3>2
  <2>4. u[p] \in C
    <3>1. u[p].key \in Keys /\ u[p] = [key |-> u[p].key, val |-> v] /\ Same(u[p].key, l, id)
      BY <1>3, <2>2, <2>3
    <3> QED
      BY <3>1 DEF Classwise
  <2> QED
    BY <1>1, <2>3, <2>4, <2>5 DEF Within
<1>5. CASE p = 0
  <2>1. Added(t, u, l, v)
    BY <1>1, <1>2, <1>5, PutNew
  <2>2. /\ Len(u) = Len(t) + 1 /\ Len(t) \in Nat /\ u[Len(t) + 1].key = l /\ u[Len(t) + 1].val = v
        /\ \A i \in 1 .. Len(t) : u[i] = t[i]
    BY <2>1 DEF Added
  <2>3. u[Len(t) + 1] \in C
    <3>1. Len(t) + 1 \in 1 .. Len(u)
      BY <2>2
    <3>2. u[Len(t) + 1] = [key |-> l, val |-> v]
      BY <1>3, <2>2, <3>1
    <3> QED
      BY <3>2
  <2>4. \A i \in 1 .. Len(u) : i \in 1 .. Len(t) \/ i = Len(t) + 1
    BY <2>2
  <2> QED
    BY <1>1, <2>2, <2>3, <2>4 DEF Within
<1> QED
  BY <1>4, <1>5

LEMMA FromEntriesWithin ==
  ASSUME NEW es \in Seq(Entries), NEW id, NEW C, Classwise(C, id), Within(es, C)
  PROVE Within(FromEntries(es, id), C) /\ FromEntries(es, id) \in Seq(Entries) /\ Unique(FromEntries(es, id), id)
<1>1. <<>> \in Seq(Entries) /\ Unique(<<>>, id)
  BY DEF Unique
<1>2. PICK f : PutSteps(f, <<>>, es, id)
  BY <1>1, PutAllSteps
<1>3. /\ f \in [0 .. Len(es) -> Seq(Entries)] /\ f[0] = <<>> /\ f[Len(es)] = FromEntries(es, id)
      /\ \A n \in 1 .. Len(es) : f[n] = Put(f[n - 1], es[n].key, es[n].val, id)
  BY <1>2 DEF PutSteps, FromEntries
<1> DEFINE T == {n \in 0 .. Len(es) : Within(f[n], C)}
<1>4. 0 \in T /\ Len(es) \in Nat
  BY <1>3 DEF Within
<1>5. ASSUME NEW n \in 1 .. Len(es), n - 1 \in T PROVE n \in T
  <2>1. es[n].key \in Keys /\ es[n].val \in Values /\ es[n] = [key |-> es[n].key, val |-> es[n].val]
    <3>1. es[n] \in Entries
      OBVIOUS
    <3> QED
      BY <3>1 DEF Entries
  <2>2. PICK u : u = f[n - 1]
    OBVIOUS
  <2>3. u \in Seq(Entries) /\ Within(u, C) /\ n \in 0 .. Len(es) /\ es[n] \in C
    BY <1>3, <1>5, <2>2 DEF Within
  <2>4. Within(Put(u, es[n].key, es[n].val, id), C)
    BY <2>1, <2>3, PutWithin
  <2> QED
    BY <1>3, <2>2, <2>3, <2>4
<1> HIDE DEF T
<1>6. \A n \in 0 .. Len(es) : n \in T
  BY <1>4, <1>5, UpTo
<1>7. Len(es) \in T
  BY <1>4, <1>6
<1>8. FromEntries(es, id) \in Seq(Entries) /\ Unique(FromEntries(es, id), id)
  BY <1>1, PutAllFacts DEF FromEntries, Grown
<1> QED
  BY <1>3, <1>7, <1>8 DEF T

(***************************************************************************)
(* Tables that methods derive from a hash.                                 *)
(***************************************************************************)
LEMMA HeldAt ==
  ASSUME NEW t \in Seq(Entries), NEW k, NEW id, Unique(t, id), NEW i \in 1 .. Len(t), Same(t[i].key, k, id)
  PROVE Held(t, k, id) = {t[i].val}
BY HeldFacts

LEMMA HasWhere ==
  ASSUME NEW t \in Seq(Entries), NEW k, NEW id, Unique(t, id)
  PROVE Has(t, k, id) <=> \E i \in 1 .. Len(t) : Same(t[i].key, k, id)
BY HeldFacts

LEMMA HeldNone ==
  ASSUME NEW t \in Seq(Entries), NEW k, NEW id, Unique(t, id), ~Has(t, k, id)
  PROVE Held(t, k, id) = {}
BY HeldFacts

LEMMA HeldGet ==
  ASSUME NEW t \in Seq(Entries), NEW k, NEW id, Unique(t, id), Has(t, k, id)
  PROVE Held(t, k, id) = {Get(t, k, id, Nil)}
BY HeldFacts

\* What Derived asks, by the values held.
LEMMA DerivedMerge ==
  ASSUME NEW t \in Seq(Entries), NEW s \in Seq(Entries), NEW id \in BOOLEAN, Unique(s, id), Unique(t, id),
         NEW o \in Others, NEW p \in Others,
         \A k \in Keys : Held(t, k, id) = IF Has(p, k, id) THEN Held(p, k, id)
                         ELSE IF Has(o, k, id) THEN Held(o, k, id) ELSE Held(s, k, id)
  PROVE Derived("merge", t, s, id)
<1> DEFINE V(u, k) == IF Has(u, k, id) THEN {Get(u, k, id, Nil)} ELSE {}
<1>1. o \in Seq(Entries) /\ Unique(o, id) /\ p \in Seq(Entries) /\ Unique(p, id)
  BY ArgumentsTyped
<1>2. \A k : Held(t, k, id) = V(t, k)
  BY HeldFacts
<1>3. \A k : Held(s, k, id) = V(s, k)
  BY HeldFacts
<1>4. \A k : Held(o, k, id) = V(o, k)
  BY <1>1, HeldFacts
<1>5. \A k : Held(p, k, id) = V(p, k)
  BY <1>1, HeldFacts
<1>6. \A k \in Keys : V(t, k) = IF Has(p, k, id) THEN V(p, k) ELSE IF Has(o, k, id) THEN V(o, k) ELSE V(s, k)
  <2> HIDE DEF V
  <2> QED
    BY <1>2, <1>3, <1>4, <1>5
<1> QED
  BY <1>6 DEF Derived

LEMMA DerivedSlice ==
  ASSUME NEW t \in Seq(Entries), NEW s \in Seq(Entries), NEW id \in BOOLEAN, Unique(s, id), Unique(t, id),
         NEW x \in Keys, NEW y \in Keys,
         \A k \in Keys : Held(t, k, id) = IF Same(k, x, id) \/ Same(k, y, id) THEN Held(s, k, id) ELSE {}
  PROVE Derived("slice", t, s, id)
<1> DEFINE V(u, k) == IF Has(u, k, id) THEN {Get(u, k, id, Nil)} ELSE {}
<1>1. \A k : Held(t, k, id) = V(t, k)
  BY HeldFacts
<1>2. \A k : Held(s, k, id) = V(s, k)
  BY HeldFacts
<1>3. \A k \in Keys : V(t, k) = IF Same(k, x, id) \/ Same(k, y, id) THEN V(s, k) ELSE {}
  <2> HIDE DEF V
  <2> QED
    BY <1>1, <1>2
<1> QED
  BY <1>3 DEF Derived

LEMMA DerivedExcept ==
  ASSUME NEW t \in Seq(Entries), NEW s \in Seq(Entries), NEW id \in BOOLEAN, Unique(s, id), Unique(t, id),
         NEW x \in Keys, NEW y \in Keys,
         \A k \in Keys : Held(t, k, id) = IF Same(k, x, id) \/ Same(k, y, id) THEN {} ELSE Held(s, k, id)
  PROVE Derived("except", t, s, id)
<1> DEFINE V(u, k) == IF Has(u, k, id) THEN {Get(u, k, id, Nil)} ELSE {}
<1>1. \A k : Held(t, k, id) = V(t, k)
  BY HeldFacts
<1>2. \A k : Held(s, k, id) = V(s, k)
  BY HeldFacts
<1>3. \A k \in Keys : V(t, k) = IF Same(k, x, id) \/ Same(k, y, id) THEN {} ELSE V(s, k)
  <2> HIDE DEF V
  <2> QED
    BY <1>1, <1>2
<1> QED
  BY <1>3 DEF Derived

LEMMA DerivedCompact ==
  ASSUME NEW t \in Seq(Entries), NEW s \in Seq(Entries), NEW id \in BOOLEAN, Unique(s, id), Unique(t, id),
         \A k \in Keys : Held(t, k, id) = Held(s, k, id) \ {Nil}
  PROVE Derived("compact", t, s, id)
<1> DEFINE V(u, k) == IF Has(u, k, id) THEN {Get(u, k, id, Nil)} ELSE {}
<1>1. \A k : Held(t, k, id) = V(t, k)
  BY HeldFacts
<1>2. \A k : Held(s, k, id) = V(s, k)
  BY HeldFacts
<1>3. \A k \in Keys : V(t, k) = V(s, k) \ {Nil}
  <2> HIDE DEF V
  <2> QED
    BY <1>1, <1>2
<1> QED
  BY <1>3 DEF Derived

\* Two tables stored one after the other into s.
LEMMA MergedTwice ==
  ASSUME NEW s \in Seq(Entries), NEW o \in Seq(Entries), NEW p \in Seq(Entries), NEW id
  PROVE MergeAll(s, <<o, p>>, id) = PutAll(PutAll(s, o, id), p, id)
<1> DEFINE es == <<o, p>>
           a == PutAll(s, o, id)
           b == PutAll(a, p, id)
           Def(f) == f = [n \in 0 .. Len(es) |-> IF n = 0 THEN s ELSE PutAll(f[n - 1], es[n], id)]
           merged == CHOOSE f : Def(f)
           g == [n \in 0 .. 2 |-> IF n = 0 THEN s ELSE IF n = 1 THEN a ELSE b]
<1>1. Len(es) = 2 /\ es[1] = o /\ es[2] = p
  OBVIOUS
<1>2. MergeAll(s, es, id) = merged[Len(es)]
  BY Zenon DEF MergeAll
<1>3. g[0] = s /\ g[1] = a /\ g[2] = b
  OBVIOUS
<1> HIDE DEF es, a, b
<1>4. 0 .. Len(es) = {0, 1, 2}
  BY <1>1
<1>5. \A n \in {0, 1, 2} : g[n] = IF n = 0 THEN s ELSE PutAll(g[n - 1], es[n], id)
  BY <1>1, <1>3 DEF a, b
<1>6. g = [n \in {0, 1, 2} |-> g[n]]
  <2>1. 0 .. 2 = {0, 1, 2}
    OBVIOUS
  <2> QED
    BY <2>1
<1> HIDE DEF g
<1>7. Def(g)
  BY <1>4, <1>5, <1>6
<1> HIDE DEF Def
<1>8. Def(merged)
  BY <1>7, Zenon
<1> HIDE DEF merged
<1>9. \A n \in {0, 1, 2} : merged[n] = IF n = 0 THEN s ELSE PutAll(merged[n - 1], es[n], id)
  BY <1>4, <1>8 DEF Def
<1>10. merged[0] = s
  BY <1>9
<1>11. merged[1] = PutAll(merged[0], es[1], id) /\ merged[2] = PutAll(merged[1], es[2], id)
  BY <1>9
<1>12. merged[2] = b
  BY <1>1, <1>10, <1>11 DEF a, b
<1> QED
  BY <1>1, <1>2, <1>12 DEF es, a, b

LEMMA MergeDerived ==
  ASSUME NEW s \in Seq(Entries), NEW id \in BOOLEAN, Unique(s, id), NEW o \in Others, NEW p \in Others
  PROVE Derived("merge", MergeAll(s, <<o, p>>, id), s, id)
<1>1. /\ o \in Seq(Entries) /\ Unique(o, id) /\ p \in Seq(Entries) /\ Unique(p, id)
  BY ArgumentsTyped
<1>2. PICK a : a = PutAll(s, o, id)
  OBVIOUS
<1>3. PICK t : t = PutAll(a, p, id)
  OBVIOUS
<1>4. a \in Seq(Entries) /\ t \in Seq(Entries)
  BY <1>1, <1>2, <1>3, PutAllFacts
<1>5. /\ Unique(a, id)
      /\ \A k : Held(a, k, id) = IF Has(o, k, id) THEN Held(o, k, id) ELSE Held(s, k, id)
  BY <1>1, <1>2, PutAllHeld
<1>6. /\ Unique(t, id)
      /\ \A k : Held(t, k, id) = IF Has(p, k, id) THEN Held(p, k, id) ELSE Held(a, k, id)
  BY <1>1, <1>3, <1>4, <1>5, PutAllHeld
<1>7. \A k \in Keys : Held(t, k, id) = IF Has(p, k, id) THEN Held(p, k, id)
                                      ELSE IF Has(o, k, id) THEN Held(o, k, id) ELSE Held(s, k, id)
  BY <1>5, <1>6
<1>8. Derived("merge", t, s, id)
  BY <1>4, <1>6, <1>7, DerivedMerge
<1> QED
  BY <1>1, <1>2, <1>3, <1>8, MergedTwice

\* A table of the entries of s at the positions in P holds what s holds for their keys.
PickedOf(t, s, P, id) ==
  /\ t \in Seq(Entries) /\ Unique(t, id)
  /\ \A k : \A j \in 1 .. Len(s) : j \in P /\ Same(s[j].key, k, id) => Held(t, k, id) = Held(s, k, id)
  /\ \A k : (\A j \in 1 .. Len(s) : j \in P => ~Same(s[j].key, k, id)) => Held(t, k, id) = {}

LEMMA PickedUnique ==
  ASSUME NEW s \in Seq(Entries), NEW id, Unique(s, id), NEW P
  PROVE Unique(Picked(s, P), id) /\ FromEntries(Picked(s, P), id) = Picked(s, P)
<1>1. PICK u : u = Picked(s, P)
  OBVIOUS
<1>2. u \in Seq(Entries) /\ Thinned(s, u)
  <2>1. Picked(s, P) \in Seq(Entries) /\ Thinned(s, Picked(s, P))
    BY PickedThinned, Zenon
  <2> QED
    BY <1>1, <2>1
<1>3. Unique(u, id)
  BY <1>2, ThinnedOrdered
<1>4. FromEntries(u, id) = u
  BY <1>2, <1>3, FromEntriesSame
<1> QED
  BY <1>1, <1>3, <1>4

LEMMA PickedTable ==
  ASSUME NEW s \in Seq(Entries), NEW id, Unique(s, id), NEW P
  PROVE PickedOf(FromEntries(Picked(s, P), id), s, P, id)
<1>1. PICK u : u = Picked(s, P)
  OBVIOUS
<1>2. /\ u \in Seq(Entries)
      /\ \A i \in 1 .. Len(u) : \E j \in 1 .. Len(s) : j \in P /\ u[i] = s[j]
      /\ \A j \in 1 .. Len(s) : j \in P => \E i \in 1 .. Len(u) : u[i] = s[j]
  <2>1. u \in Seq(Entries)
    BY <1>1, PickedFacts
  <2>2. PICK g : Picks(s, P, Len(s), u, g)
    BY <1>1, PickedFrom
  <2>3. /\ g \in [1 .. Len(u) -> 1 .. Len(s)]
        /\ \A i \in 1 .. Len(u) : g[i] \in P /\ u[i] = s[g[i]]
        /\ \A k \in 1 .. Len(s) : k \in P => \E i \in 1 .. Len(u) : g[i] = k
    BY <2>2 DEF Picks
  <2>4. ASSUME NEW i \in 1 .. Len(u) PROVE \E j \in 1 .. Len(s) : j \in P /\ u[i] = s[j]
    <3>1. g[i] \in 1 .. Len(s) /\ g[i] \in P /\ u[i] = s[g[i]]
      BY <2>3
    <3> QED
      BY <3>1
  <2>5. ASSUME NEW j \in 1 .. Len(s), j \in P PROVE \E i \in 1 .. Len(u) : u[i] = s[j]
    <3>1. PICK i \in 1 .. Len(u) : g[i] = j
      BY <2>3, <2>5
    <3>2. u[i] = s[j]
      BY <2>3, <3>1
    <3> QED
      BY <3>2
  <2> QED
    BY <2>1, <2>4, <2>5
<1>3. Unique(u, id) /\ FromEntries(u, id) = u
  BY <1>1, PickedUnique
<1>4. ASSUME NEW k, NEW j \in 1 .. Len(s), j \in P, Same(s[j].key, k, id)
      PROVE Held(u, k, id) = Held(s, k, id)
  <2>1. PICK i \in 1 .. Len(u) : u[i] = s[j]
    BY <1>2, <1>4
  <2>2. u \in Seq(Entries) /\ Unique(u, id) /\ Same(u[i].key, k, id)
    BY <1>2, <1>3, <1>4, <2>1
  <2>4. Held(u, k, id) = {u[i].val}
    BY <2>2, HeldAt
  <2>3. Held(s, k, id) = {s[j].val}
    BY <1>4, HeldAt
  <2> QED
    BY <2>1, <2>3, <2>4
<1>5. ASSUME NEW k, \A j \in 1 .. Len(s) : j \in P => ~Same(s[j].key, k, id)
      PROVE Held(u, k, id) = {}
  <2>1. \A i \in 1 .. Len(u) : ~Same(u[i].key, k, id)
    BY <1>2, <1>5
  <2>2. ~Has(u, k, id)
    BY <1>2, <1>3, <2>1, HeldFacts
  <2> QED
    BY <1>2, <1>3, <2>2, HeldFacts
<1>6. PickedOf(u, s, P, id)
  BY <1>2, <1>3, <1>4, <1>5, Zenon DEF PickedOf
<1> QED
  BY <1>1, <1>3, <1>6

LEMMA CompactDerived ==
  ASSUME NEW s \in Seq(Entries), NEW id \in BOOLEAN, Unique(s, id)
  PROVE Derived("compact", FromEntries(Filled(s), id), s, id)
<1>1. PICK P : P = {i \in DOMAIN s : s[i].val # Nil}
  OBVIOUS
<1>2. PICK t : t = FromEntries(Filled(s), id)
  OBVIOUS
<1>3. PickedOf(t, s, P, id)
  BY <1>1, <1>2, PickedTable, Zenon DEF Filled
<1>4. t \in Seq(Entries) /\ Unique(t, id)
  BY <1>3, Zenon DEF PickedOf
<1>5. \A j \in 1 .. Len(s) : j \in P <=> s[j].val # Nil
  <2>1. DOMAIN s = 1 .. Len(s)
    OBVIOUS
  <2> QED
    BY <1>1, <2>1
<1>6. ASSUME NEW k \in Keys PROVE Held(t, k, id) = Held(s, k, id) \ {Nil}
  <2>1. CASE \E j \in 1 .. Len(s) : Same(s[j].key, k, id)
    <3>1. PICK j \in 1 .. Len(s) : Same(s[j].key, k, id)
      BY <2>1
    <3>2. \A i \in 1 .. Len(s) : Same(s[i].key, k, id) => Held(s, k, id) = {s[i].val}
      BY HeldFacts
    <3>3. CASE s[j].val # Nil
      <4>1. Held(t, k, id) = Held(s, k, id)
        BY <1>3, <1>5, <3>1, <3>3, Zenon DEF PickedOf
      <4>2. Held(s, k, id) = {s[j].val}
        BY <3>1, <3>2
      <4> QED
        BY <3>3, <4>1, <4>2
    <3>4. CASE s[j].val = Nil
      <4>1. Held(s, k, id) = {Nil}
        BY <3>1, <3>2, <3>4
      <4>2. \A i \in 1 .. Len(s) : Same(s[i].key, k, id) => s[i].val = Nil
        <5>1. \A a, b : {a} = {b} => a = b
          BY Zenon
        <5> QED
          BY <3>2, <4>1, <5>1, Zenon
      <4>3. Held(t, k, id) = {}
        BY <1>3, <1>5, <4>2, Zenon DEF PickedOf
      <4> QED
        BY <4>1, <4>3
    <3> QED
      BY <3>3, <3>4
  <2>2. CASE \A j \in 1 .. Len(s) : ~Same(s[j].key, k, id)
    <3>1. Held(t, k, id) = {}
      BY <1>3, <2>2, Zenon DEF PickedOf
    <3>2. Held(s, k, id) = {}
      BY <2>2, HeldFacts
    <3> QED
      BY <3>1, <3>2
  <2> QED
    BY <2>1, <2>2
<1>7. Derived("compact", t, s, id)
  BY <1>4, <1>6, DerivedCompact
<1> QED
  BY <1>2, <1>7

LEMMA DupDerived ==
  ASSUME NEW s \in Seq(Entries), NEW id \in BOOLEAN, Unique(s, id)
  PROVE Derived("dup", FromEntries(s, id), s, id)
<1>1. FromEntries(s, id) = s
  BY FromEntriesSame
<1>2. Derived("dup", s, s, id)
  BY DEF Derived
<1> QED
  BY <1>1, <1>2

LEMMA ExceptDerived ==
  ASSUME NEW s \in Seq(Entries), NEW id \in BOOLEAN, Unique(s, id), NEW x \in Keys, NEW y \in Keys, NEW P,
         P = {i \in DOMAIN s : ~\E k \in ToSet(<<x, y>>) : Same(s[i].key, k, id)}
  PROVE Derived("except", FromEntries(Picked(s, P), id), s, id)
<1>1. ToSet(<<x, y>>) = {x, y}
  BY DEF ToSet
<1>2. PICK t : t = FromEntries(Picked(s, P), id)
  OBVIOUS
<1>3. PickedOf(t, s, P, id)
  BY <1>2, PickedTable
<1>4. t \in Seq(Entries) /\ Unique(t, id)
  BY <1>3, Zenon DEF PickedOf
<1>5. \A j \in 1 .. Len(s) : j \in P <=> ~Same(s[j].key, x, id) /\ ~Same(s[j].key, y, id)
  <2>1. DOMAIN s = 1 .. Len(s)
    OBVIOUS
  <2> QED
    BY <1>1, <2>1
<1>6. ASSUME NEW k \in Keys
      PROVE Held(t, k, id) = IF Same(k, x, id) \/ Same(k, y, id) THEN {} ELSE Held(s, k, id)
  <2>1. ASSUME NEW j \in 1 .. Len(s), Same(s[j].key, k, id)
        PROVE j \in P <=> ~(Same(k, x, id) \/ Same(k, y, id))
    <3>1. Same(s[j].key, x, id) <=> Same(k, x, id)
      BY <2>1, SameRelation, Zenon
    <3>2. Same(s[j].key, y, id) <=> Same(k, y, id)
      BY <2>1, SameRelation, Zenon
    <3> QED
      BY <1>5, <3>1, <3>2
  <2>2. CASE Same(k, x, id) \/ Same(k, y, id)
    <3>1. Held(t, k, id) = {}
      BY <1>3, <2>1, <2>2, Zenon DEF PickedOf
    <3> QED
      BY <2>2, <3>1
  <2>3. CASE ~(Same(k, x, id) \/ Same(k, y, id))
    <3>1. CASE \E j \in 1 .. Len(s) : Same(s[j].key, k, id)
      <4>1. Held(t, k, id) = Held(s, k, id)
        BY <1>3, <2>1, <2>3, <3>1, Zenon DEF PickedOf
      <4> QED
        BY <2>3, <4>1
    <3>2. CASE \A j \in 1 .. Len(s) : ~Same(s[j].key, k, id)
      <4>1. Held(t, k, id) = {}
        BY <1>3, <3>2, Zenon DEF PickedOf
      <4>2. Held(s, k, id) = {}
        BY <3>2, HeldFacts
      <4> QED
        BY <2>3, <4>1, <4>2
    <3> QED
      BY <3>1, <3>2
  <2> QED
    BY <2>2, <2>3
<1>7. Derived("except", t, s, id)
  BY <1>4, <1>6, DerivedExcept
<1> QED
  BY <1>2, <1>7

\* The keys of a table built from entries are those of the entries.
LEMMA FromEntriesKeys ==
  ASSUME NEW es \in Seq(Entries), NEW id, NEW k \in Keys, NEW i \in 1 .. Len(es), Same(es[i].key, k, id)
  PROVE Has(FromEntries(es, id), k, id)
<1>1. <<>> \in Seq(Entries) /\ Unique(<<>>, id)
  BY DEF Unique
<1>2. PICK f : PutSteps(f, <<>>, es, id)
  BY <1>1, PutAllSteps
<1>3. /\ f \in [0 .. Len(es) -> Seq(Entries)] /\ f[0] = <<>> /\ f[Len(es)] = FromEntries(es, id)
      /\ \A n \in 1 .. Len(es) : f[n] = Put(f[n - 1], es[n].key, es[n].val, id)
  BY <1>2 DEF PutSteps, FromEntries
<1> DEFINE T == {n \in 0 .. Len(es) : Unique(f[n], id) /\ (n >= i => Held(f[n], k, id) # {})}
<1>4. 0 \in T /\ Len(es) \in Nat
  BY <1>1, <1>3
<1>5. ASSUME NEW n \in 1 .. Len(es), n - 1 \in T PROVE n \in T
  <2>1. es[n].key \in Keys /\ es[n].val \in Values
    <3>1. es[n] \in Entries
      OBVIOUS
    <3> QED
      BY <3>1 DEF Entries
  <2>2. /\ f[n - 1] \in Seq(Entries) /\ n \in 0 .. Len(es) /\ Unique(f[n - 1], id)
        /\ n - 1 >= i => Held(f[n - 1], k, id) # {}
    <3>1. n - 1 \in 0 .. Len(es) /\ n \in 0 .. Len(es)
      OBVIOUS
    <3>2. f[n - 1] \in Seq(Entries)
      BY <1>3, <3>1
    <3> QED
      BY <1>5, <3>1, <3>2, Zenon
  <2>3. /\ Unique(f[n], id)
        /\ Held(f[n], k, id) = IF Same(es[n].key, k, id) THEN {es[n].val} ELSE Held(f[n - 1], k, id)
    BY <1>3, <2>1, <2>2, PutHeld
  <2>4. n >= i => n = i \/ n - 1 >= i
    OBVIOUS
  <2> QED
    BY <2>2, <2>3, <2>4
<1> HIDE DEF T
<1>6. \A n \in 0 .. Len(es) : n \in T
  BY <1>4, <1>5, UpTo
<1>7. Len(es) \in T /\ Len(es) >= i
  BY <1>4, <1>6
<1>8. Unique(f[Len(es)], id) /\ Held(f[Len(es)], k, id) # {} /\ f[Len(es)] \in Seq(Entries)
  BY <1>3, <1>4, <1>7 DEF T
<1> QED
  BY <1>3, <1>8, HeldFacts

\* The entries of s for the keys x and y, as slice collects them.
SliceOf(es, s, x, y, id) ==
  /\ es \in Seq(Entries)
  /\ \A i \in 1 .. Len(es) :
        /\ es[i].key \in {x, y} /\ Has(s, es[i].key, id)
        /\ es[i].val = Get(s, es[i].key, id, Nil)
  /\ \A k \in {x, y} : Has(s, k, id) => \E i \in 1 .. Len(es) : es[i].key = k

LEMMA SliceDerived ==
  ASSUME NEW s \in Seq(Entries), NEW id \in BOOLEAN, Unique(s, id), NEW x \in Keys, NEW y \in Keys,
         NEW es, SliceOf(es, s, x, y, id)
  PROVE Derived("slice", FromEntries(es, id), s, id)
<1> DEFINE C == {e \in Entries : Held(s, e.key, id) = {e.val}}
           D == {e \in Entries : Same(e.key, x, id) \/ Same(e.key, y, id)}
<1>1. PICK t : t = FromEntries(es, id)
  OBVIOUS
<1>2. /\ es \in Seq(Entries)
      /\ \A i \in 1 .. Len(es) :
            /\ es[i].key \in {x, y} /\ Has(s, es[i].key, id)
            /\ es[i].val = Get(s, es[i].key, id, Nil)
      /\ \A k \in {x, y} : Has(s, k, id) => \E i \in 1 .. Len(es) : es[i].key = k
  BY DEF SliceOf
<1>3. Classwise(C, id)
  <2>1. ASSUME NEW k \in Keys, NEW l \in Keys, NEW v \in Values, Same(k, l, id), [key |-> l, val |-> v] \in C
        PROVE [key |-> k, val |-> v] \in C
    <3>1. Held(s, l, id) = {v} /\ Held(s, k, id) = Held(s, l, id)
      BY <2>1, HeldSame
    <3> QED
      BY <3>1 DEF Entries
  <2> HIDE DEF C
  <2> QED
    BY <2>1 DEF Classwise
<1>4. Within(es, C)
  <2>1. ASSUME NEW i \in 1 .. Len(es) PROVE es[i] \in C
    <3>1. PICK e : e = es[i]
      OBVIOUS
    <3>2. e \in Entries /\ Has(s, e.key, id) /\ e.val = Get(s, e.key, id, Nil)
      BY <1>2, <3>1
    <3>3. Held(s, e.key, id) = {Get(s, e.key, id, Nil)}
      BY <3>2, HeldGet
    <3>4. Held(s, e.key, id) = {e.val}
      BY <3>2, <3>3, Zenon
    <3>5. e \in C
      BY <3>2, <3>4
    <3> QED
      BY <3>1, <3>5, Zenon
  <2> HIDE DEF C
  <2> QED
    BY <2>1 DEF Within
<1>5. Classwise(D, id)
  <2>1. ASSUME NEW l \in Keys, NEW m \in Keys, NEW v \in Values, Same(l, m, id), [key |-> m, val |-> v] \in D
        PROVE [key |-> l, val |-> v] \in D
    <3>1. Same(m, x, id) \/ Same(m, y, id)
      BY <2>1
    <3>2. Same(l, x, id) \/ Same(l, y, id)
      BY <2>1, <3>1, SameRelation, Zenon
    <3> QED
      BY <3>2 DEF Entries
  <2> HIDE DEF D
  <2> QED
    BY <2>1 DEF Classwise
<1>6. Within(es, D)
  <2>1. ASSUME NEW i \in 1 .. Len(es) PROVE es[i] \in D
    <3>1. PICK e : e = es[i]
      OBVIOUS
    <3>2. e \in Entries /\ (e.key = x \/ e.key = y)
      BY <1>2, <3>1
    <3>3. Same(e.key, x, id) \/ Same(e.key, y, id)
      BY <3>2 DEF Same
    <3>4. e \in D
      BY <3>2, <3>3
    <3> QED
      BY <3>1, <3>4, Zenon
  <2> HIDE DEF D
  <2> QED
    BY <2>1 DEF Within
<1> HIDE DEF C, D
<1>7. Within(t, C) /\ Within(t, D) /\ t \in Seq(Entries) /\ Unique(t, id)
  BY <1>1, <1>2, <1>3, <1>4, <1>5, <1>6, FromEntriesWithin
<1>8. ASSUME NEW k \in Keys, Has(t, k, id)
      PROVE Held(t, k, id) = Held(s, k, id) /\ (Same(k, x, id) \/ Same(k, y, id))
  <2>1. PICK i \in 1 .. Len(t) : Same(t[i].key, k, id)
    BY <1>7, <1>8, HasWhere
  <2>2. Held(t, k, id) = {t[i].val}
    BY <1>7, <2>1, HeldAt
  <2>3. Held(s, t[i].key, id) = {t[i].val}
    BY <1>7 DEF Within, C
  <2>4. Held(s, t[i].key, id) = Held(s, k, id)
    BY <2>1, HeldSame
  <2>5. Same(t[i].key, x, id) \/ Same(t[i].key, y, id)
    BY <1>7 DEF Within, D
  <2>6. Same(k, x, id) \/ Same(k, y, id)
    BY <2>1, <2>5, SameRelation, Zenon
  <2> QED
    BY <2>2, <2>3, <2>4, <2>6
<1>9. ASSUME NEW k \in Keys, Has(s, k, id), NEW l \in {x, y}, Same(k, l, id) PROVE Has(t, k, id)
  <2>1. Has(s, l, id)
    <3>1. PICK i \in 1 .. Len(s) : Same(s[i].key, k, id)
      BY <1>9, HasWhere
    <3>2. Same(s[i].key, l, id)
      BY <1>9, <3>1, SameRelation, Zenon
    <3> QED
      BY <3>2, HasWhere
  <2>2. PICK i \in 1 .. Len(es) : es[i].key = l
    BY <1>2, <2>1
  <2>3. Same(es[i].key, k, id)
    BY <1>9, <2>2, SameRelation, Zenon
  <2> QED
    BY <1>1, <1>2, <2>3, FromEntriesKeys
<1>10. ASSUME NEW k \in Keys
       PROVE Held(t, k, id) = IF Same(k, x, id) \/ Same(k, y, id) THEN Held(s, k, id) ELSE {}
  <2>1. CASE Has(t, k, id)
    BY <1>8, <2>1
  <2>2. CASE ~Has(t, k, id)
    <3>1. Held(t, k, id) = {}
      BY <1>7, <2>2, HeldNone
    <3>2. Same(k, x, id) \/ Same(k, y, id) => Held(s, k, id) = {}
      <4>1. Same(k, x, id) \/ Same(k, y, id) => ~Has(s, k, id)
        BY <1>9, <2>2
      <4> QED
        BY <4>1, HeldNone
    <3> QED
      BY <3>1, <3>2
  <2> QED
    BY <2>1, <2>2
<1>11. Derived("slice", t, s, id)
  BY <1>7, <1>10, DerivedSlice
<1> QED
  BY <1>1, <1>11

LEMMA SliceFound ==
  ASSUME NEW s \in Seq(Entries), NEW id \in BOOLEAN, Unique(s, id), NEW x \in Keys, NEW y \in Keys,
         NEW ks, ks = <<x, y>>, NEW P, P = {i \in DOMAIN ks : Has(s, ks[i], id)},
         NEW found, found = Picked(ks, P)
  PROVE SliceOf([i \in DOMAIN found |-> [key |-> found[i], val |-> Get(s, found[i], id, Nil)]], s, x, y, id)
<1>1. ks \in Seq(Keys) /\ Len(ks) = 2 /\ ks[1] = x /\ ks[2] = y /\ DOMAIN ks = 1 .. 2
  OBVIOUS
<1>2. PICK g : Picks(ks, P, Len(ks), found, g)
  BY <1>1, PickedFrom
<1>3. found \in Seq(Keys) /\ DOMAIN found = 1 .. Len(found) /\ Len(found) \in Nat
  <2>1. Picked(ks, P) \in Seq(Keys)
    BY <1>1, PickedFacts
  <2> QED
    BY <2>1
<1>4. /\ g \in [1 .. Len(found) -> 1 .. 2]
      /\ \A i \in 1 .. Len(found) : g[i] \in P /\ found[i] = ks[g[i]]
      /\ \A k \in 1 .. 2 : k \in P => \E i \in 1 .. Len(found) : g[i] = k
  BY <1>1, <1>2 DEF Picks
<1>5. \A k \in 1 .. 2 : k \in P <=> Has(s, ks[k], id)
  BY <1>1
<1>6. ASSUME NEW i \in 1 .. Len(found) PROVE found[i] \in {x, y} /\ Has(s, found[i], id)
  <2>1. g[i] \in 1 .. 2 /\ g[i] \in P /\ found[i] = ks[g[i]]
    BY <1>4
  <2>2. g[i] = 1 \/ g[i] = 2
    BY <2>1
  <2>3. Has(s, ks[g[i]], id)
    BY <1>5, <2>1
  <2> QED
    BY <1>1, <2>1, <2>2, <2>3
<1>7. ASSUME NEW k \in {x, y}, Has(s, k, id) PROVE \E i \in 1 .. Len(found) : found[i] = k
  <2>1. PICK n \in 1 .. 2 : k = ks[n]
    BY <1>1
  <2>2. n \in P
    BY <1>5, <1>7, <2>1
  <2>3. PICK i \in 1 .. Len(found) : g[i] = n
    BY <1>4, <2>2
  <2> QED
    BY <1>4, <2>1, <2>3
<1>8. PICK es : es = [i \in DOMAIN found |-> [key |-> found[i], val |-> Get(s, found[i], id, Nil)]]
  OBVIOUS
<1>9. ASSUME NEW i \in 1 .. Len(found)
      PROVE found[i] \in Keys /\ Get(s, found[i], id, Nil) \in Values
  <2>1. PICK p : p = Position(s, found[i], id)
    OBVIOUS
  <2>2. p # 0 /\ p \in 0 .. Len(s)
    BY <1>6, <2>1, PositionFacts DEF Has
  <2>3. s[p] \in Entries
    BY <2>2
  <2>4. Get(s, found[i], id, Nil) = s[p].val
    BY <1>6, <2>1 DEF Get
  <2> QED
    BY <1>3, <2>3, <2>4 DEF Entries
<1>10. es \in [1 .. Len(found) -> Entries]
       /\ \A i \in 1 .. Len(found) : es[i] = [key |-> found[i], val |-> Get(s, found[i], id, Nil)]
  BY <1>3, <1>8, <1>9 DEF Entries
<1>11. es \in Seq(Entries) /\ Len(es) = Len(found)
  <2>1. PICK n : n = Len(found)
    OBVIOUS
  <2>2. es \in [1 .. n -> Entries] /\ n \in Nat
    BY <1>3, <1>10, <2>1
  <2>3. es \in Seq(Entries) /\ Len(es) = n
    BY <2>2
  <2> QED
    BY <2>1, <2>3
<1>12. ASSUME NEW i \in 1 .. Len(es)
       PROVE es[i].key = found[i] /\ es[i].val = Get(s, found[i], id, Nil)
  <2>1. i \in 1 .. Len(found)
    BY <1>11
  <2>2. PICK v : v = Get(s, found[i], id, Nil)
    OBVIOUS
  <2>3. es[i] = [key |-> found[i], val |-> v]
    BY <1>10, <2>1, <2>2
  <2> QED
    BY <2>2, <2>3
<1>13. ASSUME NEW i \in 1 .. Len(es)
       PROVE /\ es[i].key \in {x, y} /\ Has(s, es[i].key, id)
             /\ es[i].val = Get(s, es[i].key, id, Nil)
  BY <1>6, <1>11, <1>12
<1>14. ASSUME NEW k \in {x, y}, Has(s, k, id) PROVE \E i \in 1 .. Len(es) : es[i].key = k
  <2>1. PICK i \in 1 .. Len(found) : found[i] = k
    BY <1>7, <1>14
  <2>2. i \in 1 .. Len(es)
    BY <1>11
  <2> QED
    BY <1>12, <2>1, <2>2
<1>15. SliceOf(es, s, x, y, id)
  BY <1>11, <1>13, <1>14 DEF SliceOf
<1> QED
  BY <1>8, <1>15

(***************************************************************************)
(* What the methods return.                                                *)
(***************************************************************************)
Plain(out) == out.k # "hash"

LEMMA PlainKinds ==
  /\ Plain(Self) /\ (\A v : Plain(Val(v))) /\ (\A b : Plain(Truth(b)))
  /\ (\A s : Plain(List(s))) /\ (\A c : Plain(Raised(c))) /\ (\A n : Plain([k |-> "int", n |-> n]))
BY DEF Plain, Self, Val, Truth, List, Raised

LEMMA OutcomeTables ==
  ASSUME NEW g, NEW stopped
  PROVE /\ Outcome("select", g, stopped) = Table(FromEntries(Pairs(Chosen(g, TRUE)), Id), Id)
        /\ Outcome("reject", g, stopped) = Table(FromEntries(Pairs(Chosen(g, FALSE)), Id), Id)
        /\ Outcome("transform_values", g, stopped) =
             Table(FromEntries([i \in DOMAIN g |-> [key |-> g[i].key, val |-> g[i].ret]], Id), Id)
        /\ Outcome("transform_keys", g, stopped) =
             Table(FromEntries([i \in DOMAIN g |-> [key |-> g[i].ret, val |-> g[i].val]], Id), Id)
<1>1. Outcome("select", g, stopped) = Table(FromEntries(Pairs(Chosen(g, TRUE)), Id), Id)
  BY DEF Outcome, Filters
<1>2. Outcome("reject", g, stopped) = Table(FromEntries(Pairs(Chosen(g, FALSE)), Id), Id)
  BY DEF Outcome, Filters
<1>3. Outcome("transform_values", g, stopped) =
             Table(FromEntries([i \in DOMAIN g |-> [key |-> g[i].key, val |-> g[i].ret]], Id), Id)
  BY DEF Outcome, Filters
<1>4. Outcome("transform_keys", g, stopped) =
             Table(FromEntries([i \in DOMAIN g |-> [key |-> g[i].ret, val |-> g[i].val]], Id), Id)
  BY DEF Outcome, Filters
<1> QED
  BY <1>1, <1>2, <1>3, <1>4

Building == {"select", "reject", "transform_values", "transform_keys"}

LEMMA OutcomePlain ==
  ASSUME NEW op \in Visits \cup InPlace, op \notin Building, NEW g, NEW stopped
  PROVE Plain(Outcome(op, g, stopped))
<1>1. CASE op = "map"
  BY <1>1, PlainKinds DEF Outcome
<1>2. CASE op = "filter_map"
  BY <1>2, PlainKinds DEF Outcome
<1>3. CASE op = "count"
  BY <1>3, PlainKinds DEF Outcome
<1>4. CASE op = "find"
  BY <1>4, PlainKinds DEF Outcome
<1>5. CASE op = "any?"
  BY <1>5, PlainKinds DEF Outcome
<1>6. CASE op \in {"all?", "none?"}
  BY <1>6, PlainKinds DEF Outcome
<1>7. CASE op \in Filters
  BY <1>7, PlainKinds DEF Outcome, Filters
<1>8. CASE op \in {"each", "transform_values!", "transform_keys!"}
  BY <1>8, PlainKinds DEF Outcome, Filters
<1> QED
  BY <1>1, <1>2, <1>3, <1>4, <1>5, <1>6, <1>7, <1>8 DEF Visits, InPlace, Building

LEMMA NoEntries ==
  /\ FromEntries(<<>>, Id) = <<>>
  /\ Pairs(Chosen(<<>>, TRUE)) = <<>> /\ Pairs(Chosen(<<>>, FALSE)) = <<>>
  /\ [i \in DOMAIN <<>> |-> [key |-> <<>>[i].key, val |-> <<>>[i].ret]] = <<>>
  /\ [i \in DOMAIN <<>> |-> [key |-> <<>>[i].ret, val |-> <<>>[i].val]] = <<>>
<1>1. <<>> \in Seq(Entries) /\ Unique(<<>>, Id)
  BY DEF Unique
<1>2. FromEntries(<<>>, Id) = <<>>
  BY <1>1, FromEntriesSame
<1>3. ASSUME NEW P PROVE Picked(<<>>, P) = <<>>
  <2>1. Picked(<<>>, P) \in Seq(Entries) /\ Len(Picked(<<>>, P)) <= Len(<<>>)
    BY <1>1, PickedFacts
  <2>2. PICK u : u = Picked(<<>>, P)
    OBVIOUS
  <2>3. u \in Seq(Entries) /\ Len(u) = 0
    BY <2>1, <2>2
  <2> QED
    BY <2>2, <2>3
<1>4. ASSUME NEW b PROVE Chosen(<<>>, b) = <<>>
  BY <1>3 DEF Chosen
<1>5. Pairs(<<>>) = <<>>
  BY DEF Pairs
<1>6. Pairs(Chosen(<<>>, TRUE)) = <<>> /\ Pairs(Chosen(<<>>, FALSE)) = <<>>
  BY <1>4, <1>5
<1>7. [i \in DOMAIN <<>> |-> [key |-> <<>>[i].key, val |-> <<>>[i].ret]] = <<>>
  OBVIOUS
<1>8. [i \in DOMAIN <<>> |-> [key |-> <<>>[i].ret, val |-> <<>>[i].val]] = <<>>
  OBVIOUS
<1> QED
  BY <1>2, <1>6, <1>7, <1>8

(***************************************************************************)
(* The tables that are derived.                                            *)
(***************************************************************************)
LEMMA ChangePlain ==
  ASSUME NEW op, NEW m, NEW env, NEW out, Change(op, m, env, out), Plain(out)
  PROVE Plain(last'.out)
<1>1. CASE mode.frozen
  <2>1. last'.out = Raised("FrozenError")
    BY <1>1 DEF Change, Answer
  <2> QED
    BY <2>1, PlainKinds
<1>2. CASE ~mode.frozen
  BY <1>2 DEF Change
<1> QED
  BY <1>1, <1>2

LEMMA AnswerPlain ==
  ASSUME NEW op, NEW out, Answer(op, out), Plain(out)
  PROVE Plain(last'.out)
BY DEF Answer

LEMMA SetDefaultPlain ==
  ASSUME NEW op, NEW d, SetDefault(op, d)
  PROVE Plain(last'.out)
<1>1. last'.out = Raised("FrozenError") \/ last'.out = Val(d.value)
  BY DEF SetDefault, Answer
<1> QED
  BY <1>1, PlainKinds

LEMMA MutatePlain ==
  ASSUME Mutate
  PROVE Plain(last'.out)
<1>1. CASE \E k \in Keys : Delete(k)
  BY <1>1, ChangePlain, PlainKinds DEF Delete
<1>2. CASE \E k \in Keys, v \in Values : Store(k, v)
  BY <1>2, ChangePlain, PlainKinds DEF Store
<1>3. CASE \E o \in Others : MergeBang(o)
  BY <1>3, ChangePlain, PlainKinds DEF MergeBang
<1>4. CASE \E o \in Others, id \in BOOLEAN : Replace(o, id)
  <2>1. last'.out = Raised("FrozenError") \/ last'.out = Self
    BY <1>4 DEF Replace, Answer
  <2> QED
    BY <2>1, PlainKinds
<1>5. CASE Clear
  BY <1>5, ChangePlain, PlainKinds DEF Clear
<1>6. CASE CompactBang
  <2>1. PICK out : out = IF Filled(Live) # Live THEN Self ELSE Val(Nil)
    OBVIOUS
  <2>2. Plain(out)
    BY <2>1, PlainKinds
  <2> QED
    BY <1>6, <2>1, <2>2, ChangePlain DEF CompactBang
<1>7. CASE Freeze \/ CompareByIdentity \/ Rehash
  <2>1. last'.out = Raised("FrozenError") \/ last'.out = Self
    BY <1>7 DEF Freeze, CompareByIdentity, Rehash, Answer
  <2> QED
    BY <2>1, PlainKinds
<1>8. CASE \E v \in Values : DefaultAssign(v)
  BY <1>8, SetDefaultPlain DEF DefaultAssign
<1>9. CASE \E b \in BOOLEAN : DefaultProcAssign(b)
  BY <1>9, SetDefaultPlain DEF DefaultProcAssign
<1> QED
  BY <1>1, <1>2, <1>3, <1>4, <1>5, <1>6, <1>7, <1>8, <1>9 DEF Mutate

\* What a step asks of a table it returns.
DerivedOut == last'.out.id = Id /\ Derived(last'.op, last'.out.t, Live, Id)

LEMMA TableAnswer ==
  ASSUME NEW op, NEW t, Answer(op, Table(t, Id)), Derived(op, t, Live, Id)
  PROVE DerivedOut
<1>1. last' = [op |-> op, out |-> [k |-> "hash", t |-> t, id |-> Id]]
  BY DEF Answer, Table
<1>2. last'.op = op /\ last'.out.t = t /\ last'.out.id = Id
  BY <1>1
<1> QED
  BY <1>2 DEF DerivedOut

LEMMA QueryPlain ==
  ASSUME \/ \E k \in Keys : Lookup(k) \/ Fetch(k) \/ HasKey(k) \/ DefaultFor(k) \/ Assoc(k)
         \/ \E v \in Values : HasValue(v) \/ Key(v) \/ RAssoc(v)
         \/ \E k, l \in Keys : ValuesAt(<<k, l>>) \/ FetchValues(<<k, l>>)
         \/ KeysOf \/ ValuesOf \/ ToA \/ Size \/ Invert
  PROVE Plain(last'.out)
<1>1. Plain(Fallback)
  <2>1. Fallback = [k |-> "call"] \/ Fallback = Val(default.value)
    BY DEF Fallback
  <2>2. Plain([k |-> "call"])
    BY DEF Plain
  <2> QED
    BY <2>1, <2>2, PlainKinds
<1>2. CASE \E k \in Keys : Lookup(k) \/ DefaultFor(k)
  <2>1. (\E v : last'.out = Val(v)) \/ last'.out = Fallback
    BY <1>2 DEF Lookup, DefaultFor, Answer
  <2> QED
    BY <1>1, <2>1, PlainKinds
<1>3. CASE \E k \in Keys : Fetch(k)
  <2>1. (\E v : last'.out = Val(v)) \/ last'.out = Raised("KeyError")
    BY <1>3 DEF Fetch, Answer
  <2> QED
    BY <2>1, PlainKinds
<1>4. CASE (\E k \in Keys : HasKey(k)) \/ (\E v \in Values : HasValue(v))
  BY <1>4, AnswerPlain, PlainKinds DEF HasKey, HasValue
<1>5. CASE (\E k \in Keys : Assoc(k)) \/ (\E v \in Values : Key(v) \/ RAssoc(v))
  <2>1. ASSUME NEW k \in Keys, Assoc(k) PROVE Plain(last'.out)
    <3>1. PICK i : i = Position(Live, k, FALSE)
      OBVIOUS
    <3>2. PICK s : s = <<Live[i]>>
      OBVIOUS
    <3>3. Answer("assoc", IF i = 0 THEN Val(Nil) ELSE List(s))
      BY <2>1, <3>1, <3>2 DEF Assoc
    <3> QED
      BY <3>3, AnswerPlain, PlainKinds
  <2>2. ASSUME NEW v \in Values, Key(v) PROVE Plain(last'.out)
    <3>1. PICK i : i = ByValue(Live, v)
      OBVIOUS
    <3>2. PICK s : s = <<Live[i].key>>
      OBVIOUS
    <3>3. Answer("key", IF i = 0 THEN Val(Nil) ELSE List(s))
      BY <2>2, <3>1, <3>2 DEF Key
    <3> QED
      BY <3>3, AnswerPlain, PlainKinds
  <2>3. ASSUME NEW v \in Values, RAssoc(v) PROVE Plain(last'.out)
    <3>1. PICK i : i = ByValue(Live, v)
      OBVIOUS
    <3>2. PICK s : s = <<Live[i]>>
      OBVIOUS
    <3>3. Answer("rassoc", IF i = 0 THEN Val(Nil) ELSE List(s))
      BY <2>3, <3>1, <3>2 DEF RAssoc
    <3> QED
      BY <3>3, AnswerPlain, PlainKinds
  <2> QED
    BY <1>5, <2>1, <2>2, <2>3
<1>6. CASE \/ \E k, l \in Keys : ValuesAt(<<k, l>>) \/ FetchValues(<<k, l>>)
           \/ KeysOf \/ ValuesOf \/ ToA
  <2>1. ASSUME NEW ks, ValuesAt(ks) PROVE Plain(last'.out)
    BY <2>1, AnswerPlain, PlainKinds DEF ValuesAt
  <2>2. ASSUME NEW ks, FetchValues(ks) PROVE Plain(last'.out)
    <3>1. PICK s : s = [i \in DOMAIN ks |-> Get(Live, ks[i], Id, Nil)]
      OBVIOUS
    <3>2. Answer("fetch_values", Raised("KeyError")) \/ Answer("fetch_values", List(s))
      BY <2>2, <3>1 DEF FetchValues
    <3> QED
      BY <3>2, AnswerPlain, PlainKinds
  <2>3. ASSUME KeysOf PROVE Plain(last'.out)
    BY <2>3, AnswerPlain, PlainKinds DEF KeysOf
  <2>4. ASSUME ValuesOf PROVE Plain(last'.out)
    BY <2>4, AnswerPlain, PlainKinds DEF ValuesOf
  <2>5. ASSUME ToA PROVE Plain(last'.out)
    BY <2>5, AnswerPlain, PlainKinds DEF ToA
  <2> QED
    BY <1>6, <2>1, <2>2, <2>3, <2>4, <2>5
<1>7. CASE Size
  BY <1>7 DEF Size, Answer, Plain
<1>8. CASE Invert
  <2>1. last'.out.k = "inverse"
    BY <1>8 DEF Invert, Answer
  <2> QED
    BY <2>1 DEF Plain
<1> QED
  BY <1>2, <1>3, <1>4, <1>5, <1>6, <1>7, <1>8

LEMMA QueryDerived ==
  ASSUME HashInv, Query, Unique(Live, Id)
  PROVE Plain(last'.out) \/ DerivedOut
<1>1. PICK s : s = Live
  OBVIOUS
<1>2. PICK id : id = Id
  OBVIOUS
<1>3. s \in Seq(Entries) /\ Unique(s, id) /\ id \in BOOLEAN
  BY <1>1, <1>2, LiveFacts DEF HashInv, Flags, Id
<1>4. CASE \/ \E k \in Keys : Lookup(k) \/ Fetch(k) \/ HasKey(k) \/ DefaultFor(k) \/ Assoc(k)
           \/ \E v \in Values : HasValue(v) \/ Key(v) \/ RAssoc(v)
           \/ \E k, l \in Keys : ValuesAt(<<k, l>>) \/ FetchValues(<<k, l>>)
           \/ KeysOf \/ ValuesOf \/ ToA \/ Size \/ Invert
  BY <1>4, QueryPlain
<1>5. CASE \E k, l \in Keys : Slice(<<k, l>>)
  <2>1. PICK x \in Keys, y \in Keys : Slice(<<x, y>>)
    BY <1>5
  <2>2. PICK ks : ks = <<x, y>>
    OBVIOUS
  <2>3. PICK P : P = {i \in DOMAIN ks : Has(s, ks[i], id)}
    OBVIOUS
  <2>4. PICK found : found = Picked(ks, P)
    OBVIOUS
  <2>5. PICK es : es = [i \in DOMAIN found |-> [key |-> found[i], val |-> Get(s, found[i], id, Nil)]]
    OBVIOUS
  <2>6. SliceOf(es, s, x, y, id)
    BY <1>3, <2>2, <2>3, <2>4, <2>5, SliceFound
  <2>7. Derived("slice", FromEntries(es, id), s, id)
    BY <1>3, <2>6, SliceDerived
  <2>8. Slice(ks)
    BY <2>1, <2>2
  <2>9. Answer("slice", Table(FromEntries(es, id), id))
    BY <1>1, <1>2, <2>3, <2>4, <2>5, <2>8 DEF Slice
  <2> QED
    BY <1>1, <1>2, <2>7, <2>9, TableAnswer
<1>6. CASE \E k, l \in Keys : Except(<<k, l>>)
  <2>1. PICK x \in Keys, y \in Keys : Except(<<x, y>>)
    BY <1>6
  <2>2. PICK P : P = {i \in DOMAIN s : ~\E k \in ToSet(<<x, y>>) : Same(s[i].key, k, id)}
    OBVIOUS
  <2>3. Derived("except", FromEntries(Picked(s, P), id), s, id)
    BY <1>3, <2>2, ExceptDerived
  <2>4. Answer("except", Table(FromEntries(Picked(s, P), id), id))
    BY <1>1, <1>2, <2>1, <2>2 DEF Except
  <2> QED
    BY <1>1, <1>2, <2>3, <2>4, TableAnswer
<1>7. CASE \E o, p \in Others : Merge(<<o, p>>)
  <2>1. PICK o \in Others, p \in Others : Merge(<<o, p>>)
    BY <1>7
  <2>2. Derived("merge", MergeAll(s, <<o, p>>, id), s, id)
    BY <1>3, MergeDerived
  <2>3. Answer("merge", Table(MergeAll(s, <<o, p>>, id), id))
    BY <1>1, <1>2, <2>1 DEF Merge
  <2> QED
    BY <1>1, <1>2, <2>2, <2>3, TableAnswer
<1>8. CASE Dup
  <2>1. Derived("dup", FromEntries(s, id), s, id)
    BY <1>3, DupDerived
  <2>2. Answer("dup", Table(FromEntries(s, id), id))
    BY <1>1, <1>2, <1>8 DEF Dup
  <2> QED
    BY <1>1, <1>2, <2>1, <2>2, TableAnswer
<1>9. CASE Compact
  <2>1. Derived("compact", FromEntries(Filled(s), id), s, id)
    BY <1>3, CompactDerived
  <2>2. Answer("compact", Table(FromEntries(Filled(s), id), id))
    BY <1>1, <1>2, <1>9 DEF Compact
  <2> QED
    BY <1>1, <1>2, <2>1, <2>2, TableAnswer
<1> QED
  BY <1>4, <1>5, <1>6, <1>7, <1>8, <1>9, Zenon DEF Query

\* An iterator that meets no entry builds an empty table.
LEMMA EmptyDerived ==
  ASSUME HashInv, NEW op \in Visits \cup InPlace
  PROVE Plain(Outcome(op, <<>>, FALSE)) \/
        (Outcome(op, <<>>, FALSE) = Table(<<>>, Id) /\ Derived(op, <<>>, Live, Id))
<1>1. CASE op \notin Building
  BY <1>1, OutcomePlain
<1>2. CASE op \in Building
  <2>1. Outcome(op, <<>>, FALSE) = Table(<<>>, Id)
    <3>1. CASE op = "select"
      <4>1. Outcome(op, <<>>, FALSE) = Table(FromEntries(Pairs(Chosen(<<>>, TRUE)), Id), Id)
        BY <3>1, OutcomeTables, Zenon
      <4> QED
        BY <4>1, NoEntries
    <3>2. CASE op = "reject"
      <4>1. Outcome(op, <<>>, FALSE) = Table(FromEntries(Pairs(Chosen(<<>>, FALSE)), Id), Id)
        BY <3>2, OutcomeTables, Zenon
      <4> QED
        BY <4>1, NoEntries
    <3>3. CASE op = "transform_values"
      <4>1. Outcome(op, <<>>, FALSE) =
              Table(FromEntries([i \in DOMAIN <<>> |-> [key |-> <<>>[i].key, val |-> <<>>[i].ret]], Id), Id)
        BY <3>3, OutcomeTables, Zenon
      <4> QED
        BY <4>1, NoEntries
    <3>4. CASE op = "transform_keys"
      <4>1. Outcome(op, <<>>, FALSE) =
              Table(FromEntries([i \in DOMAIN <<>> |-> [key |-> <<>>[i].ret, val |-> <<>>[i].val]], Id), Id)
        BY <3>4, OutcomeTables, Zenon
      <4> QED
        BY <4>1, NoEntries
    <3> QED
      BY <1>2, <3>1, <3>2, <3>3, <3>4 DEF Building
  <2>2. Unique(<<>>, Id)
    BY DEF Unique
  <2>3. op \notin {"dup", "compact", "merge", "slice", "except"}
    BY <1>2 DEF Building
  <2>4. Derived(op, <<>>, Live, Id)
    BY <2>2, <2>3 DEF Derived
  <2> QED
    BY <2>1, <2>4
<1> QED
  BY <1>1, <1>2

LEMMA EndReports ==
  ASSUME NEW l, NEW m, NEW out, End(l, m, out)
  PROVE /\ mem' = m /\ loop' = NoLoop
        /\ last'.op = l.op /\ last'.out = out /\ last'.seen = l.seen /\ last'.whole = l.whole
        /\ (last'.clean <=> l.changes = 0)
<1>1. PICK c : c = (l.changes = 0)
  OBVIOUS
<1>2. /\ mem' = m /\ loop' = NoLoop
      /\ last' = [op |-> l.op, out |-> out, clean |-> c, seen |-> l.seen, whole |-> l.whole]
  BY <1>1, Zenon DEF End
<1>3. last'.clean = c
  BY <1>2
<1> QED
  BY <1>1, <1>2, <1>3

LEMMA StartLoopDerived ==
  ASSUME HashInv, NEW op \in Visits \cup InPlace, StartLoop(op)
  PROVE Plain(last'.out) \/ DerivedOut
<1>1. CASE mode.frozen /\ op \in InPlace
  <2>1. last'.out = Raised("FrozenError")
    BY <1>1 DEF StartLoop
  <2> QED
    BY <2>1, PlainKinds
<1>2. CASE ~(mode.frozen /\ op \in InPlace)
  <2>1. PICK m : m = mem
    OBVIOUS
  <2>2. PICK l : l = [op |-> op, i |-> 0, n |-> Room(op, mem.len), seen |-> <<>>,
                     changes |-> 0, whole |-> Live]
    OBVIOUS
  <2>3. Proceed(l, m, 0)
    BY <1>2, <2>1, <2>2 DEF StartLoop
  <2>4. CASE HasMore(l, m, 0)
    <3>1. last'.out = Self
      BY <2>3, <2>4 DEF Proceed
    <3> QED
      BY <3>1, PlainKinds
  <2>5. CASE ~HasMore(l, m, 0)
    <3>1. l.op = op /\ l.seen = <<>>
      BY <2>2
    <3>2. PICK o : o = Outcome(op, <<>>, FALSE)
      OBVIOUS
    <3>3. last'.op = op /\ last'.out = o
      BY <2>3, <2>5, <3>1, <3>2, EndReports DEF Proceed
    <3>4. CASE Plain(o)
      BY <3>3, <3>4
    <3>5. CASE o = Table(<<>>, Id) /\ Derived(op, <<>>, Live, Id)
      <4>1. last'.out.t = <<>> /\ last'.out.id = Id
        BY <3>3, <3>5 DEF Table
      <4> QED
        BY <3>3, <3>5, <4>1 DEF DerivedOut
    <3> QED
      BY <3>2, <3>4, <3>5, EmptyDerived
  <2> QED
    BY <2>4, <2>5
<1> QED
  BY <1>1, <1>2

LEMMA MergeOnPlain ==
  ASSUME NEW t, NEW rest, NEW changes, MergeOn(t, rest, changes)
  PROVE Plain(last'.out)
<1>1. last'.out = Self
  BY DEF MergeOn
<1> QED
  BY <1>1, PlainKinds

(***************************************************************************)
(* What an iterator has seen.                                              *)
(***************************************************************************)
\* The block was given the entries at the start of s.
Given(g, s) ==
  /\ Len(g) <= Len(s)
  /\ \A j \in 1 .. Len(g) : g[j].key = s[j].key /\ g[j].val = s[j].val

\* Nothing it returned ended the iterator.
Going(op, g) == \A j \in 1 .. Len(g) : g[j].ret \in Returns(op) /\ ~Stops(op, g[j].ret)

\* It chose or did not choose each entry.
Counted(g) == Len(Chosen(g, TRUE)) + Len(Chosen(g, FALSE)) = Len(g)

LEMMA SeenTyped ==
  ASSUME NEW g \in Seq(Seen), NEW i \in 1 .. Len(g)
  PROVE g[i].key \in Keys /\ g[i].val \in Values
<1>1. g[i] \in Seen
  OBVIOUS
<1> QED
  BY <1>1 DEF Seen

\* One entry more was seen.
More(g, e, h) ==
  /\ h \in Seq(Seen) /\ Len(h) = Len(g) + 1 /\ h[Len(g) + 1] = e
  /\ \A j \in 1 .. Len(g) : h[j] = g[j]

LEMMA AppendMore ==
  ASSUME NEW g \in Seq(Seen), NEW e \in Seen
  PROVE More(g, e, Append(g, e))
BY DEF More

LEMMA GivenNext ==
  ASSUME NEW g \in Seq(Seen), NEW s \in Seq(Entries), NEW e \in Seen, NEW h, More(g, e, h),
         Given(g, s), Len(g) < Len(s), e.key = s[Len(g) + 1].key, e.val = s[Len(g) + 1].val
  PROVE Given(h, s) /\ h \in Seq(Seen) /\ Len(h) = Len(g) + 1 /\ h[Len(h)] = e
<1>1. h \in Seq(Seen) /\ Len(h) = Len(g) + 1 /\ h[Len(g) + 1] = e /\ Len(g) \in Nat /\ Len(s) \in Nat
  BY DEF More
<1>2. \A j \in 1 .. Len(g) : h[j] = g[j]
  BY DEF More
<1>3. ASSUME NEW j \in 1 .. Len(h) PROVE h[j].key = s[j].key /\ h[j].val = s[j].val
  <2>1. CASE j = Len(g) + 1
    BY <1>1, <2>1
  <2>2. CASE j # Len(g) + 1
    <3>1. j \in 1 .. Len(g)
      BY <1>1, <2>2
    <3> QED
      BY <1>2, <3>1 DEF Given
  <2> QED
    BY <2>1, <2>2
<1>4. Given(h, s)
  BY <1>1, <1>3 DEF Given
<1> QED
  BY <1>1, <1>4

LEMMA GoingNext ==
  ASSUME NEW g \in Seq(Seen), NEW e \in Seen, NEW h, More(g, e, h), NEW op,
         Going(op, g), e.ret \in Returns(op), ~Stops(op, e.ret)
  PROVE Going(op, h)
<1>1. Len(h) = Len(g) + 1 /\ h[Len(g) + 1] = e /\ Len(g) \in Nat
  BY DEF More
<1>2. \A j \in 1 .. Len(g) : h[j] = g[j]
  BY DEF More
<1>3. ASSUME NEW j \in 1 .. Len(h) PROVE h[j].ret \in Returns(op) /\ ~Stops(op, h[j].ret)
  <2>1. CASE j = Len(g) + 1
    BY <1>1, <2>1
  <2>2. CASE j # Len(g) + 1
    <3>1. j \in 1 .. Len(g)
      BY <1>1, <2>2
    <3>2. g[j].ret \in Returns(op) /\ ~Stops(op, g[j].ret)
      BY <3>1 DEF Going
    <3> QED
      BY <1>2, <3>1, <3>2
  <2> QED
    BY <2>1, <2>2
<1> QED
  BY <1>3 DEF Going

LEMMA ChosenTyped ==
  ASSUME NEW g \in Seq(Seen), NEW keep
  PROVE Chosen(g, keep) \in Seq(Seen) /\ Len(Chosen(g, keep)) \in Nat
<1>1. Chosen(g, keep) \in Seq(Seen)
  BY PickedFacts DEF Chosen
<1> QED
  BY <1>1

LEMMA ChosenNext ==
  ASSUME NEW g \in Seq(Seen), NEW e \in Seen, NEW h, More(g, e, h), NEW keep \in BOOLEAN
  PROVE Chosen(h, keep) = IF Truthy(e.ret) = keep THEN Append(Chosen(g, keep), e) ELSE Chosen(g, keep)
<1>1. PICK P : P = {i \in DOMAIN g : Truthy(g[i].ret) = keep}
  OBVIOUS
<1>2. PICK Q : Q = {i \in DOMAIN h : Truthy(h[i].ret) = keep}
  OBVIOUS
<1>3. h \in Seq(Seen) /\ Len(h) = Len(g) + 1 /\ h[Len(h)] = e /\ Len(g) \in Nat
      /\ DOMAIN g = 1 .. Len(g) /\ DOMAIN h = 1 .. Len(h)
  BY DEF More
<1>4. \A j \in 1 .. Len(g) : h[j] = g[j]
  BY DEF More
<1>5. Longer(g, h, P, Q)
  BY <1>1, <1>2, <1>3, <1>4 DEF Longer
<1>6. Picked(h, Q) = IF Len(h) \in Q THEN Append(Picked(g, P), h[Len(h)]) ELSE Picked(g, P)
  <2>1. g \in Seq(Seen) /\ h \in Seq(Seen)
    BY <1>3
  <2> QED
    BY <1>5, <2>1, PickedNext
<1>7. Len(h) \in Q <=> (Truthy(e.ret) = keep)
  BY <1>2, <1>3
<1>8. Chosen(g, keep) = Picked(g, P) /\ Chosen(h, keep) = Picked(h, Q)
  BY <1>1, <1>2 DEF Chosen
<1> QED
  BY <1>3, <1>6, <1>7, <1>8

LEMMA CountedNext ==
  ASSUME NEW g \in Seq(Seen), NEW e \in Seen, NEW h, More(g, e, h), Counted(g)
  PROVE Counted(h)
<1>1. PICK a : a = Chosen(g, TRUE)
  OBVIOUS
<1>2. PICK b : b = Chosen(g, FALSE)
  OBVIOUS
<1>3. a \in Seq(Seen) /\ b \in Seq(Seen) /\ Len(a) + Len(b) = Len(g)
  BY <1>1, <1>2, ChosenTyped DEF Counted
<1>4. Chosen(h, TRUE) = IF Truthy(e.ret) THEN Append(a, e) ELSE a
  BY <1>1, ChosenNext DEF Truthy
<1>5. Chosen(h, FALSE) = IF Truthy(e.ret) THEN b ELSE Append(b, e)
  BY <1>2, ChosenNext DEF Truthy
<1>6. PICK x : x = Chosen(h, TRUE)
  OBVIOUS
<1>7. PICK y : y = Chosen(h, FALSE)
  OBVIOUS
<1>8. Len(x) + Len(y) = Len(g) + 1
  <2>1. CASE Truthy(e.ret)
    <3>1. x = Append(a, e) /\ y = b
      BY <1>4, <1>5, <1>6, <1>7, <2>1
    <3>2. Len(x) = Len(a) + 1 /\ Len(a) \in Nat /\ Len(b) \in Nat
      BY <1>3, <3>1
    <3> QED
      BY <1>3, <3>1, <3>2
  <2>2. CASE ~Truthy(e.ret)
    <3>1. x = a /\ y = Append(b, e)
      BY <1>4, <1>5, <1>6, <1>7, <2>2
    <3>2. Len(y) = Len(b) + 1 /\ Len(a) \in Nat /\ Len(b) \in Nat
      BY <1>3, <3>1
    <3> QED
      BY <1>3, <3>1, <3>2
  <2> QED
    BY <2>1, <2>2
<1> QED
  BY <1>6, <1>7, <1>8 DEF Counted, More

LEMMA NoneSeen ==
  ASSUME NEW s \in Seq(Entries), NEW op
  PROVE Given(<<>>, s) /\ Going(op, <<>>) /\ Counted(<<>>) /\ \A b : Chosen(<<>>, b) = <<>>
<1>1. \A b : Chosen(<<>>, b) = <<>>
  BY PickedNone DEF Chosen
<1>2. Counted(<<>>)
  <2>1. Chosen(<<>>, TRUE) = <<>> /\ Chosen(<<>>, FALSE) = <<>>
    BY <1>1, Zenon
  <2>2. Len(<<>>) + Len(<<>>) = Len(<<>>)
    OBVIOUS
  <2> QED
    BY <2>1, <2>2, Zenon DEF Counted
<1>3. Given(<<>>, s) /\ Going(op, <<>>)
  BY DEF Given, Going
<1> QED
  BY <1>1, <1>2, <1>3

LEMMA PairsTyped ==
  ASSUME NEW g \in Seq(Seen)
  PROVE /\ Pairs(g) \in Seq(Entries) /\ Len(Pairs(g)) = Len(g)
        /\ \A i \in 1 .. Len(g) : Pairs(g)[i].key = g[i].key /\ Pairs(g)[i].val = g[i].val
<1>1. PICK n : n = Len(g)
  OBVIOUS
<1>2. n \in Nat /\ DOMAIN g = 1 .. n
  BY <1>1
<1>3. PICK u : u = Pairs(g)
  OBVIOUS
<1>4. ASSUME NEW i \in 1 .. n PROVE [key |-> g[i].key, val |-> g[i].val] \in Entries
  BY <1>1, SeenTyped DEF Entries
<1>5. u = [i \in 1 .. n |-> [key |-> g[i].key, val |-> g[i].val]]
  BY <1>2, <1>3 DEF Pairs
<1>6. u \in [1 .. n -> Entries]
  BY <1>4, <1>5
<1>7. u \in Seq(Entries) /\ Len(u) = n
  BY <1>2, <1>6
<1>8. ASSUME NEW i \in 1 .. n PROVE u[i].key = g[i].key /\ u[i].val = g[i].val
  <2>1. PICK k, v : k = g[i].key /\ v = g[i].val
    OBVIOUS
  <2>2. u[i] = [key |-> k, val |-> v]
    BY <1>5, <2>1
  <2> QED
    BY <2>1, <2>2
<1> QED
  BY <1>1, <1>3, <1>7, <1>8

LEMMA EntryEqual ==
  ASSUME NEW a \in Entries, NEW b \in Entries, a.key = b.key, a.val = b.val
  PROVE a = b
<1>1. a = [key |-> a.key, val |-> a.val] /\ b = [key |-> b.key, val |-> b.val]
  BY DEF Entries
<1> QED
  BY <1>1

\* Tables of the same entries.
LEMMA TablesEqual ==
  ASSUME NEW t \in Seq(Entries), NEW u \in Seq(Entries), Len(t) = Len(u),
         \A i \in 1 .. Len(t) : t[i].key = u[i].key /\ t[i].val = u[i].val
  PROVE t = u
<1>1. ASSUME NEW i \in 1 .. Len(t) PROVE t[i] = u[i]
  <2>1. t[i] \in Entries /\ u[i] \in Entries
    OBVIOUS
  <2> QED
    BY <2>1, EntryEqual
<1> QED
  BY <1>1, SeqEqual

LEMMA GivenPairs ==
  ASSUME NEW g \in Seq(Seen), NEW s \in Seq(Entries), Given(g, s)
  PROVE Pairs(g) = SubSeq(s, 1, Len(g))
<1>1. PICK u : u = Pairs(g)
  OBVIOUS
<1>2. PICK w : w = SubSeq(s, 1, Len(g))
  OBVIOUS
<1>3. Len(g) \in Nat /\ Len(s) \in Nat /\ Len(g) <= Len(s)
  BY DEF Given
<1>4. w \in Seq(Entries) /\ Len(w) = Len(g) /\ \A i \in 1 .. Len(g) : w[i] = s[i]
  BY <1>2, <1>3
<1>5. u \in Seq(Entries) /\ Len(u) = Len(g)
      /\ \A i \in 1 .. Len(g) : u[i].key = g[i].key /\ u[i].val = g[i].val
  BY <1>1, PairsTyped
<1>6. \A i \in 1 .. Len(u) : u[i].key = w[i].key /\ u[i].val = w[i].val
  <2>1. ASSUME NEW i \in 1 .. Len(u) PROVE u[i].key = w[i].key /\ u[i].val = w[i].val
    <3>1. i \in 1 .. Len(g)
      BY <1>5
    <3>2. g[i].key = s[i].key /\ g[i].val = s[i].val
      BY <3>1 DEF Given
    <3>3. u[i].key = g[i].key /\ u[i].val = g[i].val
      BY <1>5, <3>1
    <3> QED
      BY <1>4, <3>1, <3>2, <3>3
  <2> QED
    BY <2>1
<1>7. u = w
  BY <1>4, <1>5, <1>6, TablesEqual
<1> QED
  BY <1>1, <1>2, <1>7

\* The entries that were chosen have different keys.
LEMMA ChosenUnique ==
  ASSUME NEW g \in Seq(Seen), NEW s \in Seq(Entries), Given(g, s), NEW id, Unique(s, id), NEW keep
  PROVE Unique(Pairs(Chosen(g, keep)), id)
<1>1. PICK P : P = {i \in DOMAIN g : Truthy(g[i].ret) = keep}
  OBVIOUS
<1>2. PICK c : c = Chosen(g, keep)
  OBVIOUS
<1>3. c = Picked(g, P) /\ c \in Seq(Seen)
  BY <1>1, <1>2, ChosenTyped DEF Chosen
<1>4. PICK f : Picks(g, P, Len(g), c, f)
  BY <1>3, PickedFrom
<1>5. /\ f \in [1 .. Len(c) -> 1 .. Len(g)]
      /\ \A i, j \in 1 .. Len(c) : i < j => f[i] < f[j]
      /\ \A i \in 1 .. Len(c) : c[i] = g[f[i]]
  BY <1>4 DEF Picks
<1>6. PICK u : u = Pairs(c)
  OBVIOUS
<1>7. u \in Seq(Entries) /\ Len(u) = Len(c) /\ \A i \in 1 .. Len(c) : u[i].key = c[i].key
  BY <1>3, <1>6, PairsTyped
<1>8. Len(c) \in Nat /\ Len(g) \in Nat /\ Len(s) \in Nat /\ Len(g) <= Len(s)
  BY <1>3 DEF Given
<1>9. ASSUME NEW i \in 1 .. Len(c) PROVE f[i] \in 1 .. Len(s) /\ u[i].key = s[f[i]].key
  <2>1. f[i] \in 1 .. Len(g) /\ c[i] = g[f[i]] /\ u[i].key = c[i].key
    BY <1>5, <1>7
  <2>2. g[f[i]].key = s[f[i]].key
    BY <2>1 DEF Given
  <2> QED
    BY <1>8, <2>1, <2>2
<1>10. Thinned(s, u)
  <2>1. f \in [1 .. Len(u) -> 1 .. Len(s)]
    BY <1>5, <1>7, <1>9
  <2> QED
    BY <1>5, <1>7, <1>9, <2>1 DEF Thinned
<1>11. Unique(u, id)
  BY <1>7, <1>10, ThinnedOrdered
<1> QED
  BY <1>2, <1>6, <1>11

(***************************************************************************)
(* What an iterator returns whose block left the hash alone.               *)
(***************************************************************************)
Searching == {"find", "any?", "all?", "none?"}

LEMMA OutcomeSearch ==
  ASSUME NEW g, NEW b \in BOOLEAN
  PROVE /\ Outcome("find", g, FALSE) = Val(Nil)
        /\ Outcome("find", g, TRUE) = List(<<[key |-> Last(g).key, val |-> Last(g).val]>>)
        /\ Outcome("any?", g, b) = Truth(b)
        /\ Outcome("all?", g, b) = Truth(~b)
        /\ Outcome("none?", g, b) = Truth(~b)
        /\ \A op \in Filters : Outcome(op, g, b) = IF Chosen(g, op = "reject!") # <<>> THEN Self ELSE Val(Nil)
<1>1. Outcome("find", g, FALSE) = Val(Nil)
  BY DEF Outcome, Filters
<1>2. Outcome("find", g, TRUE) = List(<<[key |-> Last(g).key, val |-> Last(g).val]>>)
  BY DEF Outcome, Filters
<1>3. Outcome("any?", g, b) = Truth(b)
  BY DEF Outcome, Filters
<1>4. Outcome("all?", g, b) = Truth(~b)
  BY DEF Outcome, Filters
<1>5. Outcome("none?", g, b) = Truth(~b)
  BY DEF Outcome, Filters
<1>6. Outcome("select!", g, b) = IF Chosen(g, FALSE) # <<>> THEN Self ELSE Val(Nil)
  BY DEF Outcome, Filters
<1>7. Outcome("reject!", g, b) = IF Chosen(g, TRUE) # <<>> THEN Self ELSE Val(Nil)
  BY DEF Outcome, Filters
<1>8. ASSUME NEW op \in Filters
      PROVE Outcome(op, g, b) = IF Chosen(g, op = "reject!") # <<>> THEN Self ELSE Val(Nil)
  <2>1. CASE op = "select!"
    BY <1>6, <2>1
  <2>2. CASE op = "reject!"
    BY <1>7, <2>2
  <2> QED
    BY <2>1, <2>2 DEF Filters
<1> QED
  BY <1>1, <1>2, <1>3, <1>4, <1>5, <1>8

\* What the name of an operation says, but for the part of the operation itself.
Common(op, s, g) ==
  /\ Pairs(g) = SubSeq(s, 1, Len(g))
  /\ Len(g) < Len(s) => \/ op \in {"find", "any?", "all?", "none?"}
                        \/ op = "transform_keys!" /\ Len(g) = MaxRekeyed

LEMMA MeantFind ==
  ASSUME NEW s, NEW g, NEW t, NEW out, Common("find", s, g),
         out = IF \E i \in DOMAIN g : Truthy(g[i].ret) THEN List(<<s[Len(g)]>>) ELSE Val(Nil)
  PROVE Meant("find", out, s, g, t)
BY DEF Meant, Common, Filters

LEMMA MeantTruth ==
  ASSUME NEW s, NEW g, NEW t, NEW op \in {"any?", "none?", "all?"}, Common(op, s, g), NEW b \in BOOLEAN,
         op = "any?" => (b <=> \E i \in DOMAIN g : Truthy(g[i].ret)),
         op = "none?" => (b <=> ~\E i \in DOMAIN g : Truthy(g[i].ret)),
         op = "all?" => (b <=> \A i \in DOMAIN g : Truthy(g[i].ret))
  PROVE Meant(op, Truth(b), s, g, t)
<1>1. PICK some : some = (\E i \in DOMAIN g : Truthy(g[i].ret))
  OBVIOUS
<1>2. PICK every : every = (\A i \in DOMAIN g : Truthy(g[i].ret))
  OBVIOUS
<1>3. some \in BOOLEAN /\ every \in BOOLEAN
  BY <1>1, <1>2, Zenon
<1>4. CASE op = "any?"
  <2>1. b = some
    BY <1>1, <1>3, <1>4, Zenon
  <2>2. b = (some = (op = "any?"))
    BY <1>3, <1>4, <2>1
  <2> QED
    BY <1>1, <1>4, <2>2 DEF Meant, Common, Filters
<1>5. CASE op = "none?"
  <2>1. b = ~some
    BY <1>1, <1>3, <1>5, Zenon
  <2>2. b = (some = (op = "any?"))
    BY <1>3, <1>5, <2>1
  <2> QED
    BY <1>1, <1>5, <2>2 DEF Meant, Common, Filters
<1>6. CASE op = "all?"
  <2>1. b = every
    BY <1>2, <1>3, <1>6, Zenon
  <2> QED
    BY <1>2, <1>6, <2>1 DEF Meant, Common, Filters
<1> QED
  BY <1>4, <1>5, <1>6

LEMMA MeantTable ==
  ASSUME NEW s, NEW g, NEW t, NEW op \in {"select", "reject"}, Common(op, s, g), NEW out,
         out.t = Pairs(Chosen(g, op = "select"))
  PROVE Meant(op, out, s, g, t)
BY DEF Meant, Common, Filters

\* Entries that got the values, or the keys, that a block returned.
Valuated(s, g) == [i \in DOMAIN s |-> [s[i] EXCEPT !.val = g[i].ret]]
Rekeyings(s, g) ==
  [i \in DOMAIN s |-> IF i <= MaxRekeyed THEN [s[i] EXCEPT !.key = g[i].ret] ELSE s[i]]

LEMMA MeantValues ==
  ASSUME NEW s, NEW g, NEW t, Common("transform_values", s, g), NEW out, out.t = Valuated(s, g)
  PROVE Meant("transform_values", out, s, g, t)
BY DEF Meant, Common, Filters, Valuated

LEMMA MeantInPlace ==
  ASSUME NEW s, NEW g, NEW t, NEW out, NEW op, Common(op, s, g),
         \/ op = "transform_values!" /\ t = Valuated(s, g)
         \/ op = "transform_keys!" /\ t = Rekeyings(s, g)
  PROVE Meant(op, out, s, g, t)
<1>1. CASE op = "transform_values!" /\ t = Valuated(s, g)
  BY <1>1 DEF Meant, Common, Filters, Valuated
<1>2. CASE op = "transform_keys!" /\ t = Rekeyings(s, g)
  BY <1>2 DEF Meant, Common, Filters, Rekeyings
<1> QED
  BY <1>1, <1>2

LEMMA MeantFilter ==
  ASSUME NEW s, NEW g, NEW t, NEW out, NEW op \in Filters, Common(op, s, g),
         t = Pairs(Chosen(g, op = "select!")), out = Self <=> t # s
  PROVE Meant(op, out, s, g, t)
BY DEF Meant, Common, Filters

LEMMA MeantOther ==
  ASSUME NEW s, NEW g, NEW t, NEW out, NEW op, Common(op, s, g),
         op \in {"each", "map", "filter_map", "count", "transform_keys"}
  PROVE Meant(op, out, s, g, t)
BY DEF Meant, Common, Filters

\* What the in-place iterators leave.
Leaves(op, g, s, t) ==
  /\ op \in Filters => t = Pairs(Chosen(g, op = "select!"))
  /\ op = "transform_values!" => t = Valuated(s, g)
  /\ op = "transform_keys!" => t = Rekeyings(s, g)

LEMMA ValuatedTable ==
  ASSUME NEW g \in Seq(Seen), NEW s \in Seq(Entries), Given(g, s), Len(g) = Len(s),
         NEW id, Unique(s, id), \A j \in 1 .. Len(g) : g[j].ret \in Values
  PROVE FromEntries([i \in DOMAIN g |-> [key |-> g[i].key, val |-> g[i].ret]], id) = Valuated(s, g)
<1>1. PICK n : n = Len(g)
  OBVIOUS
<1>2. n \in Nat /\ DOMAIN g = 1 .. n /\ DOMAIN s = 1 .. n /\ Len(s) = n
  BY <1>1
<1>3. PICK es : es = [i \in DOMAIN g |-> [key |-> g[i].key, val |-> g[i].ret]]
  OBVIOUS
<1>4. es = [i \in 1 .. n |-> [key |-> g[i].key, val |-> g[i].ret]]
  BY <1>2, <1>3
<1>5. ASSUME NEW i \in 1 .. n PROVE [key |-> g[i].key, val |-> g[i].ret] \in Entries
  BY <1>1, SeenTyped DEF Entries
<1>6. es \in [1 .. n -> Entries]
  BY <1>4, <1>5
<1>7. es \in Seq(Entries) /\ Len(es) = n
  BY <1>2, <1>6
<1>8. ASSUME NEW i \in 1 .. n PROVE es[i].key = s[i].key /\ es[i].val = g[i].ret
  <2>1. PICK k, v : k = g[i].key /\ v = g[i].ret
    OBVIOUS
  <2>2. es[i] = [key |-> k, val |-> v]
    BY <1>4, <2>1
  <2>3. k = s[i].key
    BY <1>1, <2>1 DEF Given
  <2> QED
    BY <2>1, <2>2, <2>3
<1>9. PICK w : w = Valuated(s, g)
  OBVIOUS
<1>10. w = [i \in 1 .. n |-> [s[i] EXCEPT !.val = g[i].ret]]
  BY <1>2, <1>9 DEF Valuated
<1>11. ASSUME NEW i \in 1 .. n
       PROVE [s[i] EXCEPT !.val = g[i].ret] = es[i]
  <2>1. PICK v : v = g[i].ret
    OBVIOUS
  <2>2. s[i] \in Entries /\ es[i] \in Entries /\ v \in Values
    BY <1>1, <1>2, <1>7, <2>1
  <2>3. PICK x : x = s[i]
    OBVIOUS
  <2>4. PICK y : y = [x EXCEPT !.val = v]
    OBVIOUS
  <2>5. y \in Entries /\ y.key = x.key /\ y.val = v
    BY <2>2, <2>3, <2>4 DEF Entries
  <2>6. y = es[i]
    BY <1>8, <2>1, <2>2, <2>3, <2>5, EntryEqual
  <2> QED
    BY <2>1, <2>3, <2>4, <2>6
<1>12. w = es
  <2>1. es = [i \in 1 .. n |-> es[i]]
    BY <1>6
  <2> QED
    BY <1>10, <1>11, <2>1
<1>13. Unique(es, id)
  <2>1. DOMAIN es = 1 .. n
    BY <1>6
  <2>2. ASSUME NEW i \in 1 .. n, NEW j \in 1 .. n, Same(es[i].key, es[j].key, id) PROVE i = j
    <3>1. Same(s[i].key, s[j].key, id)
      BY <1>8, <2>2
    <3> QED
      BY <1>2, <3>1, Zenon DEF Unique
  <2> QED
    BY <2>1, <2>2 DEF Unique
<1>14. FromEntries(es, id) = es
  BY <1>7, <1>13, FromEntriesSame
<1> QED
  BY <1>3, <1>9, <1>12, <1>14

LEMMA SubSeqAll ==
  ASSUME NEW s \in Seq(Entries)
  PROVE SubSeq(s, 1, Len(s)) = s
OBVIOUS

\* A filter returns the hash if it dropped an entry.
LEMMA FilterTells ==
  ASSUME NEW g \in Seq(Seen), NEW s \in Seq(Entries), Given(g, s), Len(g) = Len(s), Counted(g),
         NEW keep \in BOOLEAN
  PROVE Chosen(g, ~keep) # <<>> <=> Pairs(Chosen(g, keep)) # s
<1>1. PICK c : c = Chosen(g, keep)
  OBVIOUS
<1>2. PICK d : d = Chosen(g, ~keep)
  OBVIOUS
<1>3. /\ c \in Seq(Seen) /\ d \in Seq(Seen) /\ Len(c) \in Nat /\ Len(d) \in Nat
  BY <1>1, <1>2, ChosenTyped
<1>4. Len(c) + Len(d) = Len(s)
  <2>1. Len(Chosen(g, TRUE)) + Len(Chosen(g, FALSE)) = Len(s)
    BY DEF Counted
  <2>2. CASE keep = TRUE
    <3>1. c = Chosen(g, TRUE) /\ d = Chosen(g, FALSE)
      BY <1>1, <1>2, <2>2
    <3> QED
      BY <2>1, <3>1
  <2>3. CASE keep = FALSE
    <3>1. c = Chosen(g, FALSE) /\ d = Chosen(g, TRUE)
      BY <1>1, <1>2, <2>3
    <3>2. Len(d) + Len(c) = Len(s)
      BY <2>1, <3>1
    <3> QED
      BY <1>3, <3>2
  <2> QED
    BY <2>2, <2>3
<1>5. PICK u : u = Pairs(c)
  OBVIOUS
<1>6. u \in Seq(Entries) /\ Len(u) = Len(c)
  BY <1>3, <1>5, PairsTyped
<1>7. CASE Len(d) = 0
  <2>1. d = <<>>
    BY <1>3, <1>7
  <2>2. Len(c) = Len(g)
    BY <1>3, <1>4, <1>7
  <2>3. c = g
    <3>1. \A P : Len(Picked(g, P)) = Len(g) => Picked(g, P) = g
      BY PickedFacts
    <3> QED
      BY <1>1, <2>2, <3>1 DEF Chosen
  <2>4. SubSeq(s, 1, Len(s)) = s
    BY SubSeqAll
  <2>5. u = s
    BY <1>5, <2>3, <2>4, GivenPairs
  <2> QED
    BY <1>1, <1>2, <1>5, <2>1, <2>5
<1>8. CASE Len(d) # 0
  <2>1. d # <<>>
    BY <1>8
  <2>2. u # s
    BY <1>3, <1>4, <1>6, <1>8
  <2> QED
    BY <1>1, <1>2, <1>5, <2>1, <2>2
<1> QED
  BY <1>7, <1>8

LEMMA TableOf ==
  \A u, id : Table(u, id).t = u
BY DEF Table

\* An iterator that went through all entries.
LEMMA MeantEnded ==
  ASSUME NEW op \in Visits \cup InPlace, NEW g \in Seq(Seen), NEW s \in Seq(Entries), NEW t,
         Given(g, s), Len(g) = Room(op, Len(s)), Going(op, g), Counted(g), Unique(s, Id),
         Leaves(op, g, s, t)
  PROVE Meant(op, Outcome(op, g, FALSE), s, g, t)
<1>1. Common(op, s, g)
  <2>1. Pairs(g) = SubSeq(s, 1, Len(g))
    BY GivenPairs
  <2>2. Len(g) < Len(s) => op = "transform_keys!" /\ Len(g) = MaxRekeyed
    BY RoomFacts
  <2> QED
    BY <2>1, <2>2 DEF Common
<1>2. DOMAIN g = 1 .. Len(g) /\ (op # "transform_keys!" => Len(g) = Len(s))
  BY RoomFacts
<1>3. CASE op = "find"
  <2>1. ~\E i \in DOMAIN g : Truthy(g[i].ret)
    BY <1>2, <1>3 DEF Going, Stops
  <2>2. Outcome(op, g, FALSE) = Val(Nil)
    BY <1>3, OutcomeSearch
  <2> QED
    BY <1>1, <1>3, <2>1, <2>2, MeantFind
<1>4. CASE op = "any?"
  <2>1. ~\E i \in DOMAIN g : Truthy(g[i].ret)
    BY <1>2, <1>4 DEF Going, Stops
  <2>2. Outcome(op, g, FALSE) = Truth(FALSE)
    BY <1>4, OutcomeSearch
  <2> QED
    BY <1>1, <1>4, <2>1, <2>2, MeantTruth
<1>5. CASE op = "none?"
  <2>1. ~\E i \in DOMAIN g : Truthy(g[i].ret)
    BY <1>2, <1>5 DEF Going, Stops
  <2>2. Outcome(op, g, FALSE) = Truth(TRUE)
    BY <1>5, OutcomeSearch
  <2> QED
    BY <1>1, <1>5, <2>1, <2>2, MeantTruth
<1>6. CASE op = "all?"
  <2>1. \A i \in DOMAIN g : Truthy(g[i].ret)
    BY <1>2, <1>6 DEF Going, Stops
  <2>2. Outcome(op, g, FALSE) = Truth(TRUE)
    BY <1>6, OutcomeSearch
  <2> QED
    BY <1>1, <1>6, <2>1, <2>2, MeantTruth
<1>7. CASE op \in {"select", "reject"}
  <2>1. PICK c : c = Chosen(g, op = "select")
    OBVIOUS
  <2>2. Outcome(op, g, FALSE) = Table(FromEntries(Pairs(c), Id), Id)
    <3>1. CASE op = "select"
      BY <2>1, <3>1, OutcomeTables
    <3>2. CASE op = "reject"
      BY <2>1, <3>2, OutcomeTables
    <3> QED
      BY <1>7, <3>1, <3>2
  <2>3. PICK u : u = Pairs(c)
    OBVIOUS
  <2>4. u \in Seq(Entries) /\ Unique(u, Id)
    BY <2>1, <2>3, ChosenTyped, ChosenUnique, PairsTyped
  <2>5. FromEntries(u, Id) = u
    BY <2>4, FromEntriesSame
  <2>6. Outcome(op, g, FALSE).t = u
    BY <2>2, <2>3, <2>5, TableOf, Zenon
  <2> QED
    BY <1>1, <1>7, <2>1, <2>3, <2>6, MeantTable
<1>8. CASE op = "transform_values"
  <2>1. \A j \in 1 .. Len(g) : g[j].ret \in Values
    BY <1>8 DEF Going, Returns
  <2>2. PICK w : w = Valuated(s, g)
    OBVIOUS
  <2>3. FromEntries([i \in DOMAIN g |-> [key |-> g[i].key, val |-> g[i].ret]], Id) = w
    BY <1>2, <1>8, <2>1, <2>2, ValuatedTable
  <2>4. Outcome(op, g, FALSE) =
          Table(FromEntries([i \in DOMAIN g |-> [key |-> g[i].key, val |-> g[i].ret]], Id), Id)
    BY <1>8, OutcomeTables, Zenon
  <2>5. Outcome(op, g, FALSE) = Table(w, Id)
    BY <2>3, <2>4, Zenon
  <2>6. Outcome(op, g, FALSE).t = w
    BY <2>5, TableOf, Zenon
  <2> QED
    BY <1>1, <1>8, <2>2, <2>6, MeantValues
<1>9. CASE op \in {"transform_values!", "transform_keys!"}
  BY <1>1, <1>9, MeantInPlace DEF Leaves
<1>10. CASE op \in Filters
  <2>1. PICK keep \in BOOLEAN : keep = (op = "select!")
    OBVIOUS
  <2>2. (op = "reject!") = ~keep
    BY <1>10, <2>1 DEF Filters
  <2>3. PICK d : d = Chosen(g, ~keep)
    OBVIOUS
  <2>4. t = Pairs(Chosen(g, keep))
    BY <1>10, <2>1 DEF Leaves
  <2>5. d # <<>> <=> t # s
    <3>1. Len(g) = Len(s)
      BY <1>2, <1>10 DEF Filters
    <3> QED
      BY <2>3, <2>4, <3>1, FilterTells
  <2>6. Outcome(op, g, FALSE) = IF d # <<>> THEN Self ELSE Val(Nil)
    <3>1. Outcome(op, g, FALSE) = IF Chosen(g, op = "reject!") # <<>> THEN Self ELSE Val(Nil)
      BY <1>10, OutcomeSearch
    <3> QED
      BY <2>2, <2>3, <3>1
  <2>7. Self # Val(Nil)
    BY DEF Self, Val
  <2>8. Outcome(op, g, FALSE) = Self <=> t # s
    BY <2>5, <2>6, <2>7
  <2> QED
    BY <1>1, <1>10, <2>1, <2>4, <2>8, MeantFilter
<1>11. CASE op \in {"each", "map", "filter_map", "count", "transform_keys"}
  BY <1>1, <1>11, MeantOther
<1> QED
  BY <1>3, <1>4, <1>5, <1>6, <1>7, <1>8, <1>9, <1>10, <1>11 DEF Visits, InPlace

\* An iterator that its block ended.
LEMMA MeantStopped ==
  ASSUME NEW op, NEW g \in Seq(Seen), NEW s \in Seq(Entries), NEW t,
         Given(g, s), Len(g) # 0, Stops(op, g[Len(g)].ret)
  PROVE Meant(op, Outcome(op, g, TRUE), s, g, t)
<1>1. op \in Searching
  BY DEF Stops, Searching
<1>2. Common(op, s, g)
  BY <1>1, GivenPairs DEF Common, Searching
<1>3. Len(g) \in 1 .. Len(g) /\ DOMAIN g = 1 .. Len(g) /\ Len(g) \in Nat /\ Len(g) <= Len(s) /\ Len(s) \in Nat
  BY DEF Given
<1>4. CASE op = "find"
  <2>1. \E i \in DOMAIN g : Truthy(g[i].ret)
    BY <1>3, <1>4 DEF Stops
  <2>2. PICK n : n = Len(g)
    OBVIOUS
  <2>3. n \in 1 .. Len(s) /\ g[n].key = s[n].key /\ g[n].val = s[n].val
    BY <1>3, <2>2 DEF Given
  <2>4. PICK x : x = s[n]
    OBVIOUS
  <2>5. x = [key |-> x.key, val |-> x.val]
    <3>1. x \in Entries
      BY <2>3, <2>4
    <3> QED
      BY <3>1 DEF Entries
  <2>6. [key |-> Last(g).key, val |-> Last(g).val] = x
    <3>1. Last(g) = g[n]
      BY <2>2 DEF Last
    <3> QED
      BY <2>3, <2>4, <2>5, <3>1
  <2>7. Outcome(op, g, TRUE) = List(<<x>>)
    <3>1. Outcome(op, g, TRUE) = List(<<[key |-> Last(g).key, val |-> Last(g).val]>>)
      BY <1>4, OutcomeSearch
    <3> QED
      BY <2>6, <3>1
  <2> QED
    BY <1>2, <1>4, <2>1, <2>2, <2>4, <2>7, MeantFind
<1>5. CASE op = "any?"
  <2>1. \E i \in DOMAIN g : Truthy(g[i].ret)
    BY <1>3, <1>5 DEF Stops
  <2>2. Outcome(op, g, TRUE) = Truth(TRUE)
    BY <1>5, OutcomeSearch
  <2> QED
    BY <1>2, <1>5, <2>1, <2>2, MeantTruth
<1>6. CASE op = "none?"
  <2>1. \E i \in DOMAIN g : Truthy(g[i].ret)
    BY <1>3, <1>6 DEF Stops
  <2>2. Outcome(op, g, TRUE) = Truth(FALSE)
    BY <1>6, OutcomeSearch
  <2> QED
    BY <1>2, <1>6, <2>1, <2>2, MeantTruth
<1>7. CASE op = "all?"
  <2>1. ~\A i \in DOMAIN g : Truthy(g[i].ret)
    BY <1>3, <1>7 DEF Stops
  <2>2. Outcome(op, g, TRUE) = Truth(FALSE)
    BY <1>7, OutcomeSearch
  <2> QED
    BY <1>2, <1>7, <2>1, <2>2, MeantTruth
<1> QED
  BY <1>1, <1>4, <1>5, <1>6, <1>7 DEF Searching

(***************************************************************************)
(* Where an iterator stands whose block left the hash alone.               *)
(***************************************************************************)
\* A filter has the entries c that it kept, and behind them those it has not seen.
Moved(c, k, s, i, t) ==
  /\ i = Len(c) /\ Len(t) = Len(c) + (Len(s) - k)
  /\ \A j \in 1 .. Len(c) : t[j].key = c[j].key /\ t[j].val = c[j].val
  /\ \A j \in 1 .. Len(s) - k : t[Len(c) + j] = s[k + j]

\* The entries stay where they were.
Stayed(op, g, s, i, t) ==
  /\ i = Len(g) /\ Len(t) = Len(s)
  /\ \A j \in 1 .. Len(s) :
        /\ t[j].key = s[j].key
        /\ t[j].val = IF op = "transform_values!" /\ j <= Len(g) THEN g[j].ret ELSE s[j].val

Follows(l, i, t, id) ==
  /\ Given(l.seen, l.whole) /\ Going(l.op, l.seen) /\ Counted(l.seen)
  /\ l.n = Room(l.op, Len(l.whole)) /\ Unique(t, id)
  /\ l.op \in Filters => Moved(Chosen(l.seen, l.op = "select!"), Len(l.seen), l.whole, i, t)
  /\ l.op \notin Filters => Stayed(l.op, l.seen, l.whole, i, t)

LEMMA FollowsStart ==
  ASSUME NEW s \in Seq(Entries), NEW id, Unique(s, id), NEW l,
         l.seen = <<>>, l.whole = s, l.n = Room(l.op, Len(s))
  PROVE Follows(l, 0, s, id)
<1>1. PICK g : g = l.seen
  OBVIOUS
<1>2. Len(g) = 0 /\ Len(s) \in Nat
  BY <1>1
<1>3. Given(g, s) /\ Going(l.op, g) /\ Counted(g) /\ \A b : Chosen(g, b) = <<>>
  BY <1>1, NoneSeen
<1>4. ASSUME NEW c, c = <<>> PROVE Moved(c, Len(g), s, 0, s)
  <2>1. Len(c) = 0
    BY <1>4
  <2>2. \A j \in 1 .. Len(s) - Len(g) : s[Len(c) + j] = s[Len(g) + j]
    BY <1>2, <2>1
  <2>3. Len(s) = Len(c) + (Len(s) - Len(g))
    BY <1>2, <2>1
  <2> QED
    BY <2>1, <2>2, <2>3 DEF Moved
<1>5. Stayed(l.op, g, s, 0, s)
  BY <1>2 DEF Stayed
<1> QED
  BY <1>1, <1>3, <1>4, <1>5 DEF Follows

LEMMA FollowsSlot ==
  ASSUME NEW l \in Iterating, NEW t \in Seq(Entries), NEW i \in Nat, NEW id, Follows(l, i, t, id), i < Len(t),
         NEW k, k = Len(l.seen)
  PROVE /\ k \in Nat /\ k < Len(l.whole) /\ i + 1 \in 1 .. Len(t)
        /\ t[i + 1].key = l.whole[k + 1].key /\ t[i + 1].val = l.whole[k + 1].val
<1>1. PICK g : g = l.seen
  OBVIOUS
<1>2. PICK s : s = l.whole
  OBVIOUS
<1>3. g \in Seq(Seen) /\ s \in Seq(Entries) /\ k = Len(g)
  BY <1>1, <1>2 DEF Iterating
<1>4. k \in Nat /\ Len(s) \in Nat /\ Len(t) \in Nat /\ k <= Len(s)
  BY <1>1, <1>2, <1>3 DEF Follows, Given
<1>5. CASE l.op \in Filters
  <2>1. PICK c : c = Chosen(g, l.op = "select!")
    OBVIOUS
  <2>2. Moved(c, k, s, i, t)
    BY <1>1, <1>2, <1>3, <1>5, <2>1 DEF Follows
  <2>3. i = Len(c) /\ Len(t) = Len(c) + (Len(s) - k)
        /\ \A j \in 1 .. Len(s) - k : t[Len(c) + j] = s[k + j]
    BY <2>2 DEF Moved
  <2>4. PICK n, m, q : n = Len(c) /\ m = Len(s) /\ q = Len(t)
    OBVIOUS
  <2>5. n \in Nat /\ m \in Nat /\ q \in Nat /\ i = n /\ i < q /\ q = n + (m - k)
    BY <1>3, <1>4, <2>1, <2>3, <2>4, ChosenTyped
  <2>6. k < m /\ 1 \in 1 .. m - k /\ i + 1 \in 1 .. q
    <3>1. \A a, b, x, y \in Nat : a < x /\ x = a + (y - b) => b < y /\ 1 \in 1 .. y - b /\ a + 1 \in 1 .. x
      OBVIOUS
    <3>2. k \in Nat
      BY <1>4
    <3> QED
      BY <2>5, <3>1, <3>2
  <2>7. t[i + 1] = s[k + 1]
    BY <2>3, <2>4, <2>5, <2>6
  <2> QED
    BY <1>2, <1>4, <2>4, <2>6, <2>7
<1>6. CASE l.op \notin Filters
  <2>1. Stayed(l.op, g, s, i, t)
    BY <1>1, <1>2, <1>6 DEF Follows
  <2>2. i = k /\ Len(t) = Len(s)
        /\ \A j \in 1 .. Len(s) : t[j].key = s[j].key
             /\ t[j].val = IF l.op = "transform_values!" /\ j <= k THEN g[j].ret ELSE s[j].val
    BY <1>3, <2>1 DEF Stayed
  <2>3. k + 1 \in 1 .. Len(s) /\ ~(k + 1 <= k)
    BY <1>4, <2>2
  <2> QED
    BY <1>2, <1>4, <2>2, <2>3
<1> QED
  BY <1>5, <1>6

\* The iterator when it has seen one entry more.
Advanced(l, e, L) ==
  /\ l \in Iterating /\ L.op = l.op /\ L.whole = l.whole /\ L.n = l.n
  /\ e \in Seen /\ More(l.seen, e, L.seen)
  /\ e.ret \in Returns(l.op) /\ ~Stops(l.op, e.ret)

LEMMA AdvancedFacts ==
  ASSUME NEW l, NEW e, NEW L, Advanced(l, e, L), NEW i, NEW t, NEW id, Follows(l, i, t, id),
         Len(l.seen) < Len(l.whole),
         e.key = l.whole[Len(l.seen) + 1].key, e.val = l.whole[Len(l.seen) + 1].val
  PROVE /\ Given(L.seen, L.whole) /\ Going(L.op, L.seen) /\ Counted(L.seen) /\ L.n = Room(L.op, Len(L.whole))
        /\ L.seen \in Seq(Seen) /\ Len(L.seen) = Len(l.seen) + 1
<1>1. l.seen \in Seq(Seen) /\ l.whole \in Seq(Entries) /\ e \in Seen /\ More(l.seen, e, L.seen)
  BY DEF Advanced, Iterating
<1>2. Given(l.seen, l.whole) /\ Going(l.op, l.seen) /\ Counted(l.seen) /\ l.n = Room(l.op, Len(l.whole))
  BY DEF Follows
<1>3. Given(L.seen, l.whole) /\ L.seen \in Seq(Seen) /\ Len(L.seen) = Len(l.seen) + 1
  BY <1>1, <1>2, GivenNext
<1>4. Going(l.op, L.seen)
  <2>1. e.ret \in Returns(l.op) /\ ~Stops(l.op, e.ret)
    BY DEF Advanced
  <2> QED
    BY <1>1, <1>2, <2>1, GoingNext
<1>5. Counted(L.seen)
  BY <1>1, <1>2, CountedNext
<1> QED
  BY <1>2, <1>3, <1>4, <1>5 DEF Advanced

LEMMA MovedDropped ==
  ASSUME NEW c \in Seq(Seen), NEW s \in Seq(Entries), NEW t \in Seq(Entries), NEW u, NEW i, NEW k \in Nat,
         Moved(c, k, s, i, t), Shrunk(t, u, i + 1), k < Len(s)
  PROVE Moved(c, k + 1, s, i, u)
<1>1. PICK n, m, q : n = Len(c) /\ m = Len(s) /\ q = Len(t)
  OBVIOUS
<1>2. /\ n \in Nat /\ m \in Nat /\ q \in Nat /\ i = n /\ q = n + (m - k) /\ k < m
      /\ \A j \in 1 .. n : t[j].key = c[j].key /\ t[j].val = c[j].val
      /\ \A j \in 1 .. m - k : t[n + j] = s[k + j]
  BY <1>1 DEF Moved
<1>3. Len(u) = q - 1 /\ \A j \in 1 .. q - 1 : u[j] = IF j < i + 1 THEN t[j] ELSE t[j + 1]
  BY <1>1 DEF Shrunk
<1>4. Len(u) = n + (m - (k + 1))
  BY <1>2, <1>3
<1>5. ASSUME NEW j \in 1 .. n PROVE u[j].key = c[j].key /\ u[j].val = c[j].val
  <2>1. j \in 1 .. q - 1 /\ j < i + 1
    BY <1>2
  <2> QED
    BY <1>2, <1>3, <2>1
<1>6. ASSUME NEW j \in 1 .. m - (k + 1) PROVE u[n + j] = s[(k + 1) + j]
  <2>1. n + j \in 1 .. q - 1 /\ ~(n + j < i + 1) /\ j + 1 \in 1 .. m - k
    BY <1>2
  <2>2. (n + j) + 1 = n + (j + 1) /\ (k + 1) + j = k + (j + 1)
    BY <1>2
  <2>3. u[n + j] = t[n + (j + 1)]
    BY <1>3, <2>1, <2>2
  <2>4. t[n + (j + 1)] = s[k + (j + 1)]
    BY <1>2, <2>1
  <2> QED
    BY <2>2, <2>3, <2>4
<1> QED
  BY <1>1, <1>2, <1>4, <1>5, <1>6 DEF Moved

LEMMA MovedKept ==
  ASSUME NEW c \in Seq(Seen), NEW s \in Seq(Entries), NEW t \in Seq(Entries), NEW i, NEW k \in Nat,
         Moved(c, k, s, i, t), k < Len(s), NEW e, NEW d, d = Append(c, e),
         e.key = t[i + 1].key, e.val = t[i + 1].val
  PROVE Moved(d, k + 1, s, i + 1, t)
<1>1. PICK n, m, q : n = Len(c) /\ m = Len(s) /\ q = Len(t)
  OBVIOUS
<1>2. /\ n \in Nat /\ m \in Nat /\ q \in Nat /\ i = n /\ q = n + (m - k) /\ k < m
      /\ \A j \in 1 .. n : t[j].key = c[j].key /\ t[j].val = c[j].val
      /\ \A j \in 1 .. m - k : t[n + j] = s[k + j]
  BY <1>1 DEF Moved
<1>3. Len(d) = n + 1 /\ d[n + 1] = e /\ \A j \in 1 .. n : d[j] = c[j]
  BY <1>1
<1>4. ASSUME NEW j \in 1 .. n + 1 PROVE t[j].key = d[j].key /\ t[j].val = d[j].val
  <2>1. CASE j = n + 1
    BY <1>2, <1>3, <2>1
  <2>2. CASE j # n + 1
    <3>1. j \in 1 .. n
      BY <1>2, <2>2
    <3> QED
      BY <1>2, <1>3, <3>1
  <2> QED
    BY <2>1, <2>2
<1>5. ASSUME NEW j \in 1 .. m - (k + 1) PROVE t[(n + 1) + j] = s[(k + 1) + j]
  <2>1. j + 1 \in 1 .. m - k
    BY <1>2
  <2>2. (n + 1) + j = n + (j + 1) /\ (k + 1) + j = k + (j + 1)
    BY <1>2
  <2>3. t[n + (j + 1)] = s[k + (j + 1)]
    BY <1>2, <2>1
  <2> QED
    BY <2>2, <2>3
<1>6. q = (n + 1) + (m - (k + 1)) /\ i + 1 = n + 1
  BY <1>2
<1> QED
  BY <1>1, <1>3, <1>4, <1>5, <1>6 DEF Moved

LEMMA StayedNext ==
  ASSUME NEW g \in Seq(Seen), NEW s, NEW t, NEW i, NEW op, Stayed(op, g, s, i, t), op # "transform_values!",
         NEW e, NEW h, More(g, e, h)
  PROVE Stayed(op, h, s, i + 1, t)
<1>1. Len(h) = Len(g) + 1
  BY DEF More
<1> QED
  BY <1>1 DEF Stayed

LEMMA StayedValued ==
  ASSUME NEW g \in Seq(Seen), NEW s \in Seq(Entries), NEW t \in Seq(Entries), NEW i, NEW op,
         Stayed(op, g, s, i, t), op = "transform_values!",
         NEW e, NEW h, More(g, e, h), NEW u, Revalued(t, u, i + 1, e.ret)
  PROVE Stayed(op, h, s, i + 1, u)
<1>1. PICK n, m : n = Len(g) /\ m = Len(s)
  OBVIOUS
<1>2. /\ n \in Nat /\ m \in Nat /\ i = n /\ Len(t) = m
      /\ \A j \in 1 .. m : t[j].key = s[j].key /\ t[j].val = IF j <= n THEN g[j].ret ELSE s[j].val
  BY <1>1 DEF Stayed
<1>3. Len(h) = n + 1 /\ h[n + 1] = e /\ \A j \in 1 .. n : h[j] = g[j]
  BY <1>1 DEF More
<1>4. PICK r : r = e.ret
  OBVIOUS
<1>5. Len(u) = m /\ \A j \in 1 .. m : u[j].key = t[j].key /\ u[j].val = IF j = n + 1 THEN r ELSE t[j].val
  BY <1>2, <1>4 DEF Revalued
<1>6. ASSUME NEW j \in 1 .. m
      PROVE u[j].key = s[j].key /\ u[j].val = IF j <= n + 1 THEN h[j].ret ELSE s[j].val
  <2>1. u[j].key = s[j].key
    BY <1>2, <1>5
  <2>2. CASE j = n + 1
    <3>1. u[j].val = r /\ j <= n + 1 /\ h[j] = e
      BY <1>2, <1>3, <1>5, <2>2
    <3> QED
      BY <1>4, <2>1, <3>1
  <2>3. CASE j \in 1 .. n
    <3>1. u[j].val = g[j].ret /\ j <= n + 1 /\ h[j] = g[j]
      BY <1>2, <1>3, <1>5, <2>3
    <3> QED
      BY <2>1, <3>1
  <2>4. CASE j > n + 1
    <3>1. u[j].val = s[j].val /\ ~(j <= n + 1)
      BY <1>2, <1>5, <2>4
    <3> QED
      BY <2>1, <3>1
  <2> QED
    BY <1>2, <2>2, <2>3, <2>4
<1> QED
  BY <1>1, <1>2, <1>3, <1>5, <1>6 DEF Stayed

\* The block was given the entry e that stands behind those the iterator has seen.
Fed(l, e, L, i, t, id) ==
  /\ Advanced(l, e, L) /\ t \in Seq(Entries) /\ i \in Nat /\ Follows(l, i, t, id) /\ i < Len(t)
  /\ e.key = t[i + 1].key /\ e.val = t[i + 1].val

LEMMA FedFacts ==
  ASSUME NEW l, NEW e, NEW L, NEW i, NEW t, NEW id, Fed(l, e, L, i, t, id)
  PROVE /\ Given(L.seen, L.whole) /\ Going(L.op, L.seen) /\ Counted(L.seen) /\ L.n = Room(L.op, Len(L.whole))
        /\ L.seen \in Seq(Seen) /\ Len(L.seen) = Len(l.seen) + 1
        /\ l.seen \in Seq(Seen) /\ l.whole \in Seq(Entries) /\ Len(l.seen) < Len(l.whole)
        /\ More(l.seen, e, L.seen) /\ e \in Seen /\ L.op = l.op /\ L.whole = l.whole
        /\ l.op \in Visits \cup InPlace
        /\ Unique(t, id) /\ i + 1 \in 1 .. Len(t)
<1>1. Advanced(l, e, L) /\ t \in Seq(Entries) /\ i \in Nat /\ Follows(l, i, t, id) /\ i < Len(t)
      /\ e.key = t[i + 1].key /\ e.val = t[i + 1].val
  BY DEF Fed
<1>2. l \in Iterating /\ e \in Seen /\ More(l.seen, e, L.seen) /\ L.op = l.op /\ L.whole = l.whole
  BY <1>1 DEF Advanced
<1>3. l.seen \in Seq(Seen) /\ l.whole \in Seq(Entries) /\ l.op \in Visits \cup InPlace
  BY <1>2 DEF Iterating
<1>4. PICK k : k = Len(l.seen)
  OBVIOUS
<1>5. k < Len(l.whole) /\ i + 1 \in 1 .. Len(t)
      /\ t[i + 1].key = l.whole[k + 1].key /\ t[i + 1].val = l.whole[k + 1].val
  BY <1>1, <1>2, <1>4, FollowsSlot
<1>6. e.key = l.whole[Len(l.seen) + 1].key /\ e.val = l.whole[Len(l.seen) + 1].val
      /\ Len(l.seen) < Len(l.whole)
  BY <1>1, <1>4, <1>5
<1>7. /\ Given(L.seen, L.whole) /\ Going(L.op, L.seen) /\ Counted(L.seen) /\ L.n = Room(L.op, Len(L.whole))
      /\ L.seen \in Seq(Seen) /\ Len(L.seen) = Len(l.seen) + 1
  BY <1>1, <1>6, AdvancedFacts
<1>8. Unique(t, id)
  BY <1>1 DEF Follows
<1> QED
  BY <1>2, <1>3, <1>5, <1>6, <1>7, <1>8

\* A filter drops the entry: the next one comes into its slot.
LEMMA FollowsDropped ==
  ASSUME NEW l, NEW e, NEW L, NEW i, NEW t, NEW id, Fed(l, e, L, i, t, id),
         Dropped(l.op, e.ret), NEW u, u = Without(t, e.key, id)
  PROVE u \in Seq(Entries) /\ Follows(L, i, u, id)
<1>1. PICK g, h, s, op, k : g = l.seen /\ h = L.seen /\ s = l.whole /\ op = l.op /\ k = Len(g)
  OBVIOUS
<1>2. /\ g \in Seq(Seen) /\ h \in Seq(Seen) /\ s \in Seq(Entries) /\ k \in Nat /\ k < Len(s)
      /\ More(g, e, h) /\ e \in Seen /\ Len(h) = k + 1
      /\ L.op = op /\ L.whole = s /\ L.seen = h /\ i + 1 \in 1 .. Len(t)
  BY <1>1, FedFacts
<1>3. Given(h, s) /\ Going(op, h) /\ Counted(h) /\ L.n = Room(op, Len(s)) /\ Unique(t, id)
  <2>1. Given(L.seen, L.whole) /\ Going(L.op, L.seen) /\ Counted(L.seen) /\ L.n = Room(L.op, Len(L.whole)) /\ Unique(t, id)
    BY FedFacts
  <2> QED
    BY <1>1, <1>2, <2>1
<1>4. t \in Seq(Entries) /\ i \in Nat /\ Follows(l, i, t, id) /\ e.key = t[i + 1].key
  BY DEF Fed
<1>5. op \in Filters /\ (Truthy(e.ret) <=> op # "select!")
  <2>1. op = IF Truthy(e.ret) THEN "reject!" ELSE "select!"
    BY <1>1 DEF Dropped
  <2> QED
    BY <2>1, Zenon DEF Filters
<1>6. PICK keep \in BOOLEAN : keep = (op = "select!")
  OBVIOUS
<1>7. PICK c : c = Chosen(g, keep)
  OBVIOUS
<1>8. c \in Seq(Seen) /\ Chosen(h, keep) = c
  <2>1. Truthy(e.ret) # keep
    BY <1>5, <1>6 DEF Truthy
  <2>2. Chosen(h, keep) = IF Truthy(e.ret) = keep THEN Append(c, e) ELSE c
    BY <1>2, <1>7, ChosenNext
  <2> QED
    BY <1>2, <1>7, <2>1, <2>2, ChosenTyped
<1>9. Moved(c, k, s, i, t)
  BY <1>1, <1>4, <1>5, <1>6, <1>7 DEF Follows
<1>10. Position(t, e.key, id) = i + 1
  BY <1>2, <1>3, <1>4, Found, SameRelation
<1>11. Shrunk(t, u, i + 1)
  <2>1. i + 1 # 0
    BY <1>2
  <2> QED
    BY <1>4, <1>10, <2>1, WithoutShrinks
<1>12. u \in Seq(Entries) /\ Unique(u, id)
  <2>1. u \in Seq(Entries) /\ Thinned(t, u)
    BY <1>4, WithoutFacts
  <2> QED
    BY <1>3, <1>4, <2>1, ThinnedOrdered
<1>13. Moved(c, k + 1, s, i, u)
  BY <1>2, <1>4, <1>8, <1>9, <1>11, MovedDropped
<1>14. l.op \in Filters => Moved(Chosen(h, op = "select!"), Len(h), s, i, u)
  BY <1>2, <1>6, <1>8, <1>13
<1> QED
  BY <1>1, <1>2, <1>3, <1>5, <1>12, <1>14 DEF Follows

\* The entries stay as they are.
LEMMA FollowsKept ==
  ASSUME NEW l, NEW e, NEW L, NEW i, NEW t, NEW id, Fed(l, e, L, i, t, id),
         ~Dropped(l.op, e.ret), l.op # "transform_values!"
  PROVE Follows(L, i + 1, t, id)
<1>1. PICK g, h, s, op, k : g = l.seen /\ h = L.seen /\ s = l.whole /\ op = l.op /\ k = Len(g)
  OBVIOUS
<1>2. /\ g \in Seq(Seen) /\ h \in Seq(Seen) /\ s \in Seq(Entries) /\ k \in Nat /\ k < Len(s)
      /\ More(g, e, h) /\ e \in Seen /\ Len(h) = k + 1
      /\ L.op = op /\ L.whole = s /\ L.seen = h /\ i + 1 \in 1 .. Len(t)
  BY <1>1, FedFacts
<1>3. Given(h, s) /\ Going(op, h) /\ Counted(h) /\ L.n = Room(op, Len(s)) /\ Unique(t, id)
  <2>1. Given(L.seen, L.whole) /\ Going(L.op, L.seen) /\ Counted(L.seen) /\ L.n = Room(L.op, Len(L.whole)) /\ Unique(t, id)
    BY FedFacts
  <2> QED
    BY <1>1, <1>2, <2>1
<1>4. /\ t \in Seq(Entries) /\ i \in Nat /\ Follows(l, i, t, id)
      /\ e.key = t[i + 1].key /\ e.val = t[i + 1].val
  BY DEF Fed
<1>5. CASE op \in Filters
  <2>1. PICK keep \in BOOLEAN : keep = (op = "select!")
    OBVIOUS
  <2>2. Truthy(e.ret) = keep
    <3>1. op # IF Truthy(e.ret) THEN "reject!" ELSE "select!"
      BY <1>1 DEF Dropped
    <3> QED
      BY <1>5, <2>1, <3>1 DEF Filters, Truthy
  <2>3. PICK c : c = Chosen(g, keep)
    OBVIOUS
  <2>4. PICK d : d = Append(c, e)
    OBVIOUS
  <2>5. c \in Seq(Seen) /\ Chosen(h, keep) = d
    <3>1. Chosen(h, keep) = IF Truthy(e.ret) = keep THEN Append(c, e) ELSE c
      BY <1>2, <2>3, ChosenNext
    <3> QED
      BY <1>2, <2>2, <2>3, <2>4, <3>1, ChosenTyped
  <2>6. Moved(c, k, s, i, t)
    BY <1>1, <1>4, <1>5, <2>1, <2>3 DEF Follows
  <2>7. Moved(d, k + 1, s, i + 1, t)
    BY <1>2, <1>4, <2>4, <2>5, <2>6, MovedKept
  <2>8. Moved(Chosen(h, op = "select!"), Len(h), s, i + 1, t)
    BY <1>2, <2>1, <2>5, <2>7
  <2> QED
    BY <1>1, <1>2, <1>3, <1>5, <2>8 DEF Follows
<1>6. CASE op \notin Filters
  <2>1. Stayed(op, g, s, i, t)
    BY <1>1, <1>4, <1>6 DEF Follows
  <2>2. Stayed(op, h, s, i + 1, t)
    BY <1>1, <1>2, <2>1, StayedNext
  <2> QED
    BY <1>1, <1>2, <1>3, <1>6, <2>2 DEF Follows
<1> QED
  BY <1>5, <1>6

\* transform_values! stores what the block returned.
LEMMA FollowsValued ==
  ASSUME NEW l, NEW e, NEW L, NEW i, NEW t, NEW id, Fed(l, e, L, i, t, id), l.op = "transform_values!",
         NEW u, Revalued(t, u, i + 1, e.ret)
  PROVE Follows(L, i + 1, u, id)
<1>1. PICK g, h, s, op, k : g = l.seen /\ h = L.seen /\ s = l.whole /\ op = l.op /\ k = Len(g)
  OBVIOUS
<1>2. /\ g \in Seq(Seen) /\ h \in Seq(Seen) /\ s \in Seq(Entries) /\ k \in Nat
      /\ More(g, e, h) /\ L.op = op /\ L.whole = s /\ L.seen = h
  BY <1>1, FedFacts
<1>3. Given(h, s) /\ Going(op, h) /\ Counted(h) /\ L.n = Room(op, Len(s)) /\ Unique(t, id)
  <2>1. Given(L.seen, L.whole) /\ Going(L.op, L.seen) /\ Counted(L.seen) /\ L.n = Room(L.op, Len(L.whole)) /\ Unique(t, id)
    BY FedFacts
  <2> QED
    BY <1>1, <1>2, <2>1
<1>4. t \in Seq(Entries) /\ i \in Nat /\ Follows(l, i, t, id)
  BY DEF Fed
<1>5. op \notin Filters /\ op = "transform_values!"
  BY <1>1 DEF Filters
<1>6. Stayed(op, g, s, i, t)
  BY <1>1, <1>4, <1>5 DEF Follows
<1>7. Stayed(op, h, s, i + 1, u)
  BY <1>2, <1>4, <1>5, <1>6, StayedValued
<1>8. Unique(u, id)
  <2>1. u \in Seq(Entries) /\ Len(u) = Len(t) /\ \A j \in 1 .. Len(t) : u[j].key = t[j].key
    BY DEF Revalued
  <2>2. Grown(t, u, id)
    BY <1>4, <2>1, KeysStay
  <2> QED
    BY <1>3, <2>2 DEF Grown
<1> QED
  BY <1>1, <1>2, <1>3, <1>5, <1>7, <1>8 DEF Follows

LEMMA FollowsFacts ==
  ASSUME NEW l \in Iterating, NEW i, NEW t, NEW id, Follows(l, i, t, id),
         NEW g, g = l.seen, NEW s, s = l.whole, NEW op, op = l.op
  PROVE /\ g \in Seq(Seen) /\ s \in Seq(Entries) /\ op \in Visits \cup InPlace /\ Len(g) \in Nat /\ Len(s) \in Nat
        /\ Given(g, s) /\ Going(op, g) /\ Counted(g) /\ l.n = Room(op, Len(s)) /\ Unique(t, id)
        /\ Len(g) <= Len(s)
        /\ op \in Filters => Moved(Chosen(g, op = "select!"), Len(g), s, i, t)
        /\ op \notin Filters => Stayed(op, g, s, i, t)
<1>1. g \in Seq(Seen) /\ s \in Seq(Entries) /\ op \in Visits \cup InPlace
  BY DEF Iterating
<1>2. /\ Given(g, s) /\ Going(op, g) /\ Counted(g) /\ l.n = Room(op, Len(s)) /\ Unique(t, id)
      /\ op \in Filters => Moved(Chosen(g, op = "select!"), Len(g), s, i, t)
      /\ op \notin Filters => Stayed(op, g, s, i, t)
  BY Zenon DEF Follows
<1>3. Len(g) <= Len(s)
  BY <1>2 DEF Given
<1> QED
  BY <1>1, <1>2, <1>3

\* The iterator has come to the end of the entries.
LEMMA FollowsEnd ==
  ASSUME NEW l \in Iterating, NEW i \in Nat, NEW t \in Seq(Entries), NEW id, Follows(l, i, t, id),
         ~(i < Len(t)), l.op # "transform_keys!"
  PROVE Len(l.seen) = Len(l.whole) /\ Leaves(l.op, l.seen, l.whole, t)
<1>1. PICK g, s, op : g = l.seen /\ s = l.whole /\ op = l.op
  OBVIOUS
<1>2. /\ g \in Seq(Seen) /\ s \in Seq(Entries) /\ Len(g) \in Nat /\ Len(s) \in Nat
      /\ Given(g, s) /\ Going(op, g) /\ Len(g) <= Len(s)
      /\ op \in Filters => Moved(Chosen(g, op = "select!"), Len(g), s, i, t)
      /\ op \notin Filters => Stayed(op, g, s, i, t)
  BY <1>1, FollowsFacts
<1>3. CASE op \in Filters
  <2>1. PICK c : c = Chosen(g, op = "select!")
    OBVIOUS
  <2>2. c \in Seq(Seen) /\ Len(c) \in Nat
    BY <1>2, <2>1, ChosenTyped
  <2>3. i = Len(c) /\ Len(t) = Len(c) + (Len(s) - Len(g))
        /\ \A j \in 1 .. Len(c) : t[j].key = c[j].key /\ t[j].val = c[j].val
    BY <1>2, <1>3, <2>1 DEF Moved
  <2>4. Len(g) = Len(s) /\ Len(t) = Len(c)
    <3>1. \A a, b, x, y \in Nat : a <= b /\ x = y + (b - a) /\ ~(y < x) => a = b /\ x = y
      OBVIOUS
    <3>2. Len(t) \in Nat /\ ~(Len(c) < Len(t))
      BY <2>3
    <3> QED
      BY <1>2, <2>2, <2>3, <3>1, <3>2
  <2>5. PICK u : u = Pairs(c)
    OBVIOUS
  <2>6. u \in Seq(Entries) /\ Len(u) = Len(c)
        /\ \A j \in 1 .. Len(c) : u[j].key = c[j].key /\ u[j].val = c[j].val
    BY <2>2, <2>5, PairsTyped
  <2>7. \A j \in 1 .. Len(t) : t[j].key = u[j].key /\ t[j].val = u[j].val
    BY <2>3, <2>4, <2>6
  <2>8. t = u
    BY <2>4, <2>6, <2>7, TablesEqual
  <2>9. op # "transform_values!" /\ op # "transform_keys!"
    BY <1>3 DEF Filters
  <2>10. Leaves(op, g, s, t)
    BY <2>1, <2>5, <2>8, <2>9 DEF Leaves
  <2> QED
    BY <1>1, <2>4, <2>10
<1>4. CASE op \notin Filters
  <2>1. /\ i = Len(g) /\ Len(t) = Len(s)
        /\ \A j \in 1 .. Len(s) :
              /\ t[j].key = s[j].key
              /\ t[j].val = IF op = "transform_values!" /\ j <= Len(g) THEN g[j].ret ELSE s[j].val
    BY <1>2, <1>4 DEF Stayed
  <2>2. Len(g) = Len(s)
    BY <1>2, <2>1
  <2>3. ASSUME op = "transform_values!" PROVE t = Valuated(s, g)
    <3>1. PICK w : w = Valuated(s, g)
      OBVIOUS
    <3>2. PICK n : n = Len(s)
      OBVIOUS
    <3>3. n \in Nat /\ DOMAIN s = 1 .. n /\ Len(g) = n /\ Len(t) = n
      BY <1>2, <2>1, <2>2, <3>2
    <3>4. w = [j \in 1 .. n |-> [s[j] EXCEPT !.val = g[j].ret]]
      BY <3>1, <3>3 DEF Valuated
    <3>5. ASSUME NEW j \in 1 .. n PROVE t[j] = [s[j] EXCEPT !.val = g[j].ret]
      <4>1. PICK a, b, v : a = t[j] /\ b = s[j] /\ v = g[j].ret
        OBVIOUS
      <4>2. a \in Entries /\ b \in Entries
        BY <1>2, <3>2, <3>3, <4>1
      <4>3. v \in Values
        <5>1. g[j].ret \in Returns(op)
          BY <1>2, <3>3 DEF Going
        <5> QED
          BY <2>3, <4>1, <5>1 DEF Returns
      <4>4. PICK y : y = [b EXCEPT !.val = v]
        OBVIOUS
      <4>5. y \in Entries /\ y.key = b.key /\ y.val = v
        BY <4>2, <4>3, <4>4, EntryWith
      <4>6. a.key = b.key /\ a.val = v
        BY <2>1, <2>3, <3>2, <3>3, <4>1
      <4>7. a = y
        BY <4>2, <4>5, <4>6, EntryEqual
      <4> QED
        BY <4>1, <4>4, <4>7
    <3>6. t = [j \in 1 .. n |-> t[j]]
      BY <3>3
    <3> QED
      BY <3>1, <3>4, <3>5, <3>6
  <2>4. Leaves(op, g, s, t)
    BY <1>1, <1>4, <2>3 DEF Leaves
  <2> QED
    BY <1>1, <2>2, <2>4
<1> QED
  BY <1>3, <1>4

\* transform_keys! writes the keys it collected.
LEMMA FollowsRekeyed ==
  ASSUME HashInv, NEW l \in Iterating, NEW i \in Nat, NEW id, Follows(l, i, Live, id),
         i = l.n, l.op = "transform_keys!",
         NEW w, w = Rekeyed(l), NEW t, t = SubSeq(w.buf, 1, w.len)
  PROVE Len(l.seen) = Room(l.op, Len(l.whole)) /\ Leaves(l.op, l.seen, l.whole, t)
<1>1. PICK g, s, op : g = l.seen /\ s = l.whole /\ op = l.op
  OBVIOUS
<1>2. /\ g \in Seq(Seen) /\ s \in Seq(Entries) /\ Len(g) \in Nat /\ Len(s) \in Nat
      /\ l.n = Room(op, Len(s))
      /\ Given(g, s) /\ Going(op, g) /\ Len(g) <= Len(s)
      /\ op \notin Filters => Stayed(op, g, s, i, Live)
  BY <1>1, FollowsFacts
<1>3. op \notin Filters /\ op = "transform_keys!"
  BY <1>1 DEF Filters
<1>4. PICK v : v = Live
  OBVIOUS
<1>5. /\ i = Len(g) /\ Len(v) = Len(s) /\ \A j \in 1 .. Len(s) : v[j].key = s[j].key /\ v[j].val = s[j].val
  BY <1>2, <1>3, <1>4 DEF Stayed
<1>6. Len(g) = Room(op, Len(s)) /\ \A j \in 1 .. Len(s) : j <= Len(g) <=> j <= MaxRekeyed
  <2>1. Len(g) = Room(op, Len(s))
    BY <1>2, <1>5
  <2> QED
    BY <1>2, <1>3, <2>1, RoomFacts
<1>7. PICK b, n : b = mem.buf /\ n = mem.len
  OBVIOUS
<1>8. /\ v \in Seq(Entries) /\ Len(v) = n /\ (\A j \in 1 .. n : v[j] = b[j]) /\ b \in Seq(Entries)
      /\ n \in Nat /\ n <= Len(b) /\ Len(b) \in Nat
  BY <1>4, <1>7, LiveFacts
<1>9. v = s
  BY <1>2, <1>5, <1>8, TablesEqual
<1>10. ASSUME NEW j \in 1 .. Len(g) PROVE g[j].ret \in Keys
  <2>1. g[j].ret \in Returns(op)
    BY <1>2 DEF Going
  <2> QED
    BY <1>3, <2>1 DEF Returns
<1>11. Memory(w)
  <2>1. \A j \in 1 .. Len(l.seen) : l.seen[j].ret \in Keys
    BY <1>1, <1>10
  <2> QED
    BY <2>1, RekeyedFacts
<1>12. PICK c : c = w.buf
  OBVIOUS
<1>13. /\ w.len = n
       /\ c = [j \in DOMAIN b |-> IF j <= Len(g) THEN [b[j] EXCEPT !.key = g[j].ret] ELSE b[j]]
  <2>1. PICK M : M = mem
    OBVIOUS
  <2>2. M \in [buf : Seq(Entries), len : Nat]
    BY <2>1 DEF HashInv, Memory
  <2>3. PICK d : d = [j \in DOMAIN b |-> IF j <= Len(g) THEN [b[j] EXCEPT !.key = g[j].ret] ELSE b[j]]
    OBVIOUS
  <2>4. w = [M EXCEPT !.buf = d]
    BY <1>1, <1>7, <2>1, <2>3 DEF Rekeyed
  <2> QED
    BY <1>7, <1>12, <2>1, <2>2, <2>3, <2>4
<1>14. t \in Seq(Entries) /\ Len(t) = n /\ \A j \in 1 .. n : t[j] = c[j]
  <2>1. t \in Seq(Entries) /\ Len(t) = w.len /\ \A j \in 1 .. w.len : t[j] = w.buf[j]
    BY <1>11, MemoryFacts
  <2>2. w.len = n
    BY <1>13
  <2> QED
    BY <1>12, <2>1, <2>2
<1>15. ASSUME NEW j \in 1 .. n
       PROVE t[j] = IF j <= MaxRekeyed THEN [s[j] EXCEPT !.key = g[j].ret] ELSE s[j]
  <2>1. j \in 1 .. Len(b) /\ (j <= Len(g) <=> j <= MaxRekeyed) /\ DOMAIN b = 1 .. Len(b)
    BY <1>5, <1>6, <1>8
  <2>2. t[j] = IF j <= MaxRekeyed THEN [b[j] EXCEPT !.key = g[j].ret] ELSE b[j]
    BY <1>13, <1>14, <2>1
  <2> QED
    BY <1>8, <1>9, <2>2
<1>16. t = Rekeyings(s, g)
  <2>1. DOMAIN s = 1 .. n /\ DOMAIN t = 1 .. n
    <3>1. Len(s) = n /\ Len(t) = n /\ s \in Seq(Entries) /\ t \in Seq(Entries)
      BY <1>2, <1>5, <1>8, <1>14
    <3> QED
      BY <3>1
  <2>2. t = [j \in 1 .. n |-> t[j]]
    BY <1>14, <2>1
  <2> QED
    BY <1>15, <2>1, <2>2 DEF Rekeyings
<1>17. Leaves(op, g, s, t)
  BY <1>3, <1>16 DEF Leaves
<1> QED
  BY <1>1, <1>6, <1>17

(***************************************************************************)
(* What iterators and copying methods return.                              *)
(***************************************************************************)
\* An iterator whose block has left the hash alone stands where its name says.
Undisturbed ==
  loop \in Iterating /\ loop.changes = 0 /\ Unique(loop.whole, Id) => Follows(loop, loop.i, Live, Id)

LEMMA FollowsSame ==
  ASSUME NEW l, NEW d, d.op = l.op, d.seen = l.seen, d.whole = l.whole, d.n = l.n,
         NEW i, NEW t, NEW id, Follows(l, i, t, id)
  PROVE Follows(d, i, t, id)
BY Zenon DEF Follows

LEMMA NotedFacts ==
  ASSUME NEW L \in Iterating, NEW e \in Seen, NEW l, l = Noted(L, e)
  PROVE l.whole = L.whole /\ l.n = L.n /\ l.changes = L.changes /\ More(L.seen, e, l.seen)
<1>1. L.seen \in Seq(Seen)
  BY DEF Iterating
<1>2. PICK s : s = Append(L.seen, e)
  OBVIOUS
<1>3. l = [L EXCEPT !.seen = s]
  BY <1>2 DEF Noted
<1>4. l.whole = L.whole /\ l.n = L.n /\ l.changes = L.changes /\ l.seen = s
  BY <1>3 DEF Iterating
<1>5. More(L.seen, e, s)
  BY <1>1, <1>2, AppendMore
<1> QED
  BY <1>4, <1>5

\* The iterator goes to the entry at i, or ends there.
LEMMA ProceedResults ==
  ASSUME HashInv, NEW l \in Iterating, NEW i \in Nat, NEW m, Memory(m), NEW t, t = SubSeq(m.buf, 1, m.len),
         Follows(l, i, t, Id), Unique(l.whole, Id), Proceed(l, m, i), UNCHANGED mode,
         l.op = "transform_keys!" => m = mem /\ i <= l.n
  PROVE Undisturbed' /\ UndisturbedStep
<1>1. t \in Seq(Entries) /\ Len(t) = m.len
  BY MemoryFacts
<1>2. Id' = Id
  BY DEF Id
<1>3. CASE HasMore(l, m, i)
  <2>1. mem' = m /\ loop' = [l EXCEPT !.i = i] /\ last' = [op |-> "block", out |-> Self]
    BY <1>3 DEF Proceed
  <2>2. Live' = t
    BY <2>1 DEF Live
  <2>3. PICK d : d = [l EXCEPT !.i = i]
    OBVIOUS
  <2>4. d.op = l.op /\ d.seen = l.seen /\ d.whole = l.whole /\ d.n = l.n /\ d.i = i
    BY <2>3 DEF Iterating
  <2>5. Follows(d, i, t, Id)
    BY <2>4, FollowsSame
  <2>6. Follows(loop', loop'.i, Live', Id')
    BY <1>2, <2>1, <2>2, <2>3, <2>4, <2>5
  <2>7. d # NoLoop
    <3>1. l.op # NoLoop.op
      BY DEF Iterating, NoLoop, Visits, InPlace, Filters
    <3> QED
      BY <2>4, <3>1
  <2> QED
    BY <2>1, <2>3, <2>6, <2>7 DEF Undisturbed, UndisturbedStep
<1>4. CASE ~HasMore(l, m, i)
  <2>1. PICK o : o = Outcome(l.op, l.seen, FALSE)
    OBVIOUS
  <2>2. PICK w : w = IF l.op = "transform_keys!" THEN Rekeyed(l) ELSE m
    OBVIOUS
  <2>3. PICK u : u = SubSeq(w.buf, 1, w.len)
    OBVIOUS
  <2>4. /\ mem' = w /\ loop' = NoLoop
        /\ last'.op = l.op /\ last'.out = o /\ last'.seen = l.seen /\ last'.whole = l.whole
    <3>1. End(l, w, o)
      BY <1>4, <2>1, <2>2 DEF Proceed
    <3> QED
      BY <3>1, EndReports
  <2>5. Live' = u
    BY <2>3, <2>4 DEF Live
  <2>6. Len(l.seen) = Room(l.op, Len(l.whole)) /\ Leaves(l.op, l.seen, l.whole, u)
    <3>1. CASE l.op = "transform_keys!"
      <4>1. t = Live
        BY <3>1 DEF Live
      <4>2. w = Rekeyed(l) /\ i = l.n
        <5>1. l.n \in Nat /\ i <= l.n
          BY <3>1 DEF Iterating
        <5> QED
          BY <1>4, <2>2, <3>1, <5>1 DEF HasMore
      <4> QED
        BY <2>3, <3>1, <4>1, <4>2, FollowsRekeyed
    <3>2. CASE l.op # "transform_keys!"
      <4>1. w = m /\ ~(i < m.len)
        BY <1>4, <2>2, <3>2 DEF HasMore
      <4>2. u = t
        BY <2>3, <4>1
      <4>3. Len(l.seen) = Len(l.whole) /\ Leaves(l.op, l.seen, l.whole, t)
        BY <1>1, <3>2, <4>1, FollowsEnd
      <4>4. Room(l.op, Len(l.whole)) = Len(l.whole)
        <5>1. Len(l.whole) \in Nat
          BY DEF Iterating
        <5> QED
          BY <3>2, <5>1, RoomFacts
      <4> QED
        BY <4>2, <4>3, <4>4
    <3> QED
      BY <3>1, <3>2
  <2>7. PICK g, s, op : g = l.seen /\ s = l.whole /\ op = l.op
    OBVIOUS
  <2>8. /\ g \in Seq(Seen) /\ s \in Seq(Entries) /\ op \in Visits \cup InPlace
        /\ Given(g, s) /\ Going(op, g) /\ Counted(g)
    BY <2>7, FollowsFacts
  <2>9. Meant(op, o, s, g, u)
    BY <2>1, <2>6, <2>7, <2>8, MeantEnded
  <2>10. UndisturbedStep
    BY <2>4, <2>5, <2>7, <2>9, Zenon DEF UndisturbedStep
  <2>11. loop' \notin Iterating
    BY <2>4, LoopKinds
  <2> QED
    BY <2>10, <2>11 DEF Undisturbed
<1> QED
  BY <1>3, <1>4

\* An iterator whose block has changed the hash, or that began with two entries for one key, has
\* nothing to say.
LEMMA ProceedDisturbed ==
  ASSUME NEW l \in Iterating, NEW i, NEW m, Proceed(l, m, i), UNCHANGED mode,
         ~(l.changes = 0 /\ Unique(l.whole, Id))
  PROVE Undisturbed' /\ UndisturbedStep
<1>1. Id' = Id
  BY DEF Id
<1>2. CASE HasMore(l, m, i)
  <2>1. PICK d : d = [l EXCEPT !.i = i]
    OBVIOUS
  <2>2. loop' = d
    BY <1>2, <2>1 DEF Proceed
  <2>3. d.changes = l.changes /\ d.whole = l.whole /\ d.op = l.op
    BY <2>1 DEF Iterating
  <2>4. d # NoLoop
    <3>1. l.op # NoLoop.op
      BY DEF Iterating, NoLoop, Visits, InPlace, Filters
    <3> QED
      BY <2>3, <3>1
  <2>5. ~(loop'.changes = 0 /\ Unique(loop'.whole, Id'))
    BY <1>1, <2>2, <2>3
  <2> QED
    BY <2>2, <2>4, <2>5 DEF Undisturbed, UndisturbedStep
<1>3. CASE ~HasMore(l, m, i)
  <2>1. loop' = NoLoop /\ last'.whole = l.whole /\ (last'.clean <=> l.changes = 0)
    BY <1>3, EndReports DEF Proceed
  <2>2. ~(last'.clean /\ Unique(last'.whole, Id))
    BY <2>1
  <2>3. loop' \notin Iterating
    BY <2>1, LoopKinds
  <2> QED
    BY <2>2, <2>3 DEF Undisturbed, UndisturbedStep
<1> QED
  BY <1>2, <1>3

\* The last block ends the iterator.
LEMMA EndStopped ==
  ASSUME NEW l, NEW m, l.seen \in Seq(Seen), l.whole \in Seq(Entries),
         End(l, m, Outcome(l.op, l.seen, TRUE)),
         Len(l.seen) # 0, Stops(l.op, l.seen[Len(l.seen)].ret),
         l.changes = 0 /\ Unique(l.whole, Id) => Given(l.seen, l.whole)
  PROVE Undisturbed' /\ UndisturbedStep
<1>1. PICK o : o = Outcome(l.op, l.seen, TRUE)
  OBVIOUS
<1>2. /\ loop' = NoLoop /\ last'.op = l.op /\ last'.out = o /\ last'.seen = l.seen
      /\ last'.whole = l.whole /\ (last'.clean <=> l.changes = 0)
  BY <1>1, EndReports
<1>3. PICK g, s, op : g = l.seen /\ s = l.whole /\ op = l.op
  OBVIOUS
<1>4. ASSUME NEW t, l.changes = 0, Unique(l.whole, Id) PROVE Meant(op, o, s, g, t)
  BY <1>1, <1>3, <1>4, MeantStopped
<1>5. PICK t : t = Live'
  OBVIOUS
<1>6. UndisturbedStep
  BY <1>2, <1>3, <1>4, <1>5, Zenon DEF UndisturbedStep
<1>7. loop' \notin Iterating
  BY <1>2, LoopKinds
<1> QED
  BY <1>6, <1>7 DEF Undisturbed

LEMMA BlockReturnsResults ==
  ASSUME HashInv, Undisturbed, NEW r, r \in Returns(loop.op), BlockReturns(r)
  PROVE Undisturbed' /\ UndisturbedStep /\ Stepped
<1>1. PICK L : L = loop
  OBVIOUS
<1>2. PICK M : M = mem
  OBVIOUS
<1>3. PICK slot : slot = M.buf[L.i + 1]
  OBVIOUS
<1>4. PICK e : e = [key |-> slot.key, val |-> slot.val, ret |-> r]
  OBVIOUS
<1>5. PICK l : l = Noted(L, e)
  OBVIOUS
<1>6. Noting(r, L, M, slot, e, l)
  BY <1>1, <1>2, <1>3, <1>4, <1>5 DEF Noting
<1>7. /\ UNCHANGED <<mode, default, environ>> /\ Stands(L, mem)
      /\ L.op = "transform_values!" => r \in Values
      /\ e \in Seen /\ l \in Iterating /\ l.op = L.op /\ l.i = L.i /\ l.i \in Nat
      /\ l.seen = Append(L.seen, e)
  BY <1>6, ReturnFacts
<1>8. Resumed(l, r, slot)
  BY <1>6, ReturnFacts
<1>9. /\ M \in [buf : Seq(Entries), len : Nat] /\ M.buf \in Seq(Entries) /\ Memory(M)
      /\ M.len \in Nat /\ Len(M.buf) \in Nat /\ M.len <= Len(M.buf) /\ Len(M.buf) <= MaxLen
  BY <1>6, ReturnFacts
<1>10. L \in Iterating /\ (L.changes = 0 => L.i < M.len)
  BY <1>2, <1>7 DEF Stands
<1>11. l.whole = L.whole /\ l.n = L.n /\ l.changes = L.changes /\ More(L.seen, e, l.seen)
  BY <1>5, <1>7, <1>10, NotedFacts
<1>12. Stepped
  <2>1. loop' = NoLoop \/ loop'.seen = l.seen
    <3>1. \A m, i, o : End(l, m, o) => loop' = NoLoop
      BY DEF End
    <3>2. \A m, i : Proceed(l, m, i) => loop' = NoLoop \/ loop'.seen = l.seen
      BY <1>7, <3>1 DEF Proceed, Iterating
    <3> QED
      BY <1>8, <3>1, <3>2, Zenon DEF Resumed
  <2> QED
    BY <1>1, <1>7, <1>10, <2>1, SeenMore
<1>13. PICK v : v = Live
  OBVIOUS
<1>14. v \in Seq(Entries) /\ Len(v) = M.len /\ \A j \in 1 .. M.len : v[j] = M.buf[j]
  BY <1>2, <1>13, LiveFacts
<1>15. e.key = slot.key /\ e.val = slot.val /\ e.ret = r
  BY <1>4
<1>16. ASSUME l.changes = 0, Unique(l.whole, Id)
       PROVE /\ Follows(L, L.i, v, Id) /\ L.i < Len(v)
             /\ e.key = v[L.i + 1].key /\ e.val = v[L.i + 1].val
  <2>1. Follows(L, L.i, v, Id)
    BY <1>1, <1>10, <1>11, <1>13, <1>16 DEF Undisturbed
  <2>2. L.i < Len(v) /\ L.i + 1 \in 1 .. M.len
    BY <1>7, <1>9, <1>10, <1>11, <1>14, <1>16
  <2>3. v[L.i + 1] = slot
    BY <1>3, <1>14, <2>2
  <2> QED
    BY <1>15, <2>1, <2>2, <2>3
<1>17. CASE Stops(l.op, r)
  <2>1. End(l, mem, Outcome(l.op, l.seen, TRUE))
    BY <1>8, <1>17, Zenon DEF Resumed
  <2>2. L.seen \in Seq(Seen) /\ l.seen \in Seq(Seen) /\ L.whole \in Seq(Entries)
    BY <1>7, <1>10 DEF Iterating
  <2>3. Len(l.seen) # 0 /\ l.seen[Len(l.seen)] = e
    <3>1. Len(l.seen) = Len(L.seen) + 1 /\ l.seen[Len(L.seen) + 1] = e /\ Len(L.seen) \in Nat
      BY <1>11, <2>2 DEF More
    <3> QED
      BY <3>1
  <2>4. ASSUME l.changes = 0, Unique(l.whole, Id) PROVE Given(l.seen, L.whole)
    <3>1. PICK k : k = Len(L.seen)
      OBVIOUS
    <3>2. k < Len(L.whole) /\ v[L.i + 1].key = L.whole[k + 1].key /\ v[L.i + 1].val = L.whole[k + 1].val
      <4>1. L.i \in Nat /\ v \in Seq(Entries) /\ L \in Iterating
        BY <1>7, <1>10, <1>14
      <4>2. Follows(L, L.i, v, Id) /\ L.i < Len(v)
        BY <1>16, <2>4
      <4>3. PICK i : i = L.i
        OBVIOUS
      <4>4. /\ i \in Nat /\ Follows(L, i, v, Id) /\ i < Len(v)
        BY <4>1, <4>2, <4>3
      <4>5. k < Len(L.whole) /\ v[i + 1].key = L.whole[k + 1].key /\ v[i + 1].val = L.whole[k + 1].val
        BY <3>1, <4>1, <4>4, FollowsSlot
      <4> QED
        BY <4>3, <4>5
    <3>3. Given(L.seen, L.whole)
      BY <1>16, <2>4 DEF Follows
    <3>4. e.key = L.whole[Len(L.seen) + 1].key /\ e.val = L.whole[Len(L.seen) + 1].val
          /\ Len(L.seen) < Len(L.whole)
      BY <1>16, <2>4, <3>1, <3>2
    <3> QED
      BY <1>7, <1>11, <2>2, <3>3, <3>4, GivenNext
  <2>5. Stops(l.op, l.seen[Len(l.seen)].ret)
    BY <1>15, <1>17, <2>3
  <2> QED
    BY <1>11, <1>12, <2>1, <2>2, <2>3, <2>4, <2>5, EndStopped
<1>18. CASE ~Stops(l.op, r) /\ ~(l.changes = 0 /\ Unique(l.whole, Id))
  <2>1. \E m, i : Proceed(l, m, i)
    BY <1>8, <1>18, Zenon DEF Resumed
  <2> QED
    BY <1>7, <1>12, <1>18, <2>1, ProceedDisturbed
<1>19. CASE ~Stops(l.op, r) /\ l.changes = 0 /\ Unique(l.whole, Id)
  <2>1. Advanced(L, e, l)
    <3>1. e.ret \in Returns(L.op) /\ ~Stops(L.op, e.ret)
      BY <1>1, <1>7, <1>15, <1>19
    <3> QED
      BY <1>7, <1>10, <1>11, <3>1 DEF Advanced
  <2>2. Fed(L, e, l, L.i, v, Id)
    BY <1>7, <1>14, <1>16, <1>19, <2>1 DEF Fed
  <2>3. CASE Dropped(l.op, r)
    <3>1. PICK t : t = Without(v, slot.key, Id)
      OBVIOUS
    <3>2. t \in Seq(Entries) /\ Follows(l, L.i, t, Id)
      BY <1>7, <1>15, <2>2, <2>3, <3>1, FollowsDropped
    <3>3. Len(t) <= MaxLen
      <4>1. Len(t) <= Len(v) /\ Len(t) \in Nat
        BY <1>14, <3>1, <3>2, WithoutFacts
      <4>2. MaxLen \in Nat
        BY LiveFacts
      <4> QED
        BY <1>9, <1>14, <4>1, <4>2
    <3>4. PICK m : m = Rewrite(t)
      OBVIOUS
    <3>5. Memory(m) /\ t = SubSeq(m.buf, 1, m.len)
      BY <3>2, <3>3, <3>4, RewriteFacts
    <3>6. Proceed(l, m, L.i)
      BY <1>7, <1>8, <1>13, <1>19, <2>3, <3>1, <3>4 DEF Resumed
    <3>7. l.op # "transform_keys!"
      BY <2>3 DEF Dropped
    <3> QED
      BY <1>7, <1>12, <1>19, <3>2, <3>5, <3>6, <3>7, ProceedResults
  <2>4. CASE ~Dropped(l.op, r) /\ l.op = "transform_values!"
    <3>1. PICK b : b = Valued(M.buf, L.i + 1, r)
      OBVIOUS
    <3>2. PICK m : m = [M EXCEPT !.buf = b]
      OBVIOUS
    <3>3. L.i \in Nat /\ L.i + 1 \in 1 .. Len(M.buf) /\ L.i + 1 \in 1 .. M.len /\ L.i + 1 \in Nat
      BY <1>7, <1>9, <1>10, <1>11, <1>19
    <3>4. Revalued(M.buf, b, L.i + 1, r)
      BY <1>7, <1>9, <2>4, <3>1, <3>3, ValueStored
    <3>5. b \in Seq(Entries) /\ Len(b) = Len(M.buf)
          /\ \A j \in 1 .. Len(M.buf) :
                b[j].key = M.buf[j].key /\ b[j].val = IF j = L.i + 1 THEN r ELSE M.buf[j].val
      BY <3>4 DEF Revalued
    <3>6. m.buf = b /\ m.len = M.len /\ Memory(m)
      BY <1>9, <3>2, <3>5 DEF Memory
    <3>7. PICK t : t = SubSeq(m.buf, 1, m.len)
      OBVIOUS
    <3>8. t \in Seq(Entries) /\ Len(t) = M.len /\ \A j \in 1 .. M.len : t[j] = b[j]
      <4>1. t \in Seq(Entries) /\ Len(t) = m.len /\ \A j \in 1 .. m.len : t[j] = m.buf[j]
        BY <3>6, <3>7, MemoryFacts
      <4> QED
        BY <3>6, <4>1
    <3>9. Revalued(v, t, L.i + 1, e.ret)
      <4>1. \A j \in 1 .. M.len : j \in 1 .. Len(M.buf)
        BY <1>9
      <4>2. \A j \in 1 .. M.len : t[j].key = v[j].key /\ t[j].val = IF j = L.i + 1 THEN r ELSE v[j].val
        BY <1>14, <3>5, <3>8, <4>1
      <4> QED
        BY <1>14, <1>15, <3>3, <3>8, <4>2 DEF Revalued
    <3>10. Follows(l, L.i + 1, t, Id)
      BY <1>7, <2>2, <2>4, <3>9, FollowsValued
    <3>11. Proceed(l, m, L.i + 1)
      BY <1>2, <1>7, <1>8, <1>19, <2>4, <3>1, <3>2 DEF Resumed, Valued
    <3> QED
      BY <1>7, <1>12, <1>19, <2>4, <3>3, <3>6, <3>7, <3>10, <3>11, ProceedResults
  <2>5. CASE ~Dropped(l.op, r) /\ l.op # "transform_values!"
    <3>1. Follows(l, L.i + 1, v, Id)
      BY <1>7, <1>15, <2>2, <2>5, FollowsKept
    <3>2. Proceed(l, M, L.i + 1)
      BY <1>2, <1>7, <1>8, <1>19, <2>5 DEF Resumed
    <3>3. v = SubSeq(M.buf, 1, M.len) /\ L.i + 1 \in Nat
      BY <1>2, <1>7, <1>13 DEF Live
    <3>4. l.op = "transform_keys!" => L.i + 1 <= l.n
      <4>1. L.i \in Nat /\ L.n \in Nat /\ (L.op = "transform_keys!" => L.i < L.n)
        BY <1>7, <1>10 DEF Stands, Iterating
      <4> QED
        BY <1>7, <1>11, <4>1
    <3> QED
      BY <1>2, <1>7, <1>9, <1>12, <1>19, <3>1, <3>2, <3>3, <3>4, ProceedResults
  <2> QED
    BY <2>3, <2>4, <2>5
<1> QED
  BY <1>17, <1>18, <1>19

\* A step beside the iterator leaves it, or makes a note that its block has changed the hash.
Beside ==
  \/ loop' = loop /\ mem' = mem /\ Id' = Id
  \/ loop' = Disturbed

LEMMA BesideResults ==
  ASSUME HashInv, Undisturbed, Beside
  PROVE Undisturbed' /\ UndisturbedStep
<1>1. UndisturbedStep
  BY DEF UndisturbedStep, Stepped, Beside
<1>2. CASE loop' = loop /\ mem' = mem /\ Id' = Id
  <2>1. Live' = Live
    BY <1>2 DEF Live
  <2> QED
    BY <1>1, <1>2, <2>1, Zenon DEF Undisturbed
<1>3. CASE loop' = Disturbed
  <2>1. CASE loop = NoLoop
    <3>1. loop' = NoLoop
      BY <1>3, <2>1 DEF Disturbed
    <3>2. loop' \notin Iterating
      BY <3>1, LoopKinds
    <3> QED
      BY <1>1, <3>2 DEF Undisturbed
  <2>2. CASE loop # NoLoop
    <3>1. PICK l : l = loop
      OBVIOUS
    <3>2. l \in Merging \/ l \in Iterating
      BY <2>2, <3>1 DEF HashInv, Iterator, Stands
    <3>3. PICK c : c = l.changes
      OBVIOUS
    <3>4. c \in Nat /\ c + 1 \in Nat /\ c + 1 # 0
      BY <3>2, <3>3 DEF Merging, Iterating
    <3>5. PICK d : d = [l EXCEPT !.changes = c + 1]
      OBVIOUS
    <3>6. loop' = d
      BY <1>3, <2>2, <3>1, <3>3, <3>5 DEF Disturbed
    <3>7. d.changes = c + 1
      <4>1. CASE l \in Merging
        BY <3>5, <4>1 DEF Merging
      <4>2. CASE l \in Iterating
        BY <3>5, <4>2 DEF Iterating
      <4> QED
        BY <3>2, <4>1, <4>2
    <3>8. loop'.changes # 0
      BY <3>4, <3>6, <3>7
    <3> QED
      BY <1>1, <3>8 DEF Undisturbed
  <2> QED
    BY <2>1, <2>2
<1> QED
  BY <1>2, <1>3 DEF Beside

LEMMA AnswerBeside ==
  ASSUME UNCHANGED <<mem, mode, default, environ, loop>>
  PROVE Beside
BY DEF Beside, Id

LEMMA ChangeBeside ==
  ASSUME NEW op, NEW m, NEW env, NEW out, Change(op, m, env, out)
  PROVE Beside
BY AnswerBeside DEF Change, Answer, Beside

LEMMA FlagBeside ==
  ASSUME HashInv, NEW b, mode' = [mode EXCEPT !.frozen = b], UNCHANGED <<mem, default, environ>>,
         loop' = loop
  PROVE Beside
<1>1. mode'.identity = mode.identity
  BY DEF HashInv, Flags
<1> QED
  BY <1>1 DEF Beside, Id

LEMMA MutateBeside ==
  ASSUME HashInv, Mutate
  PROVE Beside
<1>1. CASE \E k \in Keys : Delete(k)
  BY <1>1, ChangeBeside DEF Delete
<1>2. CASE \E k \in Keys, v \in Values : Store(k, v)
  BY <1>2, ChangeBeside DEF Store
<1>3. CASE \E o \in Others : MergeBang(o)
  BY <1>3, ChangeBeside DEF MergeBang
<1>4. CASE \E o \in Others, id \in BOOLEAN : Replace(o, id)
  BY <1>4, AnswerBeside DEF Replace, Answer, Beside
<1>5. CASE Clear
  BY <1>5, ChangeBeside DEF Clear
<1>6. CASE CompactBang
  <2>1. PICK out : out = IF Filled(Live) # Live THEN Self ELSE Val(Nil)
    OBVIOUS
  <2> QED
    BY <1>6, <2>1, ChangeBeside DEF CompactBang
<1>7. CASE Freeze
  BY <1>7, FlagBeside DEF Freeze
<1>8. CASE CompareByIdentity
  BY <1>8, AnswerBeside DEF CompareByIdentity, Answer, Beside
<1>9. CASE Rehash
  BY <1>9, AnswerBeside DEF Rehash, Answer
<1>10. ASSUME NEW op, NEW d, SetDefault(op, d) PROVE Beside
  <2>1. UNCHANGED <<mem, mode, loop>>
    BY <1>10 DEF SetDefault, Answer
  <2> QED
    BY <2>1 DEF Beside, Id
<1>11. CASE \E v \in Values : DefaultAssign(v)
  BY <1>10, <1>11 DEF DefaultAssign
<1>12. CASE \E b \in BOOLEAN : DefaultProcAssign(b)
  BY <1>10, <1>12 DEF DefaultProcAssign
<1> QED
  BY <1>1, <1>2, <1>3, <1>4, <1>5, <1>6, <1>7, <1>8, <1>9, <1>11, <1>12 DEF Mutate

\* An iterator begins where its name says.
LEMMA StartLoopResults ==
  ASSUME HashInv, NEW op \in Visits \cup InPlace, StartLoop(op)
  PROVE Undisturbed' /\ UndisturbedStep
<1>1. loop = NoLoop /\ UNCHANGED mode
  BY DEF StartLoop
<1>2. UndisturbedStep /\ Id' = Id
  BY <1>1 DEF UndisturbedStep, Stepped, Id
<1>3. CASE loop' = NoLoop
  <2>1. loop' \notin Iterating
    BY <1>3, LoopKinds
  <2> QED
    BY <1>2, <2>1 DEF Undisturbed
<1>4. CASE loop' # NoLoop
  <2>1. PICK m : m = mem
    OBVIOUS
  <2>2. PICK l : l = [op |-> op, i |-> 0, n |-> Room(op, mem.len), seen |-> <<>>,
                     changes |-> 0, whole |-> Live]
    OBVIOUS
  <2>3. Proceed(l, m, 0)
    BY <1>1, <1>4, <2>1, <2>2 DEF StartLoop
  <2>4. mem' = m /\ loop' = [l EXCEPT !.i = 0]
    BY <1>4, <2>3 DEF Proceed, End
  <2>5. PICK d : d = [l EXCEPT !.i = 0]
    OBVIOUS
  <2>6. PICK s : s = Live
    OBVIOUS
  <2>7. s \in Seq(Entries) /\ Len(s) = mem.len
    BY <2>6, LiveFacts
  <2>8. d.seen = <<>> /\ d.whole = s /\ d.n = Room(d.op, Len(s)) /\ d.i = 0
    BY <2>2, <2>5, <2>6, <2>7
  <2>9. PICK id : id = Id
    OBVIOUS
  <2>10. Unique(s, id) => Follows(d, 0, s, id)
    BY <2>7, <2>8, FollowsStart
  <2>11. Live' = s /\ Id' = id /\ loop' = d
    BY <1>2, <2>1, <2>4, <2>5, <2>6, <2>9 DEF Live
  <2> QED
    BY <1>2, <2>8, <2>10, <2>11 DEF Undisturbed
<1> QED
  BY <1>3, <1>4

\* merge! and a block that leaves end no iterator with a result.
LEMMA NoResult ==
  ASSUME loop' \notin Iterating, NEW op, NEW out, last' = [op |-> op, out |-> out]
  PROVE Undisturbed' /\ UndisturbedStep
<1>1. "seen" \notin DOMAIN last'
  OBVIOUS
<1> QED
  BY <1>1 DEF Undisturbed, UndisturbedStep

LEMMA MergeOnResults ==
  ASSUME NEW t, NEW rest, NEW changes, MergeOn(t, rest, changes)
  PROVE Undisturbed' /\ UndisturbedStep
<1>1. PICK clash : clash = SelectInSeq(rest, LAMBDA e : Has(t, e.key, Id))
  OBVIOUS
<1>2. PICK l : l = [op |-> "merge!", rest |-> SubSeq(rest, clash, Len(rest)), changes |-> changes]
  OBVIOUS
<1>3. /\ loop' = NoLoop \/ loop' = l
      /\ \E op : last' = [op |-> op, out |-> Self]
  BY <1>1, <1>2 DEF MergeOn
<1>4. l \notin Iterating
  <2>1. l.op = "merge!"
    BY <1>2
  <2> QED
    BY <2>1, LoopKinds
<1>5. loop' \notin Iterating
  BY <1>3, <1>4, LoopKinds
<1> QED
  BY <1>3, <1>5, NoResult

\* A step that returns no table, or one that a name promises.
LEMMA DerivedSuffices ==
  ASSUME Stepped \/ Plain(last'.out) \/ (Unique(Live, Id) => Plain(last'.out) \/ DerivedOut)
  PROVE DerivedStep
BY Zenon DEF DerivedStep, DerivedOut, Plain

LEMMA NextResults ==
  ASSUME HashInv, Undisturbed, Next
  PROVE Undisturbed' /\ UndisturbedStep /\ DerivedStep
<1>1. CASE Mutate
  BY <1>1, MutateBeside, BesideResults, MutatePlain, DerivedSuffices
<1>2. CASE Query
  <2>1. UNCHANGED <<mem, mode, default, environ, loop>>
    BY <1>2, Zenon DEF Query, Answer, Lookup, Fetch, HasKey, DefaultFor, Assoc, HasValue, Key, RAssoc,
               ValuesAt, FetchValues, Slice, Except, Merge, KeysOf, ValuesOf, ToA, Size, Dup,
               Compact, Invert
  <2> QED
    BY <1>2, <2>1, AnswerBeside, BesideResults, QueryDerived, DerivedSuffices
<1>3. CASE \E op \in Visits \cup InPlace : StartLoop(op)
  BY <1>3, StartLoopResults, StartLoopDerived, DerivedSuffices
<1>4. CASE \E o \in Others : StartMerge(o)
  <2>1. CASE mode.frozen
    <3>1. loop' = loop /\ mem' = mem /\ UNCHANGED mode /\ last'.out = Raised("FrozenError")
      BY <1>4, <2>1 DEF StartMerge
    <3>2. Beside /\ Plain(last'.out)
      BY <3>1, PlainKinds DEF Beside, Id
    <3> QED
      BY <3>2, BesideResults, DerivedSuffices
  <2>2. CASE ~mode.frozen
    <3>1. \E o \in Others : MergeOn(Live, o, 0)
      BY <1>4, <2>2 DEF StartMerge
    <3> QED
      BY <3>1, MergeOnResults, MergeOnPlain, DerivedSuffices
  <2> QED
    BY <2>1, <2>2
<1>5. CASE \E r \in Returns(loop.op) : BlockReturns(r)
  BY <1>5, BlockReturnsResults, DerivedSuffices
<1>6. CASE \E r \in Values : MergeReturns(r)
  <2>1. \E t, rest, changes : MergeOn(t, rest, changes)
    BY <1>6, Zenon DEF MergeReturns
  <2> QED
    BY <2>1, MergeOnResults, MergeOnPlain, DerivedSuffices
<1>7. CASE BlockLeaves
  <2>1. PICK op : op = loop.op
    OBVIOUS
  <2>2. loop' = NoLoop /\ last' = [op |-> op, out |-> [k |-> "left"]]
    BY <1>7, <2>1 DEF BlockLeaves
  <2>3. loop' \notin Iterating
    BY <2>2, LoopKinds
  <2>4. Plain(last'.out)
    BY <2>2 DEF Plain
  <2> QED
    BY <2>2, <2>3, <2>4, NoResult, DerivedSuffices
<1> QED
  BY <1>1, <1>2, <1>3, <1>4, <1>5, <1>6, <1>7 DEF Next, Iterate

LEMMA UndisturbedHolds == Spec => []Undisturbed
<1>1. Init => Undisturbed
  <2>1. NoLoop \notin Iterating
    BY LoopKinds
  <2> QED
    BY <2>1 DEF Init, Undisturbed
<1>2. HashInv /\ Undisturbed /\ [Next]_vars => Undisturbed'
  <2>1. HashInv /\ Undisturbed /\ Next => Undisturbed'
    BY NextResults
  <2>2. Undisturbed /\ UNCHANGED vars => Undisturbed'
    BY DEF vars, Undisturbed, Live, Id
  <2> QED
    BY <2>1, <2>2
<1> QED
  BY HashInvCorrect, <1>1, <1>2, PTL DEF Spec

\* An iterator whose block leaves the hash alone returns what its name says, and so does each
\* method that makes a hash of this one.
THEOREM HashResultsCorrect == Spec => ResultsRight
<1>1. HashInv /\ Undisturbed /\ [Next]_vars => [UndisturbedStep]_vars /\ [DerivedStep]_vars
  BY NextResults
<1> QED
  BY HashInvCorrect, UndisturbedHolds, <1>1, PTL DEF Spec, ResultsRight, UndisturbedResult, DerivedRight
=============================================================================
