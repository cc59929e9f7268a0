------------------------------ MODULE MCLookup ------------------------------
(***************************************************************************)
(* A class with one superclass, two modules and one object of the lower    *)
(* class, which is written inside the upper one.  Besides the empty world, *)
(* every hierarchy of up to MaxLinks inclusions and class methods f is a   *)
(* start, with any of the methods f already there: states a program        *)
(* reaches by plain definitions, from which MaxSize then lets only small   *)
(* worlds grow.                                                            *)
(***************************************************************************)
EXTENDS Lookup, TLC
CONSTANTS A, B, M, N, f, g, MaxLinks

MCClasses == {A, B}
MCModules == {M, N}
MCDefined == {f}
MCAliases == {g}
MCSuperclass == (A :> Nil) @@ (B :> A)
MCOuter == [k \in MCClasses \union MCModules |-> IF k = B THEN A ELSE Nil]
Alike == Permutations({M, N})

\* target and mode are read in an open body only, and opening one sets both.
Open(k) == \E i \in DOMAIN bodies : bodies[i].of = k
View == <<own, selfs, included, prepended, extended, single, mixed, top, bodies,
          {k \in Kinds : Open(k) /\ target[k]}, [k \in {x \in Kinds : Open(x)} |-> mode[k]]>>

NoLinks == [list \in {"inc", "pre", "ext"} |-> [k \in Kinds |-> <<>>]]
Linked(h) ==
    {[h EXCEPT ![list][k] = <<m>> \o @] :
        list \in {"inc", "pre", "ext"}, k \in Classes, m \in Modules}
    \union {[h EXCEPT ![list][M] = <<N>> \o @] : list \in {"inc", "pre"}}
RECURSIVE Hierarchies(_)
Hierarchies(n) == IF n = 0 THEN {NoLinks}
                  ELSE Hierarchies(n - 1) \union UNION {Linked(h) : h \in Hierarchies(n - 1)}
OnlyF(k, ks) == IF k \in ks THEN [NoMethods EXCEPT ![f] = "public"] ELSE NoMethods
MCInit ==
    /\ \E ks \in SUBSET Classes :
          /\ selfs = [k \in Kinds |-> OnlyF(k, ks)]
          /\ \E h \in Hierarchies(MaxLinks - Cardinality(ks)) :
                included = h["inc"] /\ prepended = h["pre"] /\ extended = h["ext"]
    /\ \E ks \in SUBSET Kinds : own = [k \in Kinds |-> OnlyF(k, ks)]
    /\ single = NoMethods /\ mixed = <<>> /\ top = {} /\ bodies = <<>>
    /\ target = [k \in Kinds |-> FALSE] /\ mode = [k \in Kinds |-> "public"]
MCSpec == MCInit /\ [][Next]_vars
=============================================================================
