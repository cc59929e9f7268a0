------------------------------ MODULE Patterns ------------------------------
(***************************************************************************)
(* case ... in: match_pattern, match_array_pattern, match_hash_pattern and *)
(* NODE_PATCASE.  A value is [num |-> i], [elems |-> a sequence of values] *)
(* or [pairs |-> a function from keys to values].  Patterns are            *)
(*   [lit |-> i]  [pin |-> name]  [name |-> n, sub |-> p or Wild]           *)
(*   [left |-> p, right |-> q]                                             *)
(*   [elements |-> a sequence of patterns, pre, post |-> a splat]           *)
(*   [keys |-> a function from keys to patterns, others |-> a splat]       *)
(* where a splat is NoSplat, Anonymous or a name.  The names of a pattern  *)
(* are distinct, but for the two sides of an alternative.                  *)
(***************************************************************************)
EXTENDS Integers, FiniteSets, SequencesExt, Calls

CONSTANTS MaxElems  \* bound on the length of the arrays that are matched

ASSUME PatternsAssumption == MaxElems \in Nat

Num(i) == [num |-> i]
Arr(s) == [elems |-> s]
PairsOf(f) == [pairs |-> f]
IsArr(v) == "elems" \in DOMAIN v
IsPairs(v) == "pairs" \in DOMAIN v

Wild == [wild |-> "_"]
NoSplat == "no splat"
Anonymous == "*"
Splats == {NoSplat, Anonymous}

Has(p, kind) == kind \in DOMAIN p
Capture(n) == [name |-> n, sub |-> Wild]
ArrPattern(ps, pre, post) == [elements |-> ps, pre |-> pre, post |-> post]

\* env_define: a name has a value, a new one in place of an old.
Define(env, n, v) ==
    IF n \in Splats THEN env ELSE [x \in DOMAIN env \cup {n} |-> IF x = n THEN v ELSE env[x]]
Into(env, more) ==
    [x \in DOMAIN env \cup DOMAIN more |-> IF x \in DOMAIN more THEN more[x] ELSE env[x]]
EmptyEnv == [x \in {} |-> Wild]

Yes(env) == [ok |-> TRUE, env |-> env]
No(env) == [ok |-> FALSE, env |-> env]

-----------------------------------------------------------------------------
(***************************************************************************)
(* Matching: what is bound before a part fails stays bound.  `outer` is    *)
(* the scope of the case, where ^name is looked up.                        *)
(***************************************************************************)
RECURSIVE Match(_, _, _, _), MatchEach(_, _, _, _)

\* The values vs against the patterns ps, one by one.
MatchEach(outer, env, vs, ps) ==
    LET first == Match(outer, env, Head(vs), Head(ps))
    IN  IF ps = <<>> THEN Yes(env)
        ELSE IF first.ok THEN MatchEach(outer, first.env, Tail(vs), Tail(ps)) ELSE first

\* [*, p, q, *]: the first place where the patterns fit, each tried with
\* bindings of its own.
MatchFind(outer, env, s, p) ==
    LET n == Len(p.elements)
        try(at) == MatchEach(outer, EmptyEnv, SubSeq(s, at + 1, at + n), p.elements)
        places == {at \in 0 .. Len(s) - n : try(at).ok}
        at == Min(places)
        pre == Define(Into(env, try(at).env), p.pre, Arr(SubSeq(s, 1, at)))
    IN  IF places = {} THEN No(env)
        ELSE Yes(Define(pre, p.post, Arr(SubSeq(s, at + n + 1, Len(s)))))

\* [p, q] and [p, q, *].  Two splats with nothing between match nothing.
MatchPrefix(outer, env, s, p) ==
    LET n == Len(p.elements)
        m == MatchEach(outer, env, SubSeq(s, 1, n), p.elements)
    IN  IF n > Len(s) \/ (p.post = NoSplat /\ n # Len(s)) THEN No(env)
        ELSE IF m.ok THEN Yes(Define(m.env, p.post, Arr(SubSeq(s, n + 1, Len(s))))) ELSE m

\* [*, p, q]
MatchSuffix(outer, env, s, p) ==
    LET at == Len(s) - Len(p.elements)
        m == MatchEach(outer, env, SubSeq(s, at + 1, Len(s)), p.elements)
    IN  IF at < 0 THEN No(env)
        ELSE IF m.ok THEN Yes(Define(m.env, p.pre, Arr(SubSeq(s, 1, at)))) ELSE m

MatchArray(outer, env, v, p) ==
    IF ~IsArr(v) THEN No(env)
    ELSE IF p.pre = NoSplat THEN MatchPrefix(outer, env, v.elems, p)
    ELSE IF p.post = NoSplat THEN MatchSuffix(outer, env, v.elems, p)
    ELSE IF p.elements = <<>> THEN No(env)
    ELSE MatchFind(outer, env, v.elems, p)

\* A missing key is no match, but for the short form {key:}, which then leaves
\* its name unbound.  More keys than the pattern has are no objection.
MatchHash(outer, env, v, p) ==
    LET short(k) == p.keys[k].of = Capture(k)
        ks == SetToSeq(DOMAIN p.keys)
        asked == SelectSeq(ks, LAMBDA k : k \in DOMAIN v.pairs)
        m == MatchEach(outer, env, [i \in DOMAIN asked |-> v.pairs[asked[i]]],
                                   [i \in DOMAIN asked |-> p.keys[asked[i]].of])
        left == [k \in DOMAIN v.pairs \ DOMAIN p.keys |-> v.pairs[k]]
    IN  IF ~IsPairs(v) THEN No(env)
        ELSE IF \E k \in DOMAIN p.keys \ DOMAIN v.pairs : ~short(k) THEN No(env)
        ELSE IF m.ok THEN Yes(Define(m.env, p.others, PairsOf(left))) ELSE m

\* The right side is tried with what a failed left side has bound.
MatchEither(outer, env, v, p) ==
    LET left == Match(outer, env, v, p.left)
    IN  IF left.ok THEN left ELSE Match(outer, left.env, v, p.right)

Match(outer, env, v, p) ==
    CASE Has(p, "wild") -> Yes(env)
      [] Has(p, "lit") -> IF v = Num(p.lit) THEN Yes(env) ELSE No(env)
      [] Has(p, "pin") -> IF p.pin \in DOMAIN outer /\ outer[p.pin] = v THEN Yes(env) ELSE No(env)
      [] Has(p, "name") -> LET m == Match(outer, env, v, p.sub)
                          IN  IF m.ok THEN Yes(Define(m.env, p.name, v)) ELSE m
      [] Has(p, "left") -> MatchEither(outer, env, v, p)
      [] Has(p, "elements") -> MatchArray(outer, env, v, p)
      [] Has(p, "keys") -> MatchHash(outer, env, v, p)

-----------------------------------------------------------------------------
(***************************************************************************)
(* The clauses of a case: [in |-> a pattern, guard |-> "none", "true",     *)
(* "false" or "raises"].                                                   *)
(***************************************************************************)
\* Mutant of Attempt: a clause starts with what the one before it has bound.
AttemptShared(scope, before, v, c) == Match(scope, before, v, c.in)

Attempt(scope, before, v, c) == Match(scope, EmptyEnv, v, c.in)

\* The clause that is taken, 0 for none; the scope afterwards; and whether the
\* error of a guard is still in the exception registers: a guard that raises is
\* taken for one that is false.
CaseIn(scope, v, cs) ==
    LET try(acc, i) ==
            LET m == Attempt(scope, acc.env, v, cs[i])
            IN  IF acc.taken # 0 THEN acc
                ELSE IF m.ok /\ cs[i].guard \in {"none", "true"}
                     THEN [acc EXCEPT !.taken = i, !.env = m.env]
                     ELSE [acc EXCEPT !.env = m.env,
                                      !.pending = @ \/ (m.ok /\ cs[i].guard = "raises")]
        end == FoldLeft(try, [taken |-> 0, env |-> EmptyEnv, pending |-> FALSE],
                        [i \in DOMAIN cs |-> i])
    IN  [taken |-> end.taken, pending |-> end.pending,
         scope |-> IF end.taken = 0 THEN scope ELSE Into(scope, end.env)]

-----------------------------------------------------------------------------
Outer == [o |-> Num(1)]
Leaf(n) == {[lit |-> 1], [pin |-> "o"], Capture(n),
            [left |-> [lit |-> 1], right |-> [lit |-> 2]]}
Nested == {ArrPattern(<<Capture("y"), [lit |-> 2]>>, NoSplat, NoSplat),
           [left |-> ArrPattern(<<Capture("y"), [lit |-> 1]>>, NoSplat, NoSplat),
            right |-> ArrPattern(<<[lit |-> 2], Capture("z")>>, NoSplat, NoSplat)]}
ElementLists == {<<>>} \cup {<<p>> : p \in Leaf("x") \cup Nested}
    \cup {<<p, q>> : p \in Leaf("x"), q \in Leaf("y") \cup Nested}
Pats == {ArrPattern(s, pre, post) : s \in ElementLists, pre \in Splats \cup {"p"}, post \in Splats \cup {"q"}}
HashPats ==
    {[keys |-> f, others |-> sp] :
        f \in {[k \in {"k"} |-> [of |-> p]] : p \in Leaf("k")}
           \cup {[k \in {"k", "l"} |-> [of |-> IF k = "k" THEN p ELSE q]] :
                     p \in Leaf("k"), q \in Leaf("l") \cup Nested},
        sp \in Splats \cup {"q"}}

Nums == {Num(1), Num(2)}
Items == Nums \cup {Arr(<<a, b>>) : a \in Nums, b \in Nums}
ArrValues == {Arr(s) : s \in BoundedSeq(Nums, MaxElems) \cup BoundedSeq(Items, 2)}
HashValues == {PairsOf([k \in S |-> f[k]]) : S \in SUBSET {"k", "l", "m"},
                                          f \in [{"k", "l", "m"} -> Nums \cup {Arr(<<Num(2), Num(1)>>)}]}
Clauses == [in : {ArrPattern(<<Capture("x"), [lit |-> 2]>>, NoSplat, NoSplat),
                  ArrPattern(<<Capture("y")>>, Anonymous, "q"),
                  Capture("z")},
            guard : {"none", "true", "false", "raises"}]

PatternCall ==
    /\ NoCall
    /\ \/ \E p \in Pats, v \in ArrValues \cup {Num(1)} :
              Make([op |-> "match", p |-> p, v |-> v, res |-> Match(Outer, EmptyEnv, v, p)])
       \/ \E p \in HashPats, v \in HashValues :
              Make([op |-> "match", p |-> p, v |-> v, res |-> Match(Outer, EmptyEnv, v, p)])
       \/ \E cs \in BoundedSeq(Clauses, 3), v \in ArrValues :
              Make([op |-> "case", cs |-> cs, v |-> v, res |-> CaseIn(Outer, v, cs)])

-----------------------------------------------------------------------------
(***************************************************************************)
(* What a match means                                                      *)
(***************************************************************************)
\* p stands for v with the captured names as they are in env.
RECURSIVE Stands(_, _, _)
Stands(env, v, p) ==
    LET named(n, w) == n \in Splats \/ (n \in DOMAIN env /\ env[n] = w)
    IN  CASE Has(p, "wild") -> TRUE
          [] Has(p, "lit") -> v = Num(p.lit)
          [] Has(p, "pin") -> v = Outer[p.pin]
          [] Has(p, "name") -> named(p.name, v) /\ Stands(env, v, p.sub)
          [] Has(p, "left") -> Stands(env, v, p.left) \/ Stands(env, v, p.right)
          [] Has(p, "elements") ->
                 IsArr(v) /\ \E i \in 0 .. Len(v.elems) :
                     LET n == Len(p.elements)  s == v.elems
                     IN  /\ i + n <= Len(s)
                         /\ p.pre = NoSplat => i = 0
                         /\ p.post = NoSplat => i + n = Len(s)
                         /\ named(p.pre, Arr(SubSeq(s, 1, i)))
                         /\ named(p.post, Arr(SubSeq(s, i + n + 1, Len(s))))
                         /\ \A j \in 1 .. n : Stands(env, s[i + j], p.elements[j])
          [] Has(p, "keys") ->
                 /\ IsPairs(v)
                 /\ \A k \in DOMAIN p.keys :
                        IF k \in DOMAIN v.pairs THEN Stands(env, v.pairs[k], p.keys[k].of)
                        ELSE p.keys[k].of = Capture(k)
                 /\ named(p.others, PairsOf([k \in DOMAIN v.pairs \ DOMAIN p.keys |-> v.pairs[k]]))

\* Whether p can stand for v with some values of its names.
RECURSIVE Fits(_, _)
Fits(v, p) ==
    CASE Has(p, "wild") \/ Has(p, "lit") \/ Has(p, "pin") -> Stands(EmptyEnv, v, p)
      [] Has(p, "name") -> Fits(v, p.sub)
      [] Has(p, "left") -> Fits(v, p.left) \/ Fits(v, p.right)
      [] Has(p, "elements") ->
             IsArr(v) /\ \E i \in 0 .. Len(v.elems) - Len(p.elements) :
                 /\ p.pre = NoSplat => i = 0
                 /\ p.post = NoSplat => i + Len(p.elements) = Len(v.elems)
                 /\ \A j \in DOMAIN p.elements : Fits(v.elems[i + j], p.elements[j])
      [] Has(p, "keys") ->
             IsPairs(v) /\ \A k \in DOMAIN p.keys :
                 IF k \in DOMAIN v.pairs THEN Fits(v.pairs[k], p.keys[k].of)
                 ELSE p.keys[k].of = Capture(k)

\* The matcher, with its three loops over arrays, finds a match exactly when
\* there is one, and the names it binds are those of one and the same match:
\* put back into the pattern they give the value.  (The pattern of two splats
\* and nothing else is the exception: it never matches.)
MatchesRight ==
    call.op = "match" =>
        LET empty == Has(call.p, "elements") /\ call.p.elements = <<>>
                     /\ call.p.pre # NoSplat /\ call.p.post # NoSplat
        IN  /\ ~empty => call.res.ok = Fits(call.v, call.p)
            /\ call.res.ok => Stands(call.res.env, call.v, call.p)

\* A case takes the first clause that matches and whose guard holds; the
\* clauses before it, though they may have matched in part or in whole, leave
\* no name bound.
FirstClauseTaken ==
    call.op = "case" =>
        LET holds(c) == Fits(call.v, c.in) /\ c.guard \in {"none", "true"}
            able == {i \in DOMAIN call.cs : holds(call.cs[i])}
            names(p) == IF Has(p, "name") THEN {p.name}
                        ELSE {p.elements[i].name : i \in {j \in DOMAIN p.elements : Has(p.elements[j], "name")}}
                             \cup ({p.post} \ Splats)
        IN  IF able = {} THEN call.res.taken = 0 /\ call.res.scope = Outer
            ELSE /\ call.res.taken = Min(able)
                 /\ DOMAIN call.res.scope = DOMAIN Outer \cup names(call.cs[Min(able)].in)

\* A case runs the clause it should, with the names of that clause's match.
CasesRight == MatchesRight /\ FirstClauseTaken
=============================================================================
