------------------------------ MODULE Binding -------------------------------
(***************************************************************************)
(* From the arguments of a call to the parameters of a method or a block:  *)
(* eval_call collects the arguments in an array of fixed size,             *)
(* call_method_value and call_block check how many there are, bind_params  *)
(* and bind_pattern give them to the parameters.                           *)
(*                                                                         *)
(* A value is [one |-> x], [elems |-> a sequence of values] or             *)
(* [keys |-> the keys of a hash]; what a hash holds for a key is not told  *)
(* apart.  A pattern is Req, Rest or Nest(a sequence of patterns);          *)
(* parameters are a sequence `pos` of patterns and Opt, the keyword        *)
(* parameters `key`, whether there is a ** parameter and a & parameter.    *)
(***************************************************************************)
EXTENDS Integers, FiniteSets, SequencesExt, Calls

CONSTANTS
    Names,    \* names of keyword parameters, and keys of hashes
    MaxArgs,  \* entries in the array of arguments, 64 in the code
    Given     \* bound on the number of arguments that are passed

ASSUME BindingAssumption == MaxArgs \in Nat \ {0} /\ Given \in Nat

None == [none |-> "nil"]
Default == [default |-> "default"]
Wrong == [raised |-> "ArgumentError"]

One(i) == [one |-> i]
IsArray(v) == "elems" \in DOMAIN v
IsHash(v) == "keys" \in DOMAIN v
Ones(n) == [i \in 1 .. n |-> One(i)]

\* A pattern is a name, a splat or a list of patterns in parentheses.
Req == [name |-> "req"]
Opt == [name |-> "opt"]
Rest == [name |-> "rest"]
Nest(s) == [nest |-> s]
IsNest(p) == "nest" \in DOMAIN p

-----------------------------------------------------------------------------
(***************************************************************************)
(* Destructuring: the same algorithm in bind_pattern and assign_target     *)
(***************************************************************************)
RestAt(ps) == {i \in DOMAIN ps : ps[i] = Rest}

\* The value of the pattern i behind a splat, counted from the end; when the
\* array is short it may be one that a pattern before the splat has, too.
TailValue(ps, v, i) ==
    LET back == Len(ps) - i
    IN  IF IsArray(v) /\ Len(v.elems) > back THEN v.elems[Len(v.elems) - back] ELSE None

\* The value of the pattern i before a splat, or where there is none: an
\* argument that is no array goes to the first.
HeadValue(ps, v, i) ==
    IF IsArray(v) THEN (IF i <= Len(v.elems) THEN v.elems[i] ELSE None)
    ELSE IF i = 1 THEN v ELSE None

\* What a splat takes: all that its place and the patterns behind it leave.
RestValue(ps, v, i) ==
    LET behind == Len(ps) - i
        whole == IF IsArray(v) THEN v.elems ELSE IF i = 1 THEN <<v>> ELSE <<>>
    IN  [elems |-> SubSeq(whole, i, Len(whole) - behind)]

\* The values of the names in the patterns ps, in order.
RECURSIVE Destructure(_, _)
Destructure(ps, v) ==
    LET value(i) == IF ps[i] = Rest THEN RestValue(ps, v, i)
                    ELSE IF \E j \in RestAt(ps) : j < i THEN TailValue(ps, v, i)
                    ELSE HeadValue(ps, v, i)
        names(i) == IF IsNest(ps[i]) THEN Destructure(ps[i].nest, value(i)) ELSE <<value(i)>>
    IN  FlattenSeq([i \in DOMAIN ps |-> names(i)])

-----------------------------------------------------------------------------
(***************************************************************************)
(* The arguments of a call: a plain one, *array, key: value pairs, **hash  *)
(***************************************************************************)
Plain(i) == [plain |-> i]
Splat(s) == [splat |-> s]
Pairs(ks) == [pairs |-> ks]

Cut(s) == SubSeq(s, 1, IF Len(s) < MaxArgs THEN Len(s) ELSE MaxArgs)

\* Mutant of Collect: the pairs of a call are put where they are written.
CollectInPlace(nodes) ==
    LET part(n) == IF "plain" \in DOMAIN n THEN <<One(n.plain)>>
                   ELSE IF "splat" \in DOMAIN n THEN n.splat
                   ELSE <<[keys |-> n.pairs]>>
    IN  Cut(FlattenSeq([i \in DOMAIN nodes |-> part(nodes[i])]))

\* The pairs of all keyword arguments become one hash behind the others.  What
\* does not fit into the array is dropped: arguments, pairs that come behind
\* the last one that fits, and the whole hash when the array is full.
Collect(nodes) ==
    LET step(acc, n) ==
            IF Len(acc.args) >= MaxArgs THEN acc
            ELSE IF "plain" \in DOMAIN n THEN [acc EXCEPT !.args = Append(@, One(n.plain))]
            ELSE IF "splat" \in DOMAIN n THEN [acc EXCEPT !.args = Cut(@ \o n.splat)]
            ELSE [acc EXCEPT !.kw = @ \cup n.pairs, !.has = TRUE]
        end == FoldLeft(step, [args |-> <<>>, kw |-> {}, has |-> FALSE], nodes)
    IN  IF end.has THEN Cut(Append(end.args, [keys |-> end.kw])) ELSE end.args

-----------------------------------------------------------------------------
(***************************************************************************)
(* Parameters                                                              *)
(***************************************************************************)
Count(s, Kind(_)) == Len(SelectSeq(s, Kind))

RequiredCount(ps) == Count(ps.pos, LAMBDA p : p = Req \/ IsNest(p))
TotalCount(ps) == Count(ps.pos, LAMBDA p : p # Rest)

\* has_splat_param looks into parentheses, too: def f((a, *b)) has one.
RECURSIVE HasSplat(_)
HasSplat(s) == \E i \in DOMAIN s : s[i] = Rest \/ (IsNest(s[i]) /\ HasSplat(s[i].nest))

HasKeywords(ps) == DOMAIN ps.key # {} \/ ps.keyrest

\* The last argument, when it is a hash and there is a parameter for it.
TakesHash(ps, args) == HasKeywords(ps) /\ args # <<>> /\ IsHash(Last(args))
Positional(ps, args) == IF TakesHash(ps, args) THEN Front(args) ELSE args
Keywords(ps, args) == IF TakesHash(ps, args) THEN Last(args).keys ELSE {}

Refused(ps, args) ==
    LET n == Len(Positional(ps, args))
    IN  n < RequiredCount(ps) \/ (~HasSplat(ps.pos) /\ n > TotalCount(ps))

\* The parameters behind the splat that must be given something.
PostRequired(ps) ==
    Count(SubSeq(ps.pos, IF RestAt(ps.pos) = {} THEN Len(ps.pos) + 1 ELSE Max(RestAt(ps.pos)),
                 Len(ps.pos)),
          LAMBDA p : p = Req \/ IsNest(p))

\* Where the splat ends that starts behind the argument `at` of n.
SplatEnd(ps, n, at) ==
    LET end == n - PostRequired(ps) IN IF end < at THEN at ELSE end

\* The positional arguments go to the parameters from left to right.
BindPositional(ps, args) ==
    LET n == Len(args)
        give(acc, p) ==
            LET end == SplatEnd(ps, n, acc.at)
                v == IF acc.at < n THEN args[acc.at + 1]
                     ELSE IF p = Opt THEN Default ELSE None
            IN  IF p = Rest
                THEN [at |-> end, got |-> Append(acc.got, [elems |-> SubSeq(args, acc.at + 1, end)])]
                ELSE [at |-> acc.at + 1, got |-> Append(acc.got, v)]
    IN  FoldLeft(give, [at |-> 0, got |-> <<>>], ps.pos).got

\* What bind_params gives to the parameters, or the error: of the keywords,
\* first one that is missing and then one that nobody takes.
Bind(ps, args) ==
    LET kw == Keywords(ps, args)
        missing == {k \in DOMAIN ps.key : ps.key[k] = "required" /\ k \notin kw}
        others == kw \ DOMAIN ps.key
    IN  IF missing # {} \/ (others # {} /\ ~ps.keyrest) THEN Wrong
        ELSE [pos |-> BindPositional(ps, Positional(ps, args)),
              key |-> [k \in DOMAIN ps.key |-> IF k \in kw THEN One(k) ELSE Default],
              rest |-> IF ps.keyrest THEN others ELSE {}]

\* Methods and lambdas count their arguments; defaults come after that.
BindStrict(ps, args) == IF Refused(ps, args) THEN Wrong ELSE Bind(ps, args)

Bindable(ps) == Len(ps.pos) + Cardinality(DOMAIN ps.key) + (IF ps.keyrest THEN 1 ELSE 0)

\* A block takes an array that is its only argument apart.
AutoSplat(ps, args) ==
    IF Len(args) = 1 /\ Bindable(ps) > 1 /\ IsArray(args[1]) THEN Cut(args[1].elems) ELSE args
BindBlock(ps, args) == Bind(ps, AutoSplat(ps, args))

\* proc_arity: the number of arguments, negative when more can be given.
Arity(ps, lambda) ==
    LET open == HasSplat(ps.pos) \/ (lambda /\ \E i \in DOMAIN ps.pos : ps.pos[i] = Opt)
        openKey == lambda /\ \E k \in DOMAIN ps.key : ps.key[k] = "optional"
    IN  IF open \/ openKey THEN -(RequiredCount(ps) + 1) ELSE RequiredCount(ps)

-----------------------------------------------------------------------------
Inner == {Nest(<<Req, Rest>>), Nest(<<Rest, Req>>), Nest(<<Req, Req>>)}
PosParams == {s \in BoundedSeq({Req, Opt, Rest, Nest(<<Req, Rest>>)}, 4) :
                  Cardinality(RestAt(s)) <= 1}
Patterns == {s \in BoundedSeq({Req, Rest} \cup Inner, 3) :
                 Len(s) > 0 /\ Cardinality(RestAt(s)) <= 1}
KeyParams == UNION {[S -> {"required", "optional"}] : S \in SUBSET Names}

Params == [pos : PosParams, key : {<<>>}, keyrest : {FALSE}]
    \cup [pos : {s \in PosParams : Len(s) <= 2}, key : KeyParams, keyrest : BOOLEAN]
PassedArgs ==
    LET ones == {Ones(n) : n \in 0 .. Given}
    IN  ones \cup {Append(s, [keys |-> K]) : s \in ones, K \in SUBSET Names}
PassedArrays == {<<[elems |-> Ones(n)]>> : n \in 0 .. Given}
Values == {One(1)} \cup {[elems |-> Ones(n)] : n \in 0 .. Given}
    \cup {[elems |-> <<One(9), [elems |-> Ones(n)]>>] : n \in 0 .. 2}
ArgNodes == {Plain(7)} \cup {Splat(Ones(n)) : n \in 0 .. 2} \cup {Pairs(K) : K \in SUBSET Names}

BindingCall ==
    /\ NoCall
    /\ \/ \E ps \in Params, args \in PassedArgs :
              \/ Make([op |-> "method", ps |-> ps, args |-> args, res |-> BindStrict(ps, args)])
              \/ Make([op |-> "block", ps |-> ps, args |-> args, res |-> BindBlock(ps, args)])
       \/ \E ps \in Params, args \in PassedArrays :
              Make([op |-> "array block", ps |-> ps, args |-> args, res |-> BindBlock(ps, args)])
       \/ \E ps \in Params, n \in 0 .. Given, lambda \in BOOLEAN :
              Make([op |-> "arity", ps |-> ps, n |-> n, lambda |-> lambda, arity |-> Arity(ps, lambda)])
       \/ \E ps \in Patterns, v \in Values :
              Make([op |-> "destructure", ps |-> ps, v |-> v, res |-> Destructure(ps, v)])
       \/ \E nodes \in BoundedSeq(ArgNodes, 3) :
              Make([op |-> "collect", nodes |-> nodes, res |-> Collect(nodes)])

-----------------------------------------------------------------------------
(***************************************************************************)
(* What the calls give                                                     *)
(***************************************************************************)
BindingOp(ops) == call.op \in ops

\* The arguments that the parameters ps were given, in the order of the list.
Delivered(ps, got) ==
    FlattenSeq([i \in DOMAIN got |-> IF ps.pos[i] = Rest THEN got[i].elems
                                     ELSE IF got[i] \in {None, Default} THEN <<>> ELSE <<got[i]>>])

\* A parameter gets nothing only if those before it got all there was.
NothingIsLast(ps, got) ==
    \A i, j \in DOMAIN got :
        i < j /\ got[i] \in {None, Default} /\ ps.pos[j] # Rest => got[j] \in {None, Default}

\* The keywords of a hash go to their parameters and all others to the **
\* parameter; a call is refused exactly if one is missing or left over.
KeywordsRight(ps, kw, res) ==
    LET missing == \E k \in DOMAIN ps.key \ kw : ps.key[k] = "required"
        left == kw \ DOMAIN ps.key # {} /\ ~ps.keyrest
    IN  IF res = Wrong THEN missing \/ left
        ELSE /\ ~missing /\ ~left
             /\ {k \in DOMAIN ps.key : res.key[k] # Default} \cup res.rest = kw
             /\ \A k \in res.rest : k \notin DOMAIN ps.key

\* A call that is accepted gives every positional argument to one parameter, in
\* order, and none to two, whatever optional, splat and keyword parameters
\* there are (call_method_value, call_block and bind_params count them three
\* times); and a required parameter goes without only if an optional one before
\* it took its argument.  A splat in parentheses turns the count off.
ArgumentsDelivered ==
    BindingOp({"method", "block", "array block"}) =>
        LET args == IF call.op = "array block" THEN AutoSplat(call.ps, call.args) ELSE call.args
            pos == Positional(call.ps, args)
            counted == HasSplat(call.ps.pos) = (RestAt(call.ps.pos) # {})
            got == Delivered(call.ps, call.res.pos)
            unfilled(i) == call.ps.pos[i] = Req /\ call.res.pos[i] = None
        IN  /\ call.op # "method" \/ ~Refused(call.ps, args) =>
                   KeywordsRight(call.ps, Keywords(call.ps, args), call.res)
            /\ call.res # Wrong => IsPrefix(got, pos) /\ NothingIsLast(call.ps, call.res.pos)
            /\ call.res # Wrong /\ call.op = "method" =>
                   /\ counted => got = pos
                   /\ \A i \in DOMAIN call.res.pos : unfilled(i) =>
                          \E j \in 1 .. i - 1 : call.ps.pos[j] = Opt

\* The array of arguments holds what was passed, in the order of the call and
\* with one hash of all the keywords at the end, or as much of it as fits; and
\* with as many arguments as its arity says a lambda is not refused.
ArgumentsCollected ==
    /\ BindingOp({"collect"}) =>
           LET pairs == SelectSeq(call.nodes, LAMBDA n : "pairs" \in DOMAIN n)
               others == SelectSeq(call.nodes, LAMBDA n : "pairs" \notin DOMAIN n)
               given(n) == IF "plain" \in DOMAIN n THEN <<One(n.plain)>> ELSE n.splat
               flat == FlattenSeq([i \in DOMAIN others |-> given(others[i])])
               hash == [keys |-> UNION {pairs[i].pairs : i \in DOMAIN pairs}]
               all == IF pairs = <<>> THEN flat ELSE Append(flat, hash)
           IN  call.res = IF Len(all) <= MaxArgs THEN all ELSE SubSeq(flat, 1, MaxArgs)
    /\ BindingOp({"arity"}) /\ call.lambda =>
           LET least == IF call.arity < 0 THEN -call.arity - 1 ELSE call.arity
           IN  call.n = least => ~Refused(call.ps, Ones(call.n))

Leaves(ps) == Len(FlattenSeq([i \in DOMAIN ps |-> IF IsNest(ps[i]) THEN ps[i].nest ELSE <<ps[i]>>]))

\* Taking an array apart loses and doubles nothing, if it has an element for
\* each pattern that is no splat: the elements come back in order, and the
\* splat has those in the middle.
DestructureRight ==
    BindingOp({"destructure"}) =>
        LET flat == \A i \in DOMAIN call.ps : ~IsNest(call.ps[i])
            fixed == Len(call.ps) - Cardinality(RestAt(call.ps))
            back == FlattenSeq([i \in DOMAIN call.res |->
                        IF call.ps[i] = Rest THEN call.res[i].elems ELSE <<call.res[i]>>])
        IN  /\ Len(call.res) = Leaves(call.ps)
            /\ flat /\ IsArray(call.v) /\ Len(call.v.elems) >= fixed =>
                   IF RestAt(call.ps) # {} THEN back = call.v.elems
                   ELSE back = SubSeq(call.v.elems, 1, fixed)

\* From the argument nodes of a call to the parameters of the method: nothing
\* is lost, doubled or reordered on either half of the way, nor when one of them
\* is taken apart.
ArgumentsArrive == ArgumentsCollected /\ ArgumentsDelivered /\ DestructureRight
=============================================================================
