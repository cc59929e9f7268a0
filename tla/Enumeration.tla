----------------------------- MODULE Enumeration ------------------------------
(***************************************************************************)
(* Methods of Array, Hash and Range that call a block for one element after*)
(* another (eval_dispatch_collections.c): what they make of its answers,   *)
(* and how they end when the block does not answer but leaves, by an error,*)
(* a break, a return or a throw.  The code gives such a signal back as the *)
(* block's value, and every method has to look at it itself.               *)
(*                                                                         *)
(* The elements are numbers, the pairs of a hash and those of a range, too.*)
(***************************************************************************)
EXTENDS Integers, SequencesExt, Calls

CONSTANTS
    MaxItems,   \* bound on the elements
    BreakValue  \* what a break hands over

ASSUME ItemsAssumption == MaxItems \in Nat

\* What a call of the block gives, and what a method does.
Gives(v) == [sig |-> "none", v |-> v]
Leaving == {[sig |-> "break", v |-> BreakValue]} \cup {[sig |-> s, v |-> Nil] : s \in {"error", "return", "throw"}}
LeftBlock(r) == r.sig # "none"
Truth(r) == LeftBlock(r) \/ r.v # Nil

-----------------------------------------------------------------------------
(***************************************************************************)
(* The three ways to look at an answer: the set of what the method gives   *)
(* back at once, which is empty if it goes on.                             *)
(***************************************************************************)
\* flow_signal_out
\* Mutant of FlowSignalOut: a throw is forgotten.
FlowSignalOutThrown(r) ==
    IF r.sig = "break" THEN {Gives(r.v)} ELSE IF r.sig \in {"return", "error"} THEN {r} ELSE {}
FlowSignalOut(r) ==
    IF r.sig = "break" THEN {Gives(r.v)} ELSE IF r.sig \in {"return", "error", "throw"} THEN {r} ELSE {}
HandedOn(r) == IF LeftBlock(r) THEN {r} ELSE {}
ErrorOut(r) == IF r.sig = "error" THEN {r} ELSE {}

Tests == {"any?", "all?", "none?", "one?"}
MethodsOf == [
    Array |-> Tests \cup {"each", "each_with_index", "reverse_each", "each_with_object", "map",
                          "with_index", "select", "reject", "reduce", "sum"},
    Hash  |-> {"any?", "all?", "none?", "group_by", "flat_map", "each_with_object", "reduce",
               "filter_map", "count", "sum"},
    Range |-> {"any?", "all?", "none?", "step", "map", "select", "reject", "reduce", "find",
               "find_index", "sum"}]

\* Methods that hand every signal on; the Tests look for errors alone.
HandsOn(k, m) ==
    \/ m \in {"each_with_object", "group_by", "flat_map", "find", "find_index"}
    \/ (m = "sum" /\ k # "Hash")
LooksAt(k, m, r) ==
    IF m \in Tests THEN ErrorOut(r) ELSE IF HandsOn(k, m) THEN HandedOn(r) ELSE FlowSignalOut(r)

-----------------------------------------------------------------------------
(***************************************************************************)
(* The loop.  What it keeps is a value (acc), the elements the block was   *)
(* called with (seen), and what the method gives back once it is known     *)
(* (out).                                                                  *)
(***************************************************************************)
StartValue(m, init) ==
    CASE m \in {"map", "with_index", "select", "reject", "filter_map", "flat_map", "group_by"} -> <<>>
      [] m \in {"count", "one?"} -> 0
      [] m \in {"reduce", "sum", "each_with_object"} -> init
      [] OTHER -> Nil

InGroup(groups, key, x) ==
    [a \in DOMAIN groups \cup {key} |->
        IF a # key THEN groups[a] ELSE IF key \in DOMAIN groups THEN Append(groups[key], x) ELSE <<x>>]

\* The value that is kept after the block answered r for the element x.  An array
\* that flat_map gets is added element by element, another value as if it were in one.
Kept(m, acc, x, r) ==
    CASE m \in {"map", "with_index"} -> Append(acc, r.v)
      [] m = "select" -> IF Truth(r) THEN Append(acc, x) ELSE acc
      [] m = "reject" -> IF Truth(r) THEN acc ELSE Append(acc, x)
      [] m = "filter_map" -> IF Truth(r) THEN Append(acc, r.v) ELSE acc
      [] m = "flat_map" -> acc \o r.v
      [] m = "group_by" -> InGroup(acc, r.v, x)
      [] m \in {"count", "one?"} -> IF Truth(r) THEN acc + 1 ELSE acc
      [] m = "sum" -> acc + r.v
      [] m = "reduce" -> r.v
      [] OTHER -> acc

\* What is given back at once after an answer that is no reason to leave, if anything.
Decided(m, acc, seen, x, r) ==
    CASE m = "any?" /\ Truth(r) -> {Gives(TRUE)}
      [] m = "all?" /\ ~Truth(r) -> {Gives(FALSE)}
      [] m = "none?" /\ Truth(r) -> {Gives(FALSE)}
      [] m = "one?" /\ Truth(r) /\ acc > 0 -> {Gives(FALSE)}
      [] m = "find" /\ Truth(r) -> {Gives(x)}
      [] m = "find_index" /\ Truth(r) -> {Gives(Len(seen))}
      [] OTHER -> {}

AtLast(m, acc) ==
    CASE m = "any?" -> FALSE
      [] m \in {"all?", "none?"} -> TRUE
      [] m = "one?" -> acc = 1
      [] m \in {"each", "each_with_index", "reverse_each", "step"} -> "self"
      [] OTHER -> acc

Turn(k, m, s, x, r) ==
    LET out == LooksAt(k, m, r) IN
    IF out # {} THEN [s EXCEPT !.seen = Append(@, x), !.out = out]
    ELSE [acc |-> Kept(m, s.acc, x, r), seen |-> Append(s.seen, x), out |-> Decided(m, s.acc, s.seen, x, r)]

\* The elements the block is called with: those of a range by a step of two, those
\* of an array from behind, all but the first one, or all.
EverySecond(items) == SelectSeq(items, LAMBDA x : x % 2 = 1)
Visited(m, init, items) ==
    CASE m = "step" -> EverySecond(items)
      [] m = "reverse_each" -> Reverse(items)
      [] m = "reduce" /\ init = Nil /\ items # <<>> -> Tail(items)
      [] OTHER -> items

\* Nil as the first value of a reduce: there is none, and the first element is taken.
\* An empty array's first element is read where there is no array: the program crashes.
Crash == [sig |-> "crash", v |-> Nil]
BeforeFirst(k, m, init, items) ==
    [seen |-> <<>>,
     acc |-> IF m = "reduce" /\ init = Nil /\ items # <<>> THEN Head(items) ELSE StartValue(m, init),
     out |-> IF k = "Array" /\ m = "reduce" /\ init = Nil /\ items = <<>> THEN {Crash} ELSE {}]

\* Without a block a hash and a range ask whether they are empty.
Unblocked(m, items) ==
    CASE m = "any?" -> items # <<>>
      [] m = "none?" -> items = <<>>
      [] m = "all?" -> TRUE

-----------------------------------------------------------------------------
(***************************************************************************)
(* A call starts, and its block gives one answer after another.  Without a *)
(* block an array takes its elements for the answers.                      *)
(***************************************************************************)
Firsts(m) ==
    CASE m = "reduce" -> {Nil, 7}
      [] m \in {"sum", "each_with_object"} -> {7}
      [] OTHER -> {Nil}
Answers(m) ==
    Leaving \cup CASE m = "sum" -> {Gives(1), Gives(2)}
                   [] m = "flat_map" -> {Gives(<<>>), Gives(<<1, 2>>)}
                   [] OTHER -> {Gives(Nil), Gives(1), Gives(2)}
Started(k, m, init, items, block) ==
    [op |-> "enumerate", kind |-> k, name |-> m, init |-> init, items |-> items, block |-> block,
     visited |-> Visited(m, init, items), answers |-> <<>>, loop |-> BeforeFirst(k, m, init, items)]
CallWithBlock ==
    NoCall /\ \E k \in DOMAIN MethodsOf, n \in 0 .. MaxItems :
        \E m \in MethodsOf[k] : \E init \in Firsts(m) :
            Make(Started(k, m, init, [i \in 1 .. n |-> i], TRUE))
CallWithoutBlock ==
    \/ NoCall /\ \E m \in Tests, n \in 0 .. MaxItems : \E items \in [1 .. n -> {Nil, 1}] :
           Make(Started("Array", m, Nil, items, FALSE))
    \/ NoCall /\ \E m \in Tests \ {"one?"}, items \in {<<>>, <<1>>} :
           Make([op |-> "ask", name |-> m, items |-> items, res |-> Unblocked(m, items)])

\* The loop is over when the method knows what to give back or all are visited.
LoopOver(c) == c.loop.out # {} \/ Len(c.answers) = Len(c.visited)
Result(c) == IF c.loop.out # {} THEN CHOOSE o \in c.loop.out : TRUE ELSE Gives(AtLast(c.name, c.loop.acc))
NextAnswer ==
    /\ call.op = "enumerate" /\ ~LoopOver(call)
    /\ LET x == call.visited[Len(call.answers) + 1]
       IN  \E r \in IF call.block THEN Answers(call.name) ELSE {Gives(x)} :
               call' = [call EXCEPT !.answers = Append(@, r), !.loop = Turn(call.kind, call.name, @, x, r)]

EnumerationCall == CallWithBlock \/ CallWithoutBlock \/ NextAnswer

-----------------------------------------------------------------------------
(***************************************************************************)
(* What the names of the methods say, by the places of the answers.        *)
(***************************************************************************)
TestMeans(m, yes, places) ==
    CASE m = "any?" -> yes # {}
      [] m = "all?" -> yes = places
      [] m = "none?" -> yes = {}
      [] m = "one?" -> Cardinality(yes) = 1

\* The places whose elements are in what is asked for, in their order.
AtPlaces(s, places) == LET at == SetToSortSeq(places, <) IN [i \in DOMAIN at |-> s[at[i]]]

Means(c) ==
    LET all == DOMAIN c.answers
        given == [i \in all |-> c.answers[i].v]
        yes == {i \in all : given[i] # Nil}
        m == c.name
    IN  CASE m \in Tests -> TestMeans(m, yes, all)
          [] m \in {"each", "each_with_index", "reverse_each", "step"} -> "self"
          [] m = "each_with_object" -> c.init
          [] m \in {"map", "with_index"} -> given
          [] m = "select" -> AtPlaces(c.visited, yes)
          [] m = "reject" -> AtPlaces(c.visited, all \ yes)
          [] m = "filter_map" -> AtPlaces(given, yes)
          [] m = "flat_map" -> FlattenSeq(given)
          [] m = "group_by" -> [a \in ToSet(given) |-> AtPlaces(c.visited, {i \in all : given[i] = a})]
          [] m = "count" -> Cardinality(yes)
          [] m = "sum" -> c.init + Cardinality(all) + Cardinality({i \in all : given[i] = 2})
          [] m = "reduce" -> IF all # {} THEN Last(given)
                             ELSE IF c.init # Nil \/ c.items = <<>> THEN c.init ELSE c.items[1]
          [] m = "find" -> IF yes = {} THEN Nil ELSE c.visited[Min(yes)]
          [] m = "find_index" -> IF yes = {} THEN Nil ELSE Min(yes) - 1

\* The places after which the method needs no further answer.
Settling(c) ==
    LET yes == {i \in DOMAIN c.answers : ~LeftBlock(c.answers[i]) /\ c.answers[i].v # Nil}
        no == {i \in DOMAIN c.answers : c.answers[i].v = Nil /\ ~LeftBlock(c.answers[i])}
    IN  CASE c.name \in {"any?", "none?", "find", "find_index"} -> yes
          [] c.name = "all?" -> no
          [] c.name = "one?" -> yes \ {Min(yes \cup {Len(c.answers) + 1})}
          [] OTHER -> {}

\* A block that leaves ends the method, which calls it no more and goes the way the
\* block went: an error from every method, a return and a throw from all but any?,
\* all?, none? and one?, and a break from these with the value it hands
\* over, where some methods hand the break itself on.  If the block answers, the
\* method gives what its name says, from the elements up to the one that settles it.
\* An empty array without a first value is left out.
SignalsArrive ==
    /\ call.op = "enumerate" /\ LoopOver(call) /\ Result(call) # Crash =>
        LET out == Result(call)
            leaving == {i \in DOMAIN call.answers : LeftBlock(call.answers[i])}
            ends == Settling(call) \cup leaving
            e == Min(ends)
            r == call.answers[e]
            m == call.name
            until(n) == call.loop.seen = SubSeq(call.visited, 1, n)
        IN  CASE ends = {} -> until(Len(call.visited)) /\ out = Gives(Means(call))
              [] ends # {} /\ e \notin leaving -> until(e) /\ out = Gives(Means(call))
              [] e \in leaving /\ r.sig = "error" -> until(e) /\ out = r
              [] e \in leaving /\ r.sig # "error" /\ m \in Tests -> TRUE
              [] e \in leaving /\ r.sig = "break" /\ m \notin Tests ->
                     until(e) /\ (out = Gives(BreakValue) \/ (HandsOn(call.kind, m) /\ out = r))
              [] e \in leaving /\ r.sig \in {"return", "throw"} /\ m \notin Tests -> until(e) /\ out = r
    /\ call.op = "ask" =>
           call.res = TestMeans(call.name, DOMAIN call.items, DOMAIN call.items)
=============================================================================
