------------------------------- MODULE Ranges -------------------------------
(***************************************************************************)
(* The methods of dispatch_range on ranges of integers.  A range is        *)
(* [from, to, ex]: its ends, Nil where one is missing, and whether the end *)
(* is excluded.  The code never builds the set of members: each method     *)
(* compares, counts or runs a loop of its own, with the exclusive end      *)
(* handled anew, and the properties below say that they agree.             *)
(*                                                                         *)
(* The integers are small enough that no 64-bit sum or product overflows.  *)
(***************************************************************************)
EXTENDS Integers, FiniteSets, SequencesExt, Calls

CONSTANTS
    RangeEnds, \* the integers that are ends of ranges
    MaxCount   \* bound on a count that is passed

ASSUME RangesAssumption ==
    /\ RangeEnds \subseteq Int /\ IsFiniteSet(RangeEnds)
    /\ Nil \notin Int
    /\ MaxCount \in Nat

\* The counts a program may pass, one that is negative among them.
Counts == -1 .. MaxCount

Finite == [from : RangeEnds, to : RangeEnds, ex : BOOLEAN]
AnyRange == [from : RangeEnds \cup {Nil}, to : RangeEnds \cup {Nil}, ex : BOOLEAN]

Error(class) == [raised |-> class]

\* Mutant of Inside: the loops run to the end of an exclusive range, too.
InsideInclusive(r, i) == i <= r.to

\* The condition of every loop from r.from on.
Inside(r, i) == IF r.ex THEN i < r.to ELSE i <= r.to

\* The last integer, which is below r.from when the range is empty.
LastInt(r) == IF r.ex THEN r.to - 1 ELSE r.to

\* What for (i = lo; r->exclusive ? i < hi : i <= hi; i += by) runs through.
Walk(r, by) ==
    LET n == Cardinality({k \in 0 .. r.to - r.from : Inside(r, r.from + k * by)})
    IN  [k \in 1 .. n |-> r.from + (k - 1) * by]

Elements(r) == Walk(r, 1)

Counting(lo, hi) == [k \in 1 .. hi - lo + 1 |-> lo + k - 1]

-----------------------------------------------------------------------------
(***************************************************************************)
(* Parts of a range                                                        *)
(***************************************************************************)
FirstInts(r, n) ==
    IF n < 0 THEN Error("ArgumentError")
    ELSE SelectSeq(Counting(r.from, r.from + n - 1), LAMBDA i : Inside(r, i))

LastInts(r, n) ==
    LET hi == LastInt(r)
        lo == IF hi - n + 1 < r.from THEN r.from ELSE hi - n + 1
    IN  IF n < 0 THEN Error("ArgumentError") ELSE Counting(lo, hi)

\* begin(n) takes a negative count for none; an endless range has no bound.
BeginInts(r, n) ==
    SelectSeq(Counting(r.from, r.from + n - 1), LAMBDA i : r.to = Nil \/ Inside(r, i))

\* end(n) counts back from the end without looking at the start.
EndInts(r, n) == Counting(LastInt(r) - n + 1, LastInt(r))

MinInts(r, n) ==
    IF n < 0 THEN Error("ArgumentError")
    ELSE SubSeq(Elements(r), 1, IF n < Len(Elements(r)) THEN n ELSE Len(Elements(r)))

MaxInts(r, n) ==
    IF n < 0 THEN Error("ArgumentError")
    ELSE LET down == SelectSeq([k \in 1 .. n |-> LastInt(r) - k + 1], LAMBDA i : i >= r.from)
         IN  down

\* min and max of an empty range are its ends, not nil.
MinInt(r) == r.from
MaxInt(r) == IF r.ex THEN r.to - 1 ELSE r.to

Step(r, by) == IF by <= 0 THEN Error("ArgumentError") ELSE Walk(r, by)

-----------------------------------------------------------------------------
(***************************************************************************)
(* Membership.  A missing end compares with nothing.                       *)
(***************************************************************************)
Includes(r, v) ==
    /\ r.from = Nil \/ v >= r.from
    /\ r.to = Nil \/ (IF r.ex THEN v < r.to ELSE v <= r.to)

Covers(outer, inner) ==
    /\ outer.from # Nil => inner.from # Nil /\ inner.from >= outer.from
    /\ outer.to # Nil =>
           /\ inner.to # Nil /\ inner.to <= outer.to
           /\ inner.to = outer.to /\ outer.ex => inner.ex

\* a ends before b begins.
Before(a, b) ==
    /\ a.to # Nil /\ b.from # Nil
    /\ a.to < b.from \/ (a.to = b.from /\ a.ex)

Overlaps(a, b) == ~Before(a, b) /\ ~Before(b, a)

-----------------------------------------------------------------------------
(***************************************************************************)
(* Counting and searching                                                  *)
(***************************************************************************)
Size(r) ==
    IF r.ex THEN (IF r.to > r.from THEN r.to - r.from ELSE 0)
    ELSE IF r.to >= r.from THEN r.to - r.from + 1 ELSE 0

CountOf(r, v) == Len(SelectSeq(Elements(r), LAMBDA i : i = v))
FindIndex(r, v) == IF CountOf(r, v) = 0 THEN Nil ELSE v - r.from
Find(r, block) == LET found == SelectSeq(Elements(r), LAMBDA i : block[i])
                  IN  IF found = <<>> THEN Nil ELSE Head(found)

\* sum without a block is Gauss's formula, with one it is a loop.
SumFormula(r, init) ==
    LET hi == LastInt(r)
    IN  IF hi < r.from THEN init ELSE init + ((hi - r.from + 1) * (r.from + hi)) \div 2
SumLoop(r, init) == FoldLeft(LAMBDA acc, i : acc + i, init, Elements(r))

\* reduce with + starts with the first element, and an empty range gives nil.
Reduce(r) == IF Elements(r) = <<>> THEN Nil
             ELSE FoldLeft(LAMBDA acc, i : acc + i, Head(Elements(r)), Tail(Elements(r)))

\* bsearch without floats: lo and hi close in on the answer; found is the last
\* integer the block accepted.
RECURSIVE Bisect(_, _, _, _)
Bisect(block, lo, hi, found) ==
    LET mid == lo + (hi - lo) \div 2
    IN  IF lo > hi THEN found
        ELSE IF block[mid] THEN Bisect(block, lo, mid - 1, mid)
        ELSE Bisect(block, mid + 1, hi, found)

RECURSIVE BisectAny(_, _, _)
BisectAny(cmp, lo, hi) ==
    LET mid == lo + (hi - lo) \div 2
    IN  IF lo > hi THEN Nil
        ELSE IF cmp[mid] = 0 THEN mid
        ELSE IF cmp[mid] > 0 THEN BisectAny(cmp, mid + 1, hi)
        ELSE BisectAny(cmp, lo, mid - 1)

RangeBsearch(r, block) == Bisect(block, r.from, LastInt(r), Nil)
RangeBsearchAny(r, cmp) == BisectAny(cmp, r.from, LastInt(r))

-----------------------------------------------------------------------------
From(x) == [i \in RangeEnds |-> i >= x]
Towards(x) == [i \in RangeEnds |-> x - i]

PartCall ==
    \E r \in Finite :
        \/ Make([op |-> "to_a", r |-> r, res |-> Elements(r)])
        \/ Make([op |-> "reduce", r |-> r, res |-> <<Reduce(r)>>])
        \/ \E n \in Counts :
               \/ Make([op |-> "range_first", r |-> r, n |-> n, res |-> FirstInts(r, n)])
               \/ Make([op |-> "range_last", r |-> r, n |-> n, res |-> LastInts(r, n)])
               \/ Make([op |-> "begin", r |-> r, n |-> n, res |-> BeginInts(r, n)])
               \/ Make([op |-> "end", r |-> r, n |-> n, res |-> EndInts(r, n)])
               \/ Make([op |-> "range_min", r |-> r, n |-> n, res |-> MinInts(r, n)])
               \/ Make([op |-> "range_max", r |-> r, n |-> n, res |-> MaxInts(r, n)])
               \/ Make([op |-> "step", r |-> r, n |-> n, res |-> Step(r, n)])
        \/ Make([op |-> "numbers", r |-> r, size |-> Size(r), formula |-> SumFormula(r, 1),
                 loop |-> SumLoop(r, 1), min |-> MinInt(r), max |-> MaxInt(r)])
        \/ \E x \in RangeEnds :
               \/ Make([op |-> "count", r |-> r, x |-> x, count |-> CountOf(r, x),
                        res |-> <<FindIndex(r, x)>>])
               \/ Make([op |-> "find", r |-> r, x |-> x, res |-> <<Find(r, From(x)), RangeBsearch(r, From(x))>>])
               \/ Make([op |-> "range_bsearch", r |-> r, x |-> x,
                        res |-> <<RangeBsearchAny(r, Towards(x))>>])

MemberCall ==
    \E r \in AnyRange :
        \/ \E x \in RangeEnds :
               Make([op |-> "include?", r |-> r, x |-> x, yes |-> Includes(r, x)])
        \/ \E s \in AnyRange :
               \/ Make([op |-> "cover?", r |-> r, s |-> s, yes |-> Covers(r, s)])
               \/ Make([op |-> "overlap?", r |-> r, s |-> s, yes |-> Overlaps(r, s)])

RangeCall == NoCall /\ (PartCall \/ MemberCall)

-----------------------------------------------------------------------------
(***************************************************************************)
(* What the calls return                                                   *)
(***************************************************************************)
RangeOp(op) == call.op = op

Universe == (Min(RangeEnds) - 2) .. (Max(RangeEnds) + 2)
Members(r) == {i \in Universe : /\ r.from = Nil \/ r.from <= i
                                /\ r.to = Nil \/ i < r.to \/ (i = r.to /\ ~r.ex)}

\* s counts upwards through the set S.
Lists(s, S) ==
    /\ ToSet(s) = S /\ Len(s) = Cardinality(S)
    /\ \A i \in 1 .. Len(s) - 1 : s[i] < s[i + 1]

Smallest(S, n) == {i \in S : Cardinality({j \in S : j < i}) < n}
Largest(S, n) == {i \in S : Cardinality({j \in S : j > i}) < n}

\* Every method agrees with the set of members, for empty, exclusive, one-sided
\* and negative ranges: listing, counting, summing and searching, and what one
\* range says of another (cover? implies inclusion; overlap? is a common
\* member, unless a range is empty).
RangesAgree ==
    LET r == call.r  M == Members(r)
    IN  CASE RangeOp("to_a") -> Lists(call.res, M)
          [] RangeOp("range_first") /\ call.n >= 0 -> Lists(call.res, Smallest(M, call.n))
          [] RangeOp("range_min") /\ call.n >= 0 -> Lists(call.res, Smallest(M, call.n))
          [] RangeOp("begin") -> Lists(call.res, Smallest(M, call.n))
          [] RangeOp("range_last") /\ call.n >= 0 -> Lists(call.res, Largest(M, call.n))
          [] RangeOp("range_max") /\ call.n >= 0 ->
                 Lists(Reverse(call.res), Largest(M, call.n))
          [] RangeOp("end") /\ call.n <= Cardinality(M) -> Lists(call.res, Largest(M, call.n))
          [] RangeOp("step") /\ call.n > 0 ->
                 Lists(call.res, {i \in M : (i - r.from) % call.n = 0})
          [] RangeOp("numbers") ->
                 /\ call.size = Cardinality(M) /\ call.formula = call.loop
                 /\ M # {} => call.min = Min(M) /\ call.max = Max(M)
          [] RangeOp("reduce") -> call.res = IF M = {} THEN <<Nil>> ELSE <<SumLoop(r, 0)>>
          [] RangeOp("count") -> /\ call.count = Cardinality(M \cap {call.x})
                                 /\ call.res = IF call.x \in M THEN <<call.x - r.from>> ELSE <<Nil>>
          [] RangeOp("find") ->
                 LET up == {i \in M : i >= call.x}
                     least == IF up = {} THEN Nil ELSE Min(up)
                 IN  call.res = <<least, least>>
          [] RangeOp("range_bsearch") -> call.res = IF call.x \in M THEN <<call.x>> ELSE <<Nil>>
          [] RangeOp("include?") -> call.yes = (call.x \in M)
          [] RangeOp("cover?") -> call.yes => Members(call.s) \subseteq M
          [] RangeOp("overlap?") ->
                 M # {} /\ Members(call.s) # {} => call.yes = (M \cap Members(call.s) # {})
          [] OTHER -> TRUE
=============================================================================
