------------------------------- MODULE Arrays -------------------------------
(***************************************************************************)
(* One Ruby array, the methods of dispatch_array that change it, and the   *)
(* iterators that call a block for its elements.                           *)
(*                                                                         *)
(* A RubyArray is shared by every value that refers to it: elems points to *)
(* slots of which the first len are live.  An iterator runs over the same  *)
(* array, so the block it calls can change the array between two elements; *)
(* `loop` is such an iterator, standing inside its block.  Slots past len  *)
(* keep their old contents until they are used again, and code that does   *)
(* not look at len again reads or writes them.                             *)
(***************************************************************************)
EXTENDS Integers, FiniteSets, SequencesExt, Pieces

CONSTANTS
    Vals,    \* the integers an array may hold
    Nil,     \* Ruby's nil
    Arguments, \* the arrays that are passed as arguments
    Bounds,  \* the ends of the ranges that are passed, Nil for an endless one
    MaxLen,  \* bound on the length of the array
    Changes  \* bound on the changes blocks make to it while one iterator runs

ASSUME ArraysAssumption ==
    /\ Vals \subseteq Int /\ IsFiniteSet(Vals)
    /\ Nil \notin Int
    /\ MaxLen \in Nat \ {0} /\ Changes \in Nat
    /\ Bounds \subseteq Int \cup {Nil}
    /\ \A s \in Arguments : s \in BoundedSeq(Vals \cup {Nil}, MaxLen)

VARIABLES
    mem,     \* [buf, len]: the slots ever used, and how many of them are live
    frozen,  \* the array's frozen flag
    loop,    \* the iterator that is inside its block, or NoLoop
    last     \* the last operation that ended, and what it returned

vars == <<mem, frozen, loop, last>>

Elems == Vals \cup {Nil}
Truthy(v) == v # Nil

Forward  == {"each", "map", "select", "reject", "find_index", "map!", "select!", "reject!"}
Backward == {"reverse_each", "rindex"}
Filters  == {"select!", "reject!"}
InPlace  == {"map!", "fill"} \cup Filters
LoopOps  == Forward \cup Backward \cup {"fill"}

NoLoop == [op |-> "none"]
Content == SubSeq(mem.buf, 1, mem.len)

Self == [k |-> "self"]
Elem(v) == [k |-> "elem", v |-> v]
Arr(s) == [k |-> "array", seq |-> s]
Raised(class) == [k |-> "raised", class |-> class]

(***************************************************************************)
(* Positions.  C indexes count from 0; a negative index counts from the    *)
(* end.  A range that has no end stops at the length of the array, and one *)
(* that is not exclusive then gets one more.                               *)
(***************************************************************************)
FromEnd(i) == IF i < 0 THEN i + mem.len ELSE i

Indices == -MaxLen - 1 .. MaxLen + 1
Ranges == [from : Bounds \ {Nil}, to : Bounds, exclusive : BOOLEAN]
RangeStart(r) == FromEnd(r.from)
RangeStop(r) ==
    (IF r.to = Nil THEN mem.len ELSE FromEnd(r.to)) + (IF r.exclusive THEN 0 ELSE 1)

(***************************************************************************)
(* Memory.  Writing a new content leaves the slots behind it as they were. *)
(***************************************************************************)
Rewrite(s) ==
    [buf |-> s \o SubSeq(mem.buf, Len(s) + 1, Len(mem.buf)), len |-> Len(s)]

SlotAt(m, i) == m.buf[i + 1]

\* The running iterator remembers whether its block has changed the array.
Disturbed ==
    IF loop = NoLoop THEN NoLoop
    ELSE [loop EXCEPT !.changes = @ + 1, !.given = <<>>, !.whole = <<>>]

Write(op, s, out) ==
    /\ Len(s) <= MaxLen
    /\ loop # NoLoop => loop.changes < Changes
    /\ mem' = Rewrite(s)
    /\ loop' = Disturbed
    /\ last' = [op |-> op, out |-> out]
    /\ UNCHANGED frozen

Answer(op, out) ==
    /\ last' = [op |-> op, out |-> out]
    /\ UNCHANGED <<mem, frozen, loop>>

\* if (recv.array->frozen) { *out = eval_raise_class(... "FrozenError") ... }
Change(op, s, out) ==
    IF frozen THEN Answer(op, Raised("FrozenError")) ELSE Write(op, s, out)

-----------------------------------------------------------------------------
(***************************************************************************)
(* Methods that change the array and call no block.                        *)
(***************************************************************************)
Push(v) == Change("push", Append(Content, v), Self)

Concat(s) == Change("concat", Content \o s, Self)

Unshift(s) == Change("unshift", s \o Content, Self)

Pop ==
    IF mem.len = 0 THEN Change("pop", <<>>, Elem(Nil))
    ELSE Change("pop", Front(Content), Elem(Last(Content)))

\* The last n elements, all of them when there are fewer.
PopMany(n) ==
    LET k == IF n > mem.len THEN 0 ELSE mem.len - n
    IN  IF n < 0 /\ ~frozen THEN Answer("pop", Raised("ArgumentError"))
        ELSE Change("pop", SubSeq(Content, 1, k), Arr(SubSeq(Content, k + 1, mem.len)))

Shift ==
    IF mem.len = 0 THEN Change("shift", <<>>, Elem(Nil))
    ELSE Change("shift", Tail(Content), Elem(Head(Content)))

ShiftMany(n) ==
    LET k == IF n > mem.len THEN mem.len ELSE n
    IN  IF n < 0 /\ ~frozen THEN Answer("shift", Raised("ArgumentError"))
        ELSE Change("shift", SubSeq(Content, k + 1, mem.len), Arr(SubSeq(Content, 1, k)))

Without(s, v) == Picked(s, {i \in DOMAIN s : s[i] # v})

Delete(v) ==
    Change("delete", Without(Content, v),
           Elem(IF Contains(Content, v) THEN v ELSE Nil))

DeleteAt(i) ==
    LET j == FromEnd(i)
    IN  IF j \in 0 .. mem.len - 1
        THEN Change("delete_at", RemoveAt(Content, j + 1), Elem(Content[j + 1]))
        ELSE Change("delete_at", Content, Elem(Nil))

Clear == Change("clear", <<>>, Self)

\* A negative position counts from behind the last element and never goes
\* below 0; a position past the end is reached by appending nils.
Insert(i, s) ==
    LET p == IF i < 0 THEN mem.len + i + 1 ELSE i
        j == IF p < 0 THEN 0 ELSE p
        padded == Content \o [k \in 1 .. j - mem.len |-> Nil]
    IN  Change("insert", SubSeq(padded, 1, j) \o s \o SubSeq(padded, j + 1, Len(padded)), Self)

\* []= with an Integer: an index that stays negative is ignored.
Store(i, v) ==
    LET j == FromEnd(i)
        padded == Content \o [k \in 1 .. j + 1 - mem.len |-> Nil]
    IN  Change("[]=", IF j < 0 THEN Content ELSE [padded EXCEPT ![j + 1] = v], Elem(v))

\* []= with a range: the elements before its start, the new ones, and the
\* elements from its end on.
StoreRange(r, s) ==
    LET from == IF RangeStart(r) < 0 THEN 0 ELSE RangeStart(r)
        to   == IF RangeStop(r) > mem.len THEN mem.len ELSE RangeStop(r)
    IN  /\ from <= mem.len /\ to >= 0  \* outside, the code reads past the slots in use
        /\ Change("[]=range", SubSeq(Content, 1, from) \o s \o SubSeq(Content, to + 1, mem.len),
                  Arr(s))

Replace(s) == Change("replace", s, Self)

\* Mutant of Cut: one element behind the cut is lost.
CutOneMore(j, n, single) ==
    LET k == IF j + n > mem.len THEN mem.len - j ELSE n
        removed == SubSeq(Content, j + 1, j + k)
    IN  IF j < 0 \/ j > mem.len \/ n < 0 THEN Change("slice!", Content, Elem(Nil))
        ELSE Change("slice!", SubSeq(Content, 1, j) \o SubSeq(Content, j + k + 2, mem.len),
                    IF single /\ k = 1 THEN Elem(removed[1]) ELSE Arr(removed))

\* slice! cuts `n` elements from position `j`.
Cut(j, n, single) ==
    LET k == IF j + n > mem.len THEN mem.len - j ELSE n
        removed == SubSeq(Content, j + 1, j + k)
    IN  IF j < 0 \/ j > mem.len \/ n < 0 THEN Change("slice!", Content, Elem(Nil))
        ELSE Change("slice!", SubSeq(Content, 1, j) \o SubSeq(Content, j + k + 1, mem.len),
                    IF single /\ k = 1 THEN Elem(removed[1]) ELSE Arr(removed))

SliceBang(i) == Cut(FromEnd(i), 1, TRUE)
SliceBangMany(i, n) == Cut(FromEnd(i), n, FALSE)
SliceBangRange(r) == Cut(RangeStart(r), RangeStop(r) - RangeStart(r), FALSE)

\* out is nil when a bang method changed nothing.
SelfIf(changed) == IF changed THEN Self ELSE Elem(Nil)

CompactBang ==
    LET s == Without(Content, Nil) IN Change("compact!", s, SelfIf(Len(s) # mem.len))

ReverseBang == Change("reverse!", Reverse(Content), Self)

\* Insertion sort: each element moves left past those greater than it.
Placed(sorted, x) ==
    InsertAt(sorted, Max({0} \cup {i \in DOMAIN sorted : sorted[i] <= x}) + 1, x)
Sorted(s) ==
    LET sorted[n \in 0 .. Len(s)] == IF n = 0 THEN <<>> ELSE Placed(sorted[n - 1], s[n])
    IN  sorted[Len(s)]

\* sort fails on nil and an Integer, which it cannot compare (an array of nils
\* is sorted as it is); sort! then leaves the array alone and returns it, and
\* the failure is lost.
SortBang ==
    IF Contains(Content, Nil) THEN Change("sort!", Content, Self)
    ELSE Change("sort!", Sorted(Content), Self)

\* uniq! is answered where uniq is, before the frozen flag is looked at.
Unique(s) == Picked(s, {i \in DOMAIN s : \A j \in 1 .. i - 1 : s[j] # s[i]})

UniqBang == Write("uniq!", Unique(Content), SelfIf(Len(Unique(Content)) # mem.len))

RotateBang(by) ==
    Write("rotate!", [i \in 1 .. mem.len |-> Content[((i - 1 + by) % mem.len) + 1]], Self)

\* Fisher-Yates; n - 1 wraps on an empty array, which this action leaves out.
ShuffleBang ==
    /\ mem.len > 0
    /\ \E p \in Bijection(1 .. mem.len, 1 .. mem.len) :
           Write("shuffle!", [i \in 1 .. mem.len |-> Content[p[i]]], Self)

Freeze ==
    /\ frozen' = TRUE
    /\ last' = [op |-> "freeze", out |-> Self]
    /\ UNCHANGED <<mem, loop>>

-----------------------------------------------------------------------------
(***************************************************************************)
(* Iterators.  i is the position of the element whose block runs, w the    *)
(* next position an in-place filter writes, n the length when the iterator *)
(* started, acc the array it builds, elem the element it handed to the     *)
(* block.  changes, given and whole are there for the properties: how often *)
(* the block changed the array and, while it has not, what the block       *)
(* returned and the content at the start.                                  *)
(***************************************************************************)
Return(op, out, l) ==
    last' = [op |-> op, out |-> out, clean |-> l.changes = 0, given |-> l.given, whole |-> l.whole]

\* What an iterator returns when it runs out of elements.
Outcome(l, m) ==
    CASE l.op \in {"map", "select", "reject"} -> Arr(l.acc)
      [] l.op \in Filters      -> SelfIf(l.w # l.n)
      [] l.op \in {"find_index", "rindex"}    -> Elem(Nil)
      [] OTHER                                -> Self

\* Mutant of HasMore: the length at the start is taken for the length.
HasMoreByStart(l, m, i) == IF l.op \in Backward THEN i >= 0 ELSE i < l.n

\* The loop condition: forward iterators read len again for every element;
\* backward ones count down from the length they started with.
HasMore(l, m, i) ==
    CASE l.op \in Forward  -> i < m.len
      [] l.op \in Backward -> i >= 0
      [] l.op = "fill"     -> i < l.n

\* Hand the element at i to the block, or end.
Proceed(l, m, i) ==
    IF HasMore(l, m, i)
    THEN /\ mem' = m
         /\ loop' = [l EXCEPT !.i = i, !.elem = SlotAt(m, i)]
         /\ last' = [op |-> "block", out |-> Self]
    ELSE /\ mem' = IF l.op \in Filters THEN [m EXCEPT !.len = l.w] ELSE m
         /\ loop' = NoLoop
         /\ Return(l.op, Outcome(l, m), l)

Begin(op, m, first, n) ==
    Proceed([op |-> op, i |-> first, w |-> 0, n |-> n, acc |-> <<>>, elem |-> Nil,
             changes |-> 0, given |-> <<>>, whole |-> Content], m, first)

StartLoop(op) ==
    /\ loop = NoLoop
    /\ UNCHANGED frozen
    /\ IF frozen /\ op \in InPlace
       THEN /\ last' = [op |-> op, out |-> Raised("FrozenError")]
            /\ UNCHANGED <<mem, loop>>
       ELSE CASE op \in Forward  -> Begin(op, mem, 0, mem.len)
              [] op \in Backward -> Begin(op, mem, mem.len - 1, mem.len)

\* fill with a block: the array first grows to the end of the part to fill.
StartFill(start, count) ==
    LET from == IF FromEnd(start) < 0 THEN 0 ELSE FromEnd(start)
        end == from + count
        grown == Rewrite(Content \o [k \in 1 .. end - mem.len |-> Nil])
    IN  /\ loop = NoLoop
        /\ end <= MaxLen
        /\ UNCHANGED frozen
        /\ IF frozen
           THEN /\ last' = [op |-> "fill", out |-> Raised("FrozenError")]
                /\ UNCHANGED <<mem, loop>>
           ELSE Begin("fill", grown, from, end)

\* What the iterator does with the value r of its block.  map! and fill write
\* r, a filter that keeps the element copies the slot at i, read again now.
Written(l, r) ==
    CASE l.op \in {"map!", "fill"} -> [mem EXCEPT !.buf[l.i + 1] = r]
      [] \/ l.op = "select!" /\ Truthy(r)
         \/ l.op = "reject!" /\ ~Truthy(r) -> [mem EXCEPT !.buf[l.w + 1] = SlotAt(mem, l.i)]
      [] OTHER -> mem

\* Mutant of Collected: reject keeps what select keeps.
CollectedSame(l, r) ==
    CASE l.op = "map" -> Append(l.acc, r)
      [] l.op \in {"select", "reject"} /\ Truthy(r) -> Append(l.acc, l.elem)
      [] OTHER -> l.acc

Collected(l, r) ==
    CASE l.op = "map" -> Append(l.acc, r)
      [] \/ l.op = "select" /\ Truthy(r)
         \/ l.op = "reject" /\ ~Truthy(r) -> Append(l.acc, l.elem)
      [] OTHER -> l.acc

Kept(l, r) ==
    \/ l.op = "select!" /\ Truthy(r)
    \/ l.op = "reject!" /\ ~Truthy(r)

BlockReturns(r) ==
    LET l == [loop EXCEPT !.acc = Collected(loop, r),
                          !.w = IF Kept(loop, r) THEN loop.w + 1 ELSE loop.w,
                          !.given = IF loop.changes = 0 THEN Append(@, r) ELSE @]
    IN  /\ loop # NoLoop
        /\ UNCHANGED frozen
        /\ IF loop.op \in {"find_index", "rindex"} /\ Truthy(r)
           THEN /\ mem' = mem
                /\ loop' = NoLoop
                /\ Return(l.op, [k |-> "index", at |-> l.i], l)
           ELSE Proceed(l, Written(loop, r),
                        IF l.op \in Backward THEN l.i - 1 ELSE l.i + 1)

\* break, or an exception: the iterator returns at once and leaves the slots
\* as they are.
BlockLeaves ==
    /\ loop # NoLoop
    /\ loop' = NoLoop
    /\ last' = [op |-> loop.op, out |-> [k |-> "left"]]
    /\ UNCHANGED <<mem, frozen>>

-----------------------------------------------------------------------------
Init ==
    /\ \E s \in BoundedSeq(Elems, MaxLen) : mem = [buf |-> s, len |-> Len(s)]
    /\ frozen = FALSE
    /\ loop = NoLoop
    /\ last = [op |-> "new", out |-> Self]

Mutate ==
    \/ \E v \in Elems : Push(v) \/ Delete(v)
    \/ \E s \in Arguments : Concat(s) \/ Unshift(s) \/ Replace(s)
    \/ Pop \/ Shift \/ Clear
    \/ \E n \in -1 .. MaxLen + 1 : PopMany(n) \/ ShiftMany(n) \/ RotateBang(n)
    \/ \E i \in Indices :
           \/ DeleteAt(i) \/ SliceBang(i)
           \/ \E v \in Elems : Store(i, v)
           \/ \E s \in Arguments : Insert(i, s)
           \/ \E n \in {-1, 2} : SliceBangMany(i, n)
    \/ \E r \in Ranges :
           \/ SliceBangRange(r)
           \/ \E s \in Arguments : StoreRange(r, s)
    \/ CompactBang \/ ReverseBang \/ SortBang \/ UniqBang \/ ShuffleBang
    \/ Freeze

Iterate ==
    \/ \E op \in Forward \cup Backward : StartLoop(op)
    \/ \E start \in {-1, 0, 1}, count \in {0, 2} : StartFill(start, count)
    \/ \E r \in Elems : BlockReturns(r)
    \/ BlockLeaves

Next == Mutate \/ Iterate

Spec == Init /\ [][Next]_vars

-----------------------------------------------------------------------------
(***************************************************************************)
(* Properties                                                              *)
(***************************************************************************)
\* Types: the live slots are among those in use, and a running iterator
\* stands at a slot in use, its write position not past its read position.
TypeOK ==
    /\ mem.buf \in BoundedSeq(Elems, MaxLen) /\ mem.len \in 0 .. Len(mem.buf)
    /\ frozen \in BOOLEAN
    /\ loop # NoLoop =>
           /\ loop.op \in LoopOps /\ loop.i \in 0 .. Len(mem.buf) - 1
           /\ loop.w \in 0 .. loop.i /\ loop.elem \in Elems

\* A step of the running iterator, as opposed to one of its block.
Stepped == loop # NoLoop /\ loop' \notin {loop, Disturbed}

\* A forward iterator hands its block live elements only, whatever the block
\* did to the array before: the loops of each, map, select ... read len again.
ForwardReadsLive ==
    [][ (loop' # NoLoop /\ (loop = NoLoop \/ Stepped)) =>
            (loop'.op \in Forward => loop'.i < mem'.len) ]_vars

\* A frozen array keeps its content.  The exceptions are the code's: three
\* methods never look at the flag, and an in-place iterator looked at it only
\* before its first block ran.
FrozenKeeps ==
    [][ (frozen /\ Content' # Content) =>
            \/ last'.op \in {"uniq!", "rotate!", "shuffle!"}
            \/ Stepped /\ loop.op \in InPlace ]_vars

\* The elements of s for which the block returned a member of keep.
Chosen(s, given, keep) == Picked(s, {i \in DOMAIN s : given[i] \in keep})
Keeping(op) == IF op \in {"select", "select!"} THEN Vals ELSE {Nil}

\* An iterator whose block leaves the array alone calls it once for each
\* element in order and returns, or leaves in the array, what its name says:
\* s is the content at its start, t that at its end, g what the block returned.
Meant(op, out, s, g, t) ==
    /\ op = "map" => out = Arr(g)
    /\ op \in {"select", "reject"} => out = Arr(Chosen(s, g, Keeping(op)))
    /\ op = "map!" => t = g
    /\ op \in Filters => t = Chosen(s, g, Keeping(op)) /\ out = SelfIf(t # s)
    /\ op = "find_index" /\ out.k = "index" =>
           Truthy(g[out.at + 1]) /\ \A i \in 1 .. out.at : ~Truthy(g[i])
    /\ op = "rindex" /\ out.k = "index" =>
           /\ Truthy(Last(g)) /\ out.at = Len(s) - Len(g)
           /\ \A i \in 1 .. Len(g) - 1 : ~Truthy(g[i])
    /\ op \in {"find_index", "rindex"} /\ out.k # "index" => \A i \in DOMAIN g : ~Truthy(g[i])
    /\ op \in Forward \cup Backward /\ out.k # "index" => Len(g) = Len(s)
UndisturbedResult ==
    [][ (loop' = NoLoop /\ "whole" \in DOMAIN last' /\ last'.clean) =>
            Meant(last'.op, last'.out, last'.whole, last'.given, Content') ]_vars

IsSubsequence(s, t) ==
    \E f \in [DOMAIN s -> DOMAIN t] :
        /\ \A i, j \in DOMAIN s : i < j => f[i] < f[j]
        /\ \A i \in DOMAIN s : s[i] = t[f[i]]

Count(s, v) == Cardinality({i \in DOMAIN s : s[i] = v})

\* The methods lose and invent nothing: reordering keeps every element as
\* often as it was (and sort! puts them in order), adding keeps the old content in order, removing leaves
\* part of it in order and, where it returns what it removed, the rest of it.
Reordering == {"sort!", "reverse!", "rotate!", "shuffle!"}
Adding == {"push", "concat", "unshift", "insert"}
Cutting == {"pop", "shift", "slice!"}
Removing == Cutting \cup {"delete", "delete_at", "compact!", "uniq!"}
Conserved(op, out, s, t) ==
    /\ op \in Reordering => \A v \in Elems : Count(t, v) = Count(s, v)
    /\ op = "sort!" /\ ~Contains(s, Nil) => \A i, j \in DOMAIN t : i < j => t[i] <= t[j]
    /\ op \in Adding => IsSubsequence(s, t)
    /\ op \in Removing => IsSubsequence(t, s)
    /\ op \in Cutting /\ out.k = "array" =>
           \A v \in Elems : Count(t, v) + Count(out.seq, v) = Count(s, v)
    /\ op = "uniq!" => ToSet(t) = ToSet(s) /\ IsInjective(t)
ElementsConserved ==
    [][ (~Stepped /\ last'.out.k # "raised") =>
            Conserved(last'.op, last'.out, Content, Content') ]_vars

\* While a filter works in place, the slots before its write position hold
\* what it has kept so far and those it has not reached are as they were.
FilterCursor ==
    (loop # NoLoop /\ loop.op \in Filters /\ loop.changes = 0) =>
        LET done == SubSeq(loop.whole, 1, loop.i)
        IN  /\ SubSeq(mem.buf, 1, loop.w) = Chosen(done, loop.given, Keeping(loop.op))
            /\ SubSeq(mem.buf, loop.i + 1, mem.len) = SubSeq(loop.whole, loop.i + 1, mem.len)

\* The two positions of an iterator never leave what they are to stay in, whatever its
\* block does to the array.
CursorsRight == [](TypeOK /\ FilterCursor) /\ ForwardReadsLive

\* An element comes and goes by the methods that say so alone, and in a frozen array
\* by none that looks at the flag.
ContentKept == ElementsConserved /\ FrozenKeeps
=============================================================================
