---------------------------- MODULE ArrayQueries ----------------------------
(***************************************************************************)
(* The methods of dispatch_array that build a result and leave the array   *)
(* alone: indexing, sets, searching, sorting, grouping, combinatorics.     *)
(* An array is a sequence; a block without effects is a function from      *)
(* elements to what the block returns.  Loops over elements that the C     *)
(* code writes out are folds or recursive operators here; each group is    *)
(* followed by the properties that say what it computes.                   *)
(***************************************************************************)
EXTENDS Integers, FiniteSets, SequencesExt, Calls

CONSTANTS
    Ints,    \* the elements, integers
    MaxLen,  \* bound on the length of an array
    MaxArg   \* bound on an index or a count, in both directions

ASSUME QueriesAssumption ==
    /\ Ints \subseteq Int /\ IsFiniteSet(Ints)
    /\ Nil \notin Int
    /\ {MaxLen, MaxArg} \subseteq Nat

Arrays == BoundedSeq(Ints, MaxLen)
ShortArrays == BoundedSeq(Ints, 3)
Args == -MaxArg .. MaxArg
Failed(class) == [raised |-> class]

-----------------------------------------------------------------------------
(***************************************************************************)
(* Indexing                                                                *)
(***************************************************************************)
FromEnd(s, i) == IF i < 0 THEN i + Len(s) ELSE i

At(s, i) ==
    LET j == FromEnd(s, i) IN IF j \in 0 .. Len(s) - 1 THEN s[j + 1] ELSE Nil

\* fetch(i): the element, or an error where at gives nil.
Fetch(s, i) ==
    LET j == FromEnd(s, i)
    IN  IF j \in 0 .. Len(s) - 1 THEN s[j + 1] ELSE Failed("IndexError")

\* Mutant of Slice: a slice may start at the last element at most.
SliceInside(s, i, n) ==
    LET j == FromEnd(s, i)
    IN  IF j < 0 \/ j >= Len(s) \/ n < 0 THEN Nil
        ELSE SubSeq(s, j + 1, IF j + n > Len(s) THEN Len(s) ELSE j + n)

\* slice(i, n): nil when i is outside, else what there is of n elements.  A
\* slice that starts right behind the last element is empty, not nil.
Slice(s, i, n) ==
    LET j == FromEnd(s, i)
    IN  IF j < 0 \/ j > Len(s) \/ n < 0 THEN Nil
        ELSE SubSeq(s, j + 1, IF j + n > Len(s) THEN Len(s) ELSE j + n)

\* slice(a..b), where Nil stands for an end that is missing.
SliceRange(s, r) ==
    LET from == FromEnd(s, r.from)
        to == (IF r.to = Nil THEN Len(s) ELSE FromEnd(s, r.to)) + IF r.exclusive THEN 0 ELSE 1
    IN  IF from < 0 THEN Nil ELSE Slice(s, from, to - from)

First(s, n) == SubSeq(s, 1, IF n < 0 THEN 0 ELSE IF n > Len(s) THEN Len(s) ELSE n)

LastN(s, n) ==
    LET k == IF n < 0 THEN 0 ELSE IF n > Len(s) THEN Len(s) ELSE n
    IN  SubSeq(s, Len(s) - k + 1, Len(s))

ValuesAt(s, indices) == [k \in DOMAIN indices |-> At(s, indices[k])]

\* A range argument [from, to, exclusive]; values_at takes integers only.
RangeArgs == [from : Args, to : Args \cup {Nil}, exclusive : BOOLEAN]

-----------------------------------------------------------------------------
(***************************************************************************)
(* Elements as sets                                                        *)
(***************************************************************************)
Uniq(s) == FoldLeft(LAMBDA acc, x : IF Contains(acc, x) THEN acc ELSE Append(acc, x), <<>>, s)

Minus(s, t) == SelectSeq(s, LAMBDA x : ~Contains(t, x))

Both(s, t) == Uniq(SelectSeq(s, LAMBDA x : Contains(t, x)))

Either(s, t) == Uniq(s \o t)

\* union, intersection and difference take several arrays, one after another.
Intersection(s, ts) == FoldLeft(Both, s, ts)
Union(s, ts) == FoldLeft(Either, s, ts)
Difference(s, ts) == FoldLeft(Minus, s, ts)

Intersects(s, t) == \E x \in ToSet(s) : Contains(t, x)

-----------------------------------------------------------------------------
(***************************************************************************)
(* Searching and sorting                                                   *)
(***************************************************************************)
Index(s, x) ==
    IF Contains(s, x) THEN (CHOOSE i \in DOMAIN s : s[i] = x /\ \A j \in 1 .. i - 1 : s[j] # x) - 1
    ELSE Nil

RIndex(s, x) ==
    IF Contains(s, x)
    THEN (CHOOSE i \in DOMAIN s : s[i] = x /\ \A j \in i + 1 .. Len(s) : s[j] # x) - 1
    ELSE Nil

\* Insertion sort of pairs [key, id] by key: x stops behind the first element,
\* from the right, that is not greater.
Place(sorted, x) ==
    LET k == Len(SelectSeq(sorted, LAMBDA y : y.key <= x.key)) IN InsertAt(sorted, k + 1, x)

SortPairs(ps) == FoldLeft(Place, <<>>, ps)

\* sort with a block that compares keys: the elements carry their positions.
Sort(s) == SortPairs([i \in DOMAIN s |-> [key |-> s[i], id |-> i]])

SortInts(s) == [i \in DOMAIN s |-> Sort(s)[i].key]

MinN(s, n) == IF n < 0 THEN Failed("ArgumentError") ELSE First(SortInts(s), n)
MaxN(s, n) == IF n < 0 THEN Failed("ArgumentError") ELSE First(Reverse(SortInts(s)), n)

\* min and max keep the first of equal elements, comparing from the left.
Min1(s) == IF s = <<>> THEN Nil
           ELSE FoldLeft(LAMBDA m, x : IF x < m THEN x ELSE m, s[1], s)
Max1(s) == IF s = <<>> THEN Nil
           ELSE FoldLeft(LAMBDA m, x : IF x > m THEN x ELSE m, s[1], s)

\* bsearch: halve lo .. hi until it is empty.  block[x] is a truth value
\* (find-minimum mode) or an integer (find-any mode).
RECURSIVE FindMinimum(_, _, _, _), FindAny(_, _, _, _)
FindMinimum(s, block, lo, hi) ==
    LET mid == lo + (hi - lo) \div 2
    IN  IF lo >= hi THEN (IF lo >= Len(s) THEN Nil ELSE lo)
        ELSE IF block[s[mid + 1]] THEN FindMinimum(s, block, lo, mid)
        ELSE FindMinimum(s, block, mid + 1, hi)

FindAny(s, block, lo, hi) ==
    LET mid == lo + (hi - lo) \div 2
        cmp == block[s[mid + 1]]
    IN  IF lo >= hi THEN Nil
        ELSE IF cmp = 0 THEN mid
        ELSE IF cmp > 0 THEN FindAny(s, block, mid + 1, hi)
        ELSE FindAny(s, block, lo, mid)

BsearchIndex(s, block) == FindMinimum(s, block, 0, Len(s))
BsearchAny(s, x) == FindAny(s, [y \in Ints |-> x - y], 0, Len(s))

-----------------------------------------------------------------------------
(***************************************************************************)
(* Grouping                                                                *)
(***************************************************************************)
\* The sequence of groups, cut before every position in cuts.
Groups(s, cuts) ==
    LET Add(acc, i) ==
            IF acc = <<>> \/ i \in cuts THEN Append(acc, <<s[i]>>)
            ELSE Append(Front(acc), Append(Last(acc), s[i]))
    IN  FoldLeft(Add, <<>>, [i \in DOMAIN s |-> i])

\* chunk: a group for every run of equal keys, with its key.
Chunk(s, block) ==
    LET gs == Groups(s, {i \in 2 .. Len(s) : block[s[i]] # block[s[i - 1]]})
    IN  [i \in DOMAIN gs |-> <<block[gs[i][1]], gs[i]>>]

\* block is a set of pairs of neighbours that stay together.
ChunkWhile(s, block) == Groups(s, {i \in 2 .. Len(s) : <<s[i - 1], s[i]>> \notin block})
SliceWhen(s, block) == Groups(s, {i \in 2 .. Len(s) : <<s[i - 1], s[i]>> \in block})

SliceBefore(s, block) == Groups(s, {i \in DOMAIN s : block[s[i]]})

ZipArrays(s, ts) ==
    [i \in DOMAIN s |->
        <<s[i]>> \o [k \in DOMAIN ts |-> IF i <= Len(ts[k]) THEN ts[k][i] ELSE Nil]]

\* The first row decides the number of columns; what a row lacks is nil.
Transpose(rows) ==
    IF rows = <<>> THEN <<>>
    ELSE [c \in DOMAIN rows[1] |->
             [r \in DOMAIN rows |-> IF c <= Len(rows[r]) THEN rows[r][c] ELSE Nil]]

Rotate(s, by) == [i \in DOMAIN s |-> s[((i - 1 + by) % Len(s)) + 1]]

Times(s, n) == IF n < 0 THEN Failed("ArgumentError") ELSE FlattenSeq([k \in 1 .. n |-> s])

-----------------------------------------------------------------------------
(***************************************************************************)
(* Combinatorics.  The helpers fill `current` from left to right and emit  *)
(* it when it has k elements; the positions are 1 .. n here.               *)
(***************************************************************************)
RECURSIVE Choose(_, _, _, _), Arrange(_, _, _), ChooseAgain(_, _, _, _), Tuples(_)

\* Concatenate what F gives for the positions lo .. n, in order.
EachFrom(lo, n, F(_)) == FlattenSeq([k \in 1 .. n - lo + 1 |-> F(lo + k - 1)])

Choose(s, k, start, current) ==
    IF Len(current) = k THEN <<current>>
    ELSE EachFrom(start, Len(s) - (k - Len(current)) + 1,
                  LAMBDA i : Choose(s, k, i + 1, Append(current, s[i])))

Arrange(s, k, used) ==
    IF Len(used) = k THEN <<[j \in DOMAIN used |-> s[used[j]]]>>
    ELSE EachFrom(1, Len(s),
                  LAMBDA i : IF Contains(used, i) THEN <<>> ELSE Arrange(s, k, Append(used, i)))

ChooseAgain(s, k, start, current) ==
    IF Len(current) = k THEN <<current>>
    ELSE EachFrom(start, Len(s), LAMBDA i : ChooseAgain(s, k, i, Append(current, s[i])))

Tuples(arrays) ==
    IF arrays = <<>> THEN << <<>> >>
    ELSE EachFrom(1, Len(arrays[1]),
                  LAMBDA i : [j \in DOMAIN Tuples(Tail(arrays)) |->
                                 <<arrays[1][i]>> \o Tuples(Tail(arrays))[j]])

\* A count is converted to size_t: a negative one is greater than any length.
Combination(s, k) ==
    IF k = 0 THEN << <<>> >> ELSE IF k < 0 \/ k > Len(s) THEN <<>> ELSE Choose(s, k, 1, <<>>)
Permutation(s, k) ==
    IF k = 0 THEN << <<>> >> ELSE IF k < 0 \/ k > Len(s) THEN <<>> ELSE Arrange(s, k, <<>>)
RepeatedCombination(s, k) ==
    IF k = 0 THEN << <<>> >> ELSE IF s = <<>> THEN <<>> ELSE ChooseAgain(s, k, 1, <<>>)
RepeatedPermutation(s, k) ==
    IF k = 0 THEN << <<>> >> ELSE IF s = <<>> THEN <<>> ELSE Tuples([j \in 1 .. k |-> s])
Product(s, ts) == Tuples(<<s>> \o ts)

-----------------------------------------------------------------------------
(***************************************************************************)
(* The calls                                                               *)
(***************************************************************************)
\* The blocks of find-minimum searches, and the pairs a grouping block accepts.
AtLeast(x) == [y \in Ints |-> y >= x]
Pairings == {{p \in Ints \X Ints : p[1] < p[2]}, {p \in Ints \X Ints : p[2] = p[1] + 1}}

Positions == {[i \in 1 .. n |-> i] : n \in 0 .. MaxLen}

IndexCall ==
    \E s \in Arrays :
        \/ \E i \in Args :
               \/ Make([op |-> "at", s |-> s, i |-> i, res |-> At(s, i)])
               \/ Make([op |-> "fetch", s |-> s, i |-> i, res |-> Fetch(s, i)])
               \/ Make([op |-> "first", s |-> s, i |-> i, res |-> First(s, i)])
               \/ Make([op |-> "last", s |-> s, i |-> i, res |-> LastN(s, i)])
               \/ Make([op |-> "rotate", s |-> s, i |-> i, res |-> Rotate(s, i)])
               \/ \E n \in Args :
                      \/ Make([op |-> "slice", s |-> s, i |-> i, n |-> n, res |-> Slice(s, i, n)])
                      \/ Make([op |-> "values_at", s |-> s, i |-> i, n |-> n,
                               res |-> ValuesAt(s, <<i, n>>)])
        \/ \E r \in RangeArgs :
               Make([op |-> "slice_range", s |-> s, r |-> r, res |-> SliceRange(s, r)])

SetCall ==
    \E s, t \in ShortArrays :
        \/ Make([op |-> "difference", s |-> s, t |-> t, res |-> Difference(s, <<t>>)])
        \/ Make([op |-> "intersection", s |-> s, t |-> t, res |-> Intersection(s, <<t, s>>)])
        \/ Make([op |-> "union", s |-> s, t |-> t, res |-> Union(s, <<t>>)])
        \/ Make([op |-> "intersect?", s |-> s, t |-> t, yes |-> Intersects(s, t)])

SearchCall ==
    \E s \in Arrays :
        \/ Make([op |-> "sort", s |-> s, res |-> Sort(s)])
        \/ Make([op |-> "minmax", s |-> s, res |-> <<Min1(s), Max1(s)>>])
        \/ \E x \in Args :
               Make([op |-> "min(n)", s |-> s, n |-> x, res |-> <<MinN(s, x), MaxN(s, x)>>])
        \/ \E x \in Ints :
               \/ Make([op |-> "index", s |-> s, x |-> x, res |-> <<Index(s, x), RIndex(s, x)>>])
               \/ Make([op |-> "bsearch_index", s |-> s, x |-> x,
                        res |-> BsearchIndex(s, AtLeast(x))])
               \/ Make([op |-> "bsearch", s |-> s, x |-> x, res |-> BsearchAny(s, x)])

GroupCall ==
    \/ \E s \in Arrays :
        \/ \E x \in Ints :
               \/ Make([op |-> "chunk", s |-> s, x |-> x, res |-> Chunk(s, AtLeast(x))])
               \/ Make([op |-> "slice_before", s |-> s, x |-> x,
                        res |-> SliceBefore(s, AtLeast(x))])
        \/ \E b \in Pairings :
               \/ Make([op |-> "chunk_while", s |-> s, b |-> b, res |-> ChunkWhile(s, b)])
               \/ Make([op |-> "slice_when", s |-> s, b |-> b, res |-> SliceWhen(s, b)])
        \/ \E n \in -1 .. 2 : Make([op |-> "*", s |-> s, n |-> n, res |-> Times(s, n)])
    \/ \E s, t \in ShortArrays :
        \/ Make([op |-> "zip", s |-> s, t |-> t, res |-> ZipArrays(s, <<t>>)])
        \/ Make([op |-> "transpose", s |-> s, t |-> t, res |-> Transpose(<<s, t>>)])

CombinatoricsCall ==
    \E s \in Positions :
        \/ \E k \in -1 .. MaxLen + 1 :
               \/ Make([op |-> "combination", s |-> s, k |-> k, res |-> Combination(s, k)])
               \/ Make([op |-> "permutation", s |-> s, k |-> k, res |-> Permutation(s, k)])
        \/ \E k \in 0 .. 3 :
               \/ Make([op |-> "repeated_combination", s |-> s, k |-> k,
                        res |-> RepeatedCombination(s, k)])
               \/ Make([op |-> "repeated_permutation", s |-> s, k |-> k,
                        res |-> RepeatedPermutation(s, k)])
        \/ \E t \in Positions :
               Make([op |-> "product", s |-> s, t |-> t, res |-> Product(s, <<t>>)])

ArrayQueryCall ==
    NoCall /\ (IndexCall \/ SetCall \/ SearchCall \/ GroupCall \/ CombinatoricsCall)

-----------------------------------------------------------------------------
(***************************************************************************)
(* What the calls return                                                   *)
(***************************************************************************)
Is(op) == call.op = op

\* The elements of s at the C positions in P, in order.
Taken(s, P) ==
    FoldLeft(LAMBDA acc, i : IF i - 1 \in P THEN Append(acc, s[i]) ELSE acc,
             <<>>, [i \in DOMAIN s |-> i])

\* Every way of indexing agrees on which positions an index, a count and the
\* ends of a range stand for, at both ends of the array and beyond them: the
\* bounds of slice, first, last, at, fetch and values_at.
IndexingAgrees ==
    LET s == call.s  n == Len(s)
        at(i) == IF i \in 0 .. n - 1 THEN s[i + 1]
                 ELSE IF i \in -n .. -1 THEN s[n + i + 1] ELSE Nil
        place(i) == IF i < 0 THEN n + i ELSE i
    IN  CASE Is("at")    -> call.res = at(call.i)
          [] Is("fetch") -> call.res = IF place(call.i) \in 0 .. n - 1 THEN at(call.i)
                                       ELSE Failed("IndexError")
          [] Is("first") -> call.res = Taken(s, 0 .. call.i - 1)
          [] Is("last")  -> call.res = Taken(s, n - call.i .. n - 1)
          [] Is("slice") ->
                 call.res = IF place(call.i) \in 0 .. n /\ call.n >= 0
                            THEN Taken(s, place(call.i) .. place(call.i) + call.n - 1) ELSE Nil
          [] Is("slice_range") ->
                 LET from == place(call.r.from)
                     to == IF call.r.to = Nil THEN n - 1 + IF call.r.exclusive THEN 0 ELSE 1
                           ELSE place(call.r.to) - IF call.r.exclusive THEN 1 ELSE 0
                 IN  call.res = IF from \notin 0 .. n \/ to < from - 1 THEN Nil
                                ELSE Taken(s, from .. to)
          [] Is("values_at") -> call.res = <<at(call.i), at(call.n)>>
          [] Is("rotate") ->
                 /\ Len(call.res) = n
                 /\ \A i \in 0 .. n - 1 : call.res[i + 1] = s[((i + call.i) % n) + 1]
          [] OTHER -> TRUE

Ascending(ks) == \A i \in 1 .. Len(ks) - 1 : ks[i] <= ks[i + 1]
FirstIn(s, P) == {i \in DOMAIN s : s[i] \in P /\ \A j \in 1 .. i - 1 : s[j] \notin P}

\* The elements of a result that is a set: which they are, without repetition
\* and in the order of their first occurrence in `from`.
FirstOccurrences(res, from, members) ==
    /\ ToSet(res) = members /\ IsInjective(res)
    /\ \A i \in 1 .. Len(res) - 1 :
           \E a \in FirstIn(from, {res[i]}), b \in FirstIn(from, {res[i + 1]}) : a < b

\* union and intersection are sets in the order of first occurrence, while
\* difference keeps what repeats.
SetResults ==
    CASE Is("union") -> FirstOccurrences(call.res, call.s \o call.t, ToSet(call.s) \cup ToSet(call.t))
      [] Is("intersection") ->
             FirstOccurrences(call.res, call.s, ToSet(call.s) \cap ToSet(call.t))
      [] Is("difference") ->
             /\ ToSet(call.res) = ToSet(call.s) \ ToSet(call.t)
             /\ Len(call.res) = Cardinality({i \in DOMAIN call.s : call.s[i] \notin ToSet(call.t)})
      [] OTHER -> TRUE

\* sort is a stable permutation, min and max agree with it, and a binary search
\* finds what a walk from the left finds whenever the array is sorted; on any
\* array it ends and does not return an element that its block turned down.  What
\* the set operations return are sets in order.
SearchRight ==
    LET s == call.s  n == Len(s)
    IN  CASE Is("sort") ->
                 /\ Ascending([i \in DOMAIN call.res |-> call.res[i].key])
                 /\ {x \in ToSet(call.res) : TRUE} = {[key |-> s[i], id |-> i] : i \in DOMAIN s}
                 /\ Len(call.res) = n
                 /\ \A i \in 1 .. n - 1 :
                        call.res[i].key = call.res[i + 1].key => call.res[i].id < call.res[i + 1].id
          [] Is("minmax") /\ n > 0 ->
                 /\ \A x \in ToSet(s) : call.res[1] <= x /\ x <= call.res[2]
                 /\ {call.res[1], call.res[2]} \subseteq ToSet(s)
          [] Is("min(n)") /\ call.n >= 0 ->
                 /\ \A k \in 1 .. 2 : Len(call.res[k]) = IF call.n < n THEN call.n ELSE n
                 /\ Ascending(call.res[1]) /\ Ascending(Reverse(call.res[2]))
                 /\ call.n >= n => call.res[1] = Reverse(call.res[2])
          [] Is("index") ->
                 /\ FirstIn(s, {call.x}) = {i \in DOMAIN s : i - 1 = call.res[1]}
                 /\ \A i \in FirstIn(Reverse(s), {call.x}) : call.res[2] = n - i
          [] Is("bsearch_index") ->
                 /\ call.res # Nil => s[call.res + 1] >= call.x
                 /\ Ascending(s) =>
                        FirstIn(s, call.x .. Max(Ints)) = {i \in DOMAIN s : i - 1 = call.res}
          [] Is("bsearch") ->
                 /\ call.res # Nil => s[call.res + 1] = call.x
                 /\ Ascending(s) => (call.res = Nil) = (call.x \notin ToSet(s))
          [] Is("intersect?") -> call.yes = (Intersection(s, <<call.t>>) # <<>>)
          [] OTHER -> SetResults

Less(p, q) == \E i \in DOMAIN p : p[i] < q[i] /\ \A j \in 1 .. i - 1 : p[j] = q[j]

\* res lists the members of S, each once, in lexicographic order.
ListsInOrder(res, S) ==
    ToSet(res) = S /\ \A i \in 1 .. Len(res) - 1 : Less(res[i], res[i + 1])

Selections(n, k, Fits(_)) == {f \in [1 .. k -> 1 .. n] : Fits(f)}

\* The combinatorial methods list exactly the selections their names say, each
\* once and in lexicographic order of the positions.
CombinatoricsRight ==
    LET n == Len(call.s)
        any(f) == TRUE
        distinct(f) == IsInjective(f)
        rising(f) == \A i, j \in DOMAIN f : i < j => f[i] < f[j]
        level(f) == \A i, j \in DOMAIN f : i < j => f[i] <= f[j]
        expected(Fits(_)) == IF call.k < 0 THEN {} ELSE Selections(n, call.k, Fits)
    IN  CASE Is("combination")          -> ListsInOrder(call.res, expected(rising))
          [] Is("permutation")          -> ListsInOrder(call.res, expected(distinct))
          [] Is("repeated_combination") -> ListsInOrder(call.res, expected(level))
          [] Is("repeated_permutation") -> ListsInOrder(call.res, expected(any))
          [] Is("product") -> ListsInOrder(call.res, (1 .. n) \X (1 .. Len(call.t)))
          [] OTHER -> TRUE

\* The grouping methods lose and reorder nothing, and they cut exactly where
\* their block says, no matter at which end of the array.
GroupsRight ==
    LET s == call.s
        gs == IF Is("chunk") THEN [i \in DOMAIN call.res |-> call.res[i][2]] ELSE call.res
        starts == {Len(FlattenSeq(SubSeq(gs, 1, k))) + 1 : k \in 1 .. Len(gs) - 1}
        inner == 2 .. Len(s)
    IN  Is("chunk") \/ Is("slice_before") \/ Is("chunk_while") \/ Is("slice_when") =>
            /\ FlattenSeq(gs) = s
            /\ \A g \in ToSet(gs) : g # <<>>
            /\ starts = CASE Is("chunk") ->
                                 {i \in inner : (s[i] >= call.x) # (s[i - 1] >= call.x)}
                          [] Is("slice_before") -> {i \in inner : s[i] >= call.x}
                          [] Is("chunk_while") -> {i \in inner : <<s[i - 1], s[i]>> \notin call.b}
                          [] Is("slice_when") -> {i \in inner : <<s[i - 1], s[i]>> \in call.b}

\* Elements are found where the index, the order and the block say, and nothing is lost,
\* invented or reordered when arrays are taken apart into selections and groups.
QueriesRight == IndexingAgrees /\ SearchRight /\ CombinatoricsRight /\ GroupsRight
=============================================================================
