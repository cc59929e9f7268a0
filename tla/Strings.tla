-------------------------------- MODULE Strings --------------------------------
(***************************************************************************)
(* The methods of String (eval_dispatch_primitives.c) over the bytes that  *)
(* make up a string, with the helpers of utf8.c, and what they leave in the*)
(* variable they are called on (eval_dispatch.c).                          *)
(*                                                                         *)
(* Bytes are numbers: a space, lower case letters from a to z (there are   *)
(* three), digits, a newline, the dash and the caret of character patterns,*)
(* and the two bytes of the one wide character.  Results that may be nil   *)
(* are sequences of at most one result.                                    *)
(***************************************************************************)
EXTENDS Calls, Integers, Sequences, FiniteSets, SequencesExt

CONSTANTS MaxText,   \* characters of a receiver
          Places     \* the integers given as positions, lengths and limits

Space == 0
LetterA == 1
LetterZ == 3
DigitZero == 4
DigitOne == 5
DigitNine == 6
Dash == 7
Caret == 8
Newline == 9
Lead == 10
Cont == 11
Wide == 12

\* The bytes of a sequence of characters.
Utf8(cs) == FlattenSeq([i \in DOMAIN cs |-> IF cs[i] = Wide THEN <<Lead, Cont>> ELSE <<cs[i]>>])

NoText == <<>>
NotFound == -1

-----------------------------------------------------------------------------
(***************************************************************************)
(* UTF-8.  Offsets count from 0.                                           *)
(***************************************************************************)
Starts(s) == {i \in DOMAIN s : s[i] # Cont}
CharCount(s) == Cardinality(Starts(s))

\* A negative index is a huge one after the cast to size_t.
\* Mutant: as if each character were one byte.
ByteOffsetOfByte(s, n) == IF n \in 0 .. Len(s) THEN n ELSE Len(s)
ByteOffset(s, n) ==
    LET at == {i \in Starts(s) : Cardinality({j \in Starts(s) : j < i}) = n}
    IN  IF at = {} THEN Len(s) ELSE Max(at) - 1

CharIndex(s, b) == Cardinality({i \in Starts(s) : i <= b})
PrevStart(s, e) == Max({0} \cup {i - 1 : i \in Starts(s) \cap 1 .. e})

\* n bytes from offset p; strstr from offset p.
Part(s, p, n) == SubSeq(s, p + 1, p + n)
After(s, p) == SubSeq(s, p + 1, Len(s))
Hits(s, needle) == {p \in 0 .. Len(s) - Len(needle) : Part(s, p, Len(needle)) = needle}
StrStr(s, p, needle) ==
    LET hits == {h \in Hits(s, needle) : h >= p} IN IF hits = {} THEN NotFound ELSE Min(hits)

ToSpan(i, n) == IF i < 0 THEN i + n ELSE i
Least(a, b) == IF a < b THEN a ELSE b

-----------------------------------------------------------------------------
(***************************************************************************)
(* Parts of a string                                                       *)
(***************************************************************************)
ByteSlice(s, i, n) ==
    LET b == ToSpan(i, Len(s))
    IN  IF b < 0 \/ b > Len(s) \/ n < 0 THEN NoText ELSE <<Part(s, b, Least(n, Len(s) - b))>>

ByteSliceRange(s, r) ==
    LET n == Len(s)
        b == ToSpan(r.from, n)
        e == Least(ToSpan(r.to, n) - (IF r.ex THEN 1 ELSE 0), n - 1)
    IN  IF b < 0 \/ b > n THEN NoText ELSE <<Part(s, b, e - b + 1)>>

\* A part from the character i up to but not including the character e.
CharPart(s, i, e) == SubSeq(s, ByteOffset(s, i) + 1, ByteOffset(s, e))

CharSlice(s, i, n) ==
    LET b == ToSpan(i, CharCount(s))
    IN  IF b < 0 \/ b >= CharCount(s) \/ n < 0 THEN NoText
        ELSE <<CharPart(s, b, Least(b + n, CharCount(s)))>>

CharSliceRange(s, r) ==
    LET n == CharCount(s)
        b == ToSpan(r.from, n)
        e == ToSpan(r.to, n) + (IF r.ex THEN 0 ELSE 1)
    IN  IF b < 0 \/ b > n THEN NoText
        ELSE IF e < b THEN <<(<<>>)>> ELSE <<CharPart(s, b, Least(e, n))>>

Replaced(s, b, e, new) == SubSeq(s, 1, b) \o new \o After(s, e)

\* s[i, n] = new, s[from..to] = new and s[text] = new; none is an IndexError.
SetSlice(s, i, n, new) ==
    LET len == CharCount(s)
        b == ToSpan(i, len)
        take == IF n < 0 THEN 0 ELSE Least(n, len - b)
    IN  IF b < 0 \/ b > len THEN NoText
        ELSE <<Replaced(s, ByteOffset(s, b), ByteOffset(s, b + take), new)>>

SetRange(s, r, new) ==
    LET len == CharCount(s)
        b == IF ToSpan(r.from, len) < 0 THEN 0 ELSE ToSpan(r.from, len)
        e == ToSpan(r.to, len) + (IF r.ex THEN 0 ELSE 1)
    IN  <<Replaced(s, ByteOffset(s, b), ByteOffset(s, e), new)>>

SetText(s, old, new) ==
    LET at == StrStr(s, 0, old)
    IN  IF at = NotFound THEN NoText ELSE <<Replaced(s, at, at + Len(old), new)>>

\* insert counts in bytes.
Inserted(s, i, new) ==
    LET p == IF i < 0 THEN Len(s) + 1 + i ELSE i
        at == IF p < 0 THEN 0 ELSE Least(p, Len(s))
    IN  Replaced(s, at, at, new)

\* slice! counts in bytes too: the part that is cut out, and the rest.
SliceOut(s, i, n) ==
    LET b == ToSpan(i, Len(s))
    IN  IF b < 0 \/ b >= Len(s) \/ n < 0 THEN [part |-> NoText, rest |-> s]
        ELSE [part |-> <<Part(s, b, Least(n, Len(s) - b))>>,
              rest |-> Replaced(s, b, b + Least(n, Len(s) - b), <<>>)]

WithoutPrefix(s, t) == IF IsPrefix(t, s) THEN After(s, Len(t)) ELSE s
WithoutSuffix(s, t) == IF IsSuffix(t, s) THEN SubSeq(s, 1, Len(s) - Len(t)) ELSE s

IndexOf(s, needle, from) ==
    LET at == StrStr(s, ByteOffset(s, from), needle)
    IN  IF at = NotFound THEN NoText ELSE <<CharIndex(s, at)>>

\* The loop ends where the needle reaches past the limit.
RIndexOf(s, needle, limit) ==
    LET last == ByteOffset(s, limit)
        hits == {h \in Hits(s, needle) : h <= last /\ h + Len(needle) <= last + 1}
    IN  IF hits = {} THEN NoText ELSE <<CharIndex(s, Max(hits))>>

-----------------------------------------------------------------------------
(***************************************************************************)
(* Pieces                                                                  *)
(***************************************************************************)
IsSpace(c) == c \in {Space, Newline}

LeadingSpaces(s) == Cardinality({i \in DOMAIN s : \A j \in 1 .. i : IsSpace(s[j])})
WordLength(s) == Cardinality({i \in DOMAIN s : \A j \in 1 .. i : ~IsSpace(s[j])})

LStrip(s) == After(s, LeadingSpaces(s))
RStrip(s) == SubSeq(s, 1, Len(s) - LeadingSpaces(Reverse(s)))
Strip(s) == RStrip(LStrip(s))

Chomp(s) == WithoutSuffix(s, <<Newline>>)
Chop(s) == SubSeq(s, 1, PrevStart(s, Len(s)))

RECURSIVE ReverseChars(_)
ReverseChars(s) ==
    IF s = <<>> THEN s
    ELSE After(s, PrevStart(s, Len(s))) \o ReverseChars(SubSeq(s, 1, PrevStart(s, Len(s))))

\* split at runs of spaces; s begins with none.
RECURSIVE Words(_, _, _)
Words(s, limit, count) ==
    IF s = <<>> THEN <<>>
    ELSE IF limit > 0 /\ count >= limit - 1 THEN <<s>>
    ELSE <<SubSeq(s, 1, WordLength(s))>> \o Words(LStrip(After(s, WordLength(s))), limit, count + 1)

RECURSIVE Pieces(_, _, _, _)
Pieces(s, sep, limit, count) ==
    LET at == StrStr(s, 0, sep)
    IN  IF at = NotFound \/ (limit > 0 /\ count >= limit - 1) THEN <<s>>
        ELSE <<SubSeq(s, 1, at)>> \o Pieces(After(s, at + Len(sep)), sep, limit, count + 1)

CharsOf(s) == [k \in 1 .. CharCount(s) |-> CharPart(s, k - 1, k)]

WithoutEmptyEnd(ss) ==
    SubSeq(ss, 1, Cardinality({i \in DOMAIN ss : \E j \in i .. Len(ss) : ss[j] # <<>>}))

Split(s, sep, limit) ==
    IF sep = <<Space>> THEN Words(LStrip(s), limit, 0)
    ELSE LET pieces == IF sep = <<>> THEN CharsOf(s) ELSE Pieces(s, sep, limit, 0)
         IN  IF limit = 0 THEN WithoutEmptyEnd(pieces) ELSE pieces

RECURSIVE Lines(_, _)
Lines(s, chomp) ==
    LET at == StrStr(s, 0, <<Newline>>)
    IN  IF s = <<>> THEN <<>>
        ELSE IF at = NotFound THEN <<s>>
        ELSE <<SubSeq(s, 1, at + IF chomp THEN 0 ELSE 1)>> \o Lines(After(s, at + 1), chomp)

Partition(s, sep) ==
    LET at == StrStr(s, 0, sep)
    IN  IF at = NotFound THEN <<s, <<>>, <<>>>>
        ELSE <<SubSeq(s, 1, at), sep, After(s, at + Len(sep))>>

RPartition(s, sep) ==
    IF Hits(s, sep) = {} THEN <<(<<>>), <<>>, s>>
    ELSE <<SubSeq(s, 1, Max(Hits(s, sep))), sep, After(s, Max(Hits(s, sep)) + Len(sep))>>

RECURSIVE Scan(_, _)
Scan(s, needle) ==
    LET at == StrStr(s, 0, needle)
    IN  IF needle = <<>> \/ at = NotFound THEN <<>>
        ELSE <<needle>> \o Scan(After(s, at + Len(needle)), needle)

\* sub and gsub walk along the string byte by byte.
RECURSIVE Substituted(_, _, _, _)
Substituted(s, needle, new, global) ==
    IF s = <<>> \/ needle = <<>> THEN s
    ELSE IF ~IsPrefix(needle, s) THEN <<s[1]>> \o Substituted(After(s, 1), needle, new, global)
    ELSE new \o IF global THEN Substituted(After(s, Len(needle)), needle, new, global)
                ELSE After(s, Len(needle))

Padding(pad, n) ==
    IF pad = <<>> THEN <<>>
    ELSE FlattenSeq([i \in 1 .. n |-> CharsOf(pad)[((i - 1) % CharCount(pad)) + 1]])

Justified(s, side, width, pad) ==
    LET n == width - CharCount(s)
        left == CASE side = "ljust" -> 0 [] side = "rjust" -> n [] side = "center" -> n \div 2
    IN  IF n <= 0 THEN s ELSE Padding(pad, left) \o s \o Padding(pad, n - left)

-----------------------------------------------------------------------------
(***************************************************************************)
(* The successor: letters and digits turn over from the right.             *)
(***************************************************************************)
Alnum(c) == c \in LetterA .. DigitNine

\* The string with what the position i turned over to, and what to put in front
\* if the last that turned over was the first there is.
RECURSIVE Carried(_, _, _)
Carried(s, i, front) ==
    IF i = 0 THEN [s |-> s, front |-> front]
    ELSE IF ~Alnum(s[i]) THEN Carried(s, i - 1, front)
    ELSE IF s[i] = LetterZ THEN Carried([s EXCEPT ![i] = LetterA], i - 1, <<LetterA>>)
    ELSE IF s[i] = DigitNine THEN Carried([s EXCEPT ![i] = DigitZero], i - 1, <<DigitOne>>)
    ELSE [s |-> [s EXCEPT ![i] = @ + 1], front |-> <<>>]

Succ(s) ==
    LET r == Carried(s, Len(s), <<>>)
        dashes == Cardinality({i \in DOMAIN s : \A j \in 1 .. i : ~Alnum(s[j])})
    IN  IF s = <<>> THEN s
        ELSE IF dashes = Len(s) THEN [s EXCEPT ![Len(s)] = @ + 1]
        ELSE SubSeq(r.s, 1, dashes) \o r.front \o After(r.s, dashes)

\* strcmp gives more than 0.
Above(s, t) ==
    \E k \in DOMAIN s : /\ SubSeq(s, 1, k - 1) = SubSeq(t, 1, k - 1)
                        /\ k > Len(t) \/ s[k] > t[k]

RECURSIVE Upto(_, _, _)
Upto(s, end, exclusive) ==
    IF Above(s, end) \/ (exclusive /\ s = end) THEN <<>>
    ELSE <<s>> \o IF s = end THEN <<>> ELSE Upto(Succ(s), end, exclusive)

-----------------------------------------------------------------------------
(***************************************************************************)
(* Character patterns, over the characters that utf8_decode_one gives.     *)
(***************************************************************************)
RECURSIVE PatternChars(_)
PatternChars(pat) ==
    IF pat = <<>> THEN <<>>
    ELSE IF Len(pat) >= 3 /\ pat[2] = Dash
         THEN LET lo == Least(pat[1], pat[3])
                  hi == pat[1] + pat[3] - lo
              IN  [i \in 1 .. hi - lo + 1 |-> lo + i - 1] \o PatternChars(After(pat, 3))
         ELSE <<pat[1]>> \o PatternChars(After(pat, 1))

Negated(pat) == pat # <<>> /\ pat[1] = Caret
PatternSet(pat) == ToSet(PatternChars(IF Negated(pat) THEN After(pat, 1) ELSE pat))
Chosen(pat, c) == (c \in PatternSet(pat)) # Negated(pat)

\* tr leaves the caret of a negated pattern in its characters.
Translated(c, from, to) ==
    LET at == {i \in DOMAIN PatternChars(from) : PatternChars(from)[i] = c}
        new == PatternChars(to)
    IN  IF Negated(from) THEN IF at = {} THEN new[Len(new)] ELSE c
        ELSE IF at = {} THEN c ELSE new[Least(Min(at), Len(new))]

Tr(cs, from, to) ==
    IF to = <<>> THEN cs
    ELSE [i \in DOMAIN cs |-> Translated(cs[i], from, to)]

SqueezedIn(cs, S) ==
    LET kept == SelectSeq([i \in DOMAIN cs |-> i],
                          LAMBDA i : ~(i > 1 /\ cs[i] \in S /\ cs[i - 1] = cs[i]))
    IN  [k \in DOMAIN kept |-> cs[kept[k]]]

TrS(cs, from, to) ==
    SqueezedIn(Tr(cs, from, to), IF to = <<>> THEN ToSet(cs) ELSE ToSet(PatternChars(to)))

\* squeeze skips a caret but does not negate.
Squeeze(cs, pat) == SqueezedIn(cs, PatternSet(pat))
CountIn(cs, pat) == Cardinality({i \in DOMAIN cs : Chosen(pat, cs[i])})
Delete(cs, pat) == SelectSeq(cs, LAMBDA c : ~Chosen(pat, c))

-----------------------------------------------------------------------------
(***************************************************************************)
(* What a method with a bang returns, and what the variable it was called  *)
(* on holds after the evaluator has put the result back.                   *)
(***************************************************************************)
Bang(s, new) == IF new # s THEN <<new>> ELSE NoText
LeftIn(s, result) == IF result = NoText THEN s ELSE result[1]

(***************************************************************************)
(* The calls, from every string of so many characters.                     *)
(***************************************************************************)
Texts == BoundedSeq({LetterA, LetterZ, Wide}, MaxText)
Needles == BoundedSeq({LetterA, LetterZ, Wide}, 2)
SpacedTexts == BoundedSeq({LetterA, Space, Newline}, MaxText + 1)
Counters == BoundedSeq({LetterA, LetterZ, DigitZero, DigitNine, Dash}, MaxText)
PatternTexts == BoundedSeq({LetterA, LetterZ, Dash, Caret}, MaxText)
CharPatterns == BoundedSeq({LetterA, LetterZ, Dash, Caret}, 3)
New == <<DigitOne, DigitOne>>

PositionCall ==
    \E c \in Texts, i, n \in Places : LET u == Utf8(c) IN
        Make([op |-> "position", s |-> c, i |-> i, n |-> n, part |-> CharSlice(u, i, n),
              bytes |-> ByteSlice(u, i, n), out |-> SliceOut(u, i, n),
              set |-> SetSlice(u, i, n, New), inserted |-> Inserted(u, i, New)])

SpanCall ==
    \E c \in Texts, i, e \in Places, x \in BOOLEAN :
        LET u == Utf8(c)
            r == [from |-> i, to |-> e, ex |-> x]
        IN  Make([op |-> "span", s |-> c, r |-> r, part |-> CharSliceRange(u, r),
                  bytes |-> ByteSliceRange(u, r), set |-> SetRange(u, r, New)])

FindCall ==
    \E c \in Texts, d \in Needles, k \in Places : LET u == Utf8(c)  t == Utf8(d) IN
        Make([op |-> "search", s |-> c, d |-> d, k |-> k, index |-> IndexOf(u, t, k),
              rindex |-> RIndexOf(u, t, k), pieces |-> Split(u, t, k), set |-> SetText(u, t, New),
              parts |-> Partition(u, t), rparts |-> RPartition(u, t), scan |-> Scan(u, t),
              sub |-> Substituted(u, t, New, FALSE), gsub |-> Substituted(u, t, New, TRUE),
              prefix |-> WithoutPrefix(u, t), suffix |-> WithoutSuffix(u, t)])

SpacesCall ==
    \E s \in SpacedTexts, k \in Places :
        Make([op |-> "spaces", s |-> s, k |-> k, strip |-> Strip(s), lines |-> Lines(s, FALSE),
              chomped |-> Lines(s, TRUE), words |-> Split(s, <<Space>>, k),
              after |-> LeftIn(s, Bang(s, Strip(s)))])

PadCall ==
    \E c \in Texts, d \in Needles, k \in Places, side \in {"ljust", "rjust", "center"} :
        Make([op |-> "pad", s |-> c, d |-> d, k |-> k, side |-> side,
              res |-> Justified(Utf8(c), side, k, Utf8(d)), back |-> ReverseChars(Utf8(c)),
              chop |-> Chop(Utf8(c))])

SuccCall == \E s \in Counters : Make([op |-> "succ", s |-> s, res |-> Succ(s)])

UptoCall ==
    \E s, e \in BoundedSeq({LetterA, LetterZ}, 2) \ {<<>>}, x \in BOOLEAN :
        Make([op |-> "upto", s |-> s, e |-> e, x |-> x, res |-> Upto(s, e, x)])

CharSetCall ==
    \E s \in PatternTexts, pat \in CharPatterns :
        Make([op |-> "charset", s |-> s, pat |-> pat, count |-> CountIn(s, pat),
              delete |-> Delete(s, pat), squeeze |-> Squeeze(s, pat),
              tr |-> Tr(s, pat, <<DigitZero>>), trs |-> TrS(s, pat, <<DigitZero, Dash, DigitNine>>)])

StringCall ==
    NoCall /\ (PositionCall \/ SpanCall \/ FindCall \/ SpacesCall \/ PadCall
               \/ SuccCall \/ UptoCall \/ CharSetCall)

-----------------------------------------------------------------------------
(***************************************************************************)
(* What the calls return, in characters                                    *)
(***************************************************************************)
Text(c, S) ==
    Utf8([k \in 1 .. Cardinality(S \cap 0 .. Len(c) - 1) |->
              c[SetToSortSeq(S \cap 0 .. Len(c) - 1, <)[k] + 1]])

TextOp(op) == call.op = op

\* Positions count characters, from the end if negative, whatever their width:
\* what is cut out is between what is left, and a part can be replaced alone.
\* The code's exceptions: the position behind the last character has no part,
\* insert and slice! count bytes, and replacing is only right for ranges that
\* begin in the string and do not end before they begin.
PositionsAgree ==
    LET c == call.s
        n == Len(c)
        u == Utf8(c)
        place(i) == ToSpan(i, n)
    IN  CASE TextOp("position") ->
                 LET at == place(call.i)  end == at + call.n - 1  cut == call.out
                 IN  /\ call.part = IF at \in 0 .. n - 1 /\ call.n >= 0
                                    THEN <<Text(c, at .. end)>> ELSE NoText
                     /\ call.set = IF at \in 0 .. n
                                   THEN <<Text(c, 0 .. at - 1) \o New
                                            \o Text(c, at + (IF call.n < 0 THEN 0 ELSE call.n) .. n)>>
                                   ELSE NoText
                     /\ cut.part # NoText =>
                            /\ cut.part = call.bytes
                            /\ Inserted(cut.rest, ToSpan(call.i, Len(u)), cut.part[1]) = u
                     /\ Wide \notin ToSet(c) => call.bytes \in {call.part, <<(<<>>)>>}
                     /\ Wide \notin ToSet(c) /\ at \in 0 .. n - 1 =>
                            call.inserted = LET b == IF call.i < 0 THEN at + 1 ELSE at
                                            IN  Text(c, 0 .. b - 1) \o New \o Text(c, b .. n)
          [] TextOp("span") ->
                 LET at == place(call.r.from)
                     end == place(call.r.to) - IF call.r.ex THEN 1 ELSE 0
                 IN  /\ call.part = IF at \in 0 .. n THEN <<Text(c, at .. end)>> ELSE NoText
                     /\ Wide \notin ToSet(c) => call.bytes = call.part
                     /\ at \in 0 .. n /\ end >= at - 1 =>
                            call.set = <<Text(c, 0 .. at - 1) \o New \o Text(c, end + 1 .. n)>>
          [] OTHER -> TRUE

Joined(ss, sep) ==
    FlattenSeq([i \in DOMAIN ss |-> IF i = 1 THEN ss[i] ELSE sep \o ss[i]])

Free(ss, t) == \A i \in DOMAIN ss : Hits(ss[i], t) = {}

\* Searching finds the first or the last place there is, and splitting,
\* substituting, scanning and partitioning all cut at the same places.  The
\* code's exceptions: index from behind the end, and rindex with a limit, which
\* overlooks needles of several bytes.
PiecesAgree ==
    LET c == call.s
        n == Len(c)
        u == Utf8(c)
        t == Utf8(call.d)
        at == {k \in 0 .. n - Len(call.d) : SubSeq(c, k + 1, k + Len(call.d)) = call.d}
        after == {k \in at : k >= call.k}
        all == Pieces(u, t, -1, 0)
        one == Pieces(u, t, 2, 0)
        got == call.pieces
    IN  /\ call.k \in 0 .. n => call.index = IF after = {} THEN NoText ELSE <<Min(after)>>
        /\ call.k >= n \/ (call.k >= 0 /\ Len(t) <= 1) =>
               LET before == {k \in at : k <= call.k}
               IN  call.rindex = IF before = {} THEN NoText ELSE <<Max(before)>>
        /\ call.set = IF at = {} THEN NoText
                      ELSE <<Text(c, 0 .. Min(at) - 1) \o New \o Text(c, Min(at) + Len(call.d) .. n)>>
        /\ call.prefix = IF 0 \in at THEN Text(c, Len(call.d) .. n) ELSE u
        /\ call.suffix = IF n - Len(call.d) \in at THEN Text(c, 0 .. n - Len(call.d) - 1) ELSE u
        /\ FlattenSeq(call.parts) = u /\ FlattenSeq(call.rparts) = u
        /\ at # {} => /\ call.parts[1] = Text(c, 0 .. Min(at) - 1)
                      /\ call.rparts[1] = Text(c, 0 .. Max(at) - 1)
        /\ t # <<>> =>
               /\ Joined(got, t) = IF call.k # 0 THEN u ELSE Joined(WithoutEmptyEnd(all), t)
               /\ call.k > 0 => Len(got) <= call.k
               /\ Free(IF Len(got) = call.k THEN Front(got) ELSE got, t)
               /\ call.gsub = Joined(all, New) /\ call.sub = Joined(one, New)
               /\ Len(call.scan) = Len(all) - 1

IsText(s) == SelectSeq(s, LAMBDA b : ~IsSpace(b))

\* Spaces and line ends are cut where they are and nowhere else, padding fills
\* the width with whole characters around the text, and reversing moves them
\* whole.  strip! leaves in its variable what strip returns.
SpacingAgrees ==
    LET c == call.s
    IN  CASE TextOp("spaces") ->
                 /\ \A w \in {call.strip} : w # <<>> => ~IsSpace(w[1]) /\ ~IsSpace(w[Len(w)])
                 /\ IsText(call.strip) = IsText(c) /\ call.after = call.strip
                 /\ FlattenSeq(call.lines) = c
                 /\ call.chomped = [i \in DOMAIN call.lines |-> Chomp(call.lines[i])]
                 /\ \A i \in DOMAIN call.chomped : Newline \notin ToSet(call.chomped[i])
                 /\ IsText(FlattenSeq(call.words)) = IsText(c)
                 /\ IF call.k > 0 THEN Len(call.words) <= call.k
                    ELSE \A i \in DOMAIN call.words : IsText(call.words[i]) = call.words[i]
          [] TextOp("pad") ->
                 LET n == IF call.d = <<>> \/ call.k < Len(c) THEN 0 ELSE call.k - Len(c)
                     m == CASE call.side = "ljust" -> 0 [] call.side = "rjust" -> n
                            [] call.side = "center" -> n \div 2
                     fill(k) == [i \in 1 .. k |-> call.d[((i - 1) % Len(call.d)) + 1]]
                 IN  /\ call.res = Utf8(fill(m) \o c \o fill(n - m))
                     /\ call.back = Utf8(Reverse(c))
                     /\ call.chop = Text(c, 0 .. Len(c) - 2)
          [] OTHER -> TRUE

\* The letters and digits of a string as a number, all of them with three values.
Reading(s) ==
    FoldLeft(LAMBDA v, b : IF ~Alnum(b) THEN v ELSE 3 * v + ((b - 1) % 3), 0, s)
TurnedOver(s) == \A i \in DOMAIN s : Alnum(s[i]) => s[i] \in {LetterZ, DigitNine}
ClassesOf(s) == [i \in DOMAIN s |-> IF ~Alnum(s[i]) THEN s[i] ELSE (s[i] - 1) \div 3]

\* succ counts: one more in the letters and digits, each staying of its kind,
\* and one place more in front when all have turned over; upto lists what lies
\* between, without a gap.
SuccCounts ==
    LET s == call.s
    IN  CASE TextOp("succ") /\ \E i \in DOMAIN s : Alnum(s[i]) ->
                 IF TurnedOver(s)
                 THEN /\ Len(call.res) = Len(s) + 1
                      /\ SelectSeq(call.res, LAMBDA b : Alnum(b) /\ b \notin {LetterA, DigitZero})
                            \in {<<>>, <<DigitOne>>}
                 ELSE Reading(call.res) = Reading(s) + 1 /\ ClassesOf(call.res) = ClassesOf(s)
          [] TextOp("upto") /\ Len(s) = Len(call.e) /\ s # <<>> ->
                 LET n == Reading(call.e) - Reading(s) + IF call.x THEN 0 ELSE 1
                 IN  /\ Len(call.res) = IF n < 0 THEN 0 ELSE n
                     /\ \A i \in DOMAIN call.res : Reading(call.res[i]) = Reading(s) + i - 1
          [] OTHER -> TRUE

\* A pattern chooses the same characters for count, delete, squeeze and tr, and
\* a negated one the others.  The code's exceptions: tr keeps a caret of a
\* negated pattern and lets it begin a range, and squeeze does not negate.
CharSetsAgree ==
    LET s == call.s
        chosen == {i \in DOMAIN s : CountIn(<<s[i]>>, call.pat) = 1}
    IN  /\ call.count = Cardinality(chosen)
        /\ call.delete = Text(s, {i - 1 : i \in DOMAIN s \ chosen})
        /\ ~IsPrefix(<<Caret, Dash>>, call.pat) =>
               {i \in DOMAIN s : call.tr[i] # s[i]}
                   = {i \in chosen : ~Negated(call.pat) \/ s[i] # Caret}
        /\ ~Negated(call.pat) => Cardinality(chosen) + CountIn(s, <<Caret>> \o call.pat) = Len(s)
        /\ ~Negated(call.pat) =>
               call.squeeze = Text(s, {i - 1 : i \in {j \in DOMAIN s :
                                            j > 1 /\ s[j - 1] = s[j] => j \notin chosen}})
        /\ \A i \in 2 .. Len(call.trs) :
               call.trs[i] \in DigitZero .. DigitNine => call.trs[i - 1] # call.trs[i]

\* Methods agree with one another and with the characters of the string.
StringsAgree ==
    /\ PositionsAgree /\ SpacingAgrees /\ SuccCounts
    /\ TextOp("search") => PiecesAgree
    /\ TextOp("charset") => CharSetsAgree
=============================================================================
