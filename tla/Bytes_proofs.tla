---------------------------- MODULE Bytes_proofs -----------------------------
(***************************************************************************)
(* Proofs about what the program does with bytes.                          *)
(* Streams: no byte of a write is lost in silence but by flush and rewind, *)
(* the File of a block is closed when the block is left, and what a reader *)
(* returns is what the file holds.                                         *)
(* CodePoints: utf8_encode_one and utf8_decode_one are inverse to each     *)
(* other, on every scalar value and on every string that decodes; what     *)
(* decodes is what the table of well-formed sequences lists; and           *)
(* utf8_validate finds the first place where no character begins.          *)
(***************************************************************************)
EXTENDS Streams, CodePoints, Recursion, SequenceTheorems, WellFoundedInduction, TLAPS

AnyMode == Modes \cup {"", "r"}
FileType == [mode : AnyMode, fp : BOOLEAN, closed : BOOLEAN, pos : Nat,
             ahead : Seq(Chars), pend : Seq(Chars), eof : BOOLEAN]
AnyHow == Each \cup {""}
BlockType == [kind : {"open", "each"}, h : Files, how : AnyHow]

\* What the fields of a File say of each other.
FileHonest(f) ==
    /\ ~IsOpened(f) => f = NoFile
    /\ f.closed <=> (IsOpened(f) /\ ~f.fp)
    /\ ~f.fp => f.pend = <<>>
    /\ ~IsAppend(f.mode) => Len(f.pend) <= f.pos

FilesHonest == (\A h \in Files : FileHonest(files[h])) /\ files[Reader].pend = <<>>

\* The File of a block has been opened; an each_ block reads.
BlocksHonest ==
    \A i \in 1 .. Len(within) :
        /\ IsOpened(files[within[i].h])
        /\ within[i].kind = "each" => within[i].how \in Each

\* What is stored, and what waits to be.
Storage ==
    /\ disk \in Seq(Chars) /\ ideal \in Seq(Chars)
    /\ files \in [Files -> FileType]
    /\ FilesHonest
    /\ NothingLost

Blocks == within \in Seq(BlockType) /\ BlocksHonest

StreamsInv == Storage /\ Blocks

-----------------------------------------------------------------------------
(***************************************************************************)
(* Sequences and least numbers                                             *)
(***************************************************************************)
LEMMA LeastExists ==
  ASSUME NEW S, S \subseteq Nat, S # {}
  PROVE Least(S) \in S /\ \A j \in S : Least(S) <= j
<1> DEFINE R == OpToRel(<, Nat)
<1>1. \A x \in Nat, y \in Nat : x < y => <<x, y>> \in R
  BY Zenon DEF OpToRel
<1>2. IsWellFoundedOn(R, Nat)
  BY NatLessThanWellFounded
<1> HIDE DEF R
<1>3. PICK k \in S : \A j \in S : ~(<<j, k>> \in R)
  BY <1>2, WFMin
<1>4. ASSUME NEW j \in S PROVE k <= j
  <2>1. k \in Nat /\ j \in Nat
    OBVIOUS
  <2>2. ~(j < k)
    BY <1>1, <1>3, <2>1
  <2> QED
    BY <2>1, <2>2
<1> QED
  BY <1>4 DEF Least

LEMMA Cut ==
  ASSUME NEW S, NEW s \in Seq(S), NEW m \in Nat, NEW n \in Nat, n <= Len(s)
  PROVE SubSeq(s, m + 1, n) \in Seq(S)
BY SubSeqProperties

\* Bytes stored at some offset.
LEMMA PlacedFacts ==
  ASSUME NEW d \in Seq(Chars), NEW at \in Int, NEW s \in Seq(Chars)
  PROVE LET end == at + Len(s)
            n == IF Len(d) > end THEN Len(d) ELSE end
        IN  /\ Placed(d, at, s) \in Seq(Chars)
            /\ Len(Placed(d, at, s)) = n
            /\ \A i \in 1 .. n : Placed(d, at, s)[i] =
                   IF i > at /\ i <= end THEN s[i - at] ELSE IF i <= Len(d) THEN d[i] ELSE Zero
<1> DEFINE end == at + Len(s)
           n == IF Len(d) > end THEN Len(d) ELSE end
           byte(i) == IF i > at /\ i <= end THEN s[i - at] ELSE IF i <= Len(d) THEN d[i] ELSE Zero
<1>1. Len(d) \in Nat /\ Len(s) \in Nat /\ end \in Int /\ n \in Nat
  OBVIOUS
<1>2. \A i \in 1 .. n : byte(i) \in Chars
  <2> SUFFICES ASSUME NEW i \in 1 .. n PROVE byte(i) \in Chars
    OBVIOUS
  <2>1. CASE i > at /\ i <= end
    <3>1. i - at \in 1 .. Len(s)
      BY <1>1, <2>1
    <3>2. s[i - at] \in Chars
      BY <3>1, ElementOfSeq
    <3> QED
      BY <2>1, <3>2
  <2>2. CASE ~(i > at /\ i <= end) /\ i <= Len(d)
    <3>1. i \in 1 .. Len(d)
      BY <1>1, <2>2
    <3>2. d[i] \in Chars
      BY <3>1, ElementOfSeq
    <3> QED
      BY <2>2, <3>2
  <2>3. CASE ~(i > at /\ i <= end) /\ ~(i <= Len(d))
    BY <2>3 DEF Chars
  <2> QED
    BY <2>1, <2>2, <2>3
<1>3. Placed(d, at, s) = [i \in 1 .. n |-> byte(i)]
  BY DEF Placed
<1> HIDE DEF n, byte
<1>4. [i \in 1 .. n |-> byte(i)] \in Seq(Chars) /\ Len([i \in 1 .. n |-> byte(i)]) = n
  BY <1>1, <1>2
<1> QED
  BY <1>3, <1>4 DEF n, byte

\* Two pieces stored one behind the other are stored as one.
LEMMA PlacedTwice ==
  ASSUME NEW d \in Seq(Chars), NEW at \in Int, NEW p \in Seq(Chars), NEW s \in Seq(Chars)
  PROVE Placed(Placed(d, at, p), at + Len(p), s) = Placed(d, at, p \o s)
<1> DEFINE d1 == Placed(d, at, p)
           one == Placed(d, at, p \o s)
           two == Placed(d1, at + Len(p), s)
           a == Len(p)
           b == Len(s)
           max(x, y) == IF x > y THEN x ELSE y
<1>1. a \in Nat /\ b \in Nat /\ Len(d) \in Nat
  OBVIOUS
<1>2. /\ p \o s \in Seq(Chars) /\ Len(p \o s) = a + b
      /\ \A i \in 1 .. a + b : (p \o s)[i] = IF i <= a THEN p[i] ELSE s[i - a]
  BY ConcatProperties
<1>3. /\ d1 \in Seq(Chars) /\ Len(d1) = max(Len(d), at + a)
      /\ \A i \in 1 .. Len(d1) : d1[i] =
             IF i > at /\ i <= at + a THEN p[i - at] ELSE IF i <= Len(d) THEN d[i] ELSE Zero
  BY PlacedFacts
<1> HIDE DEF d1
<1>4. /\ two \in Seq(Chars) /\ Len(two) = max(Len(d1), at + a + b)
      /\ \A i \in 1 .. Len(two) : two[i] =
             IF i > at + a /\ i <= at + a + b THEN s[i - (at + a)]
             ELSE IF i <= Len(d1) THEN d1[i] ELSE Zero
  <2>1. at + a \in Int
    BY <1>1
  <2> QED
    BY <1>3, <2>1, PlacedFacts
<1>5. /\ one \in Seq(Chars) /\ Len(one) = max(Len(d), at + a + b)
      /\ \A i \in 1 .. Len(one) : one[i] =
             IF i > at /\ i <= at + a + b THEN (p \o s)[i - at]
             ELSE IF i <= Len(d) THEN d[i] ELSE Zero
  <2> DEFINE q == p \o s
  <2>1. q \in Seq(Chars) /\ Len(q) = a + b
    BY <1>2
  <2> HIDE DEF q
  <2>2. /\ Placed(d, at, q) \in Seq(Chars) /\ Len(Placed(d, at, q)) = max(Len(d), at + Len(q))
        /\ \A i \in 1 .. Len(Placed(d, at, q)) : Placed(d, at, q)[i] =
             IF i > at /\ i <= at + Len(q) THEN q[i - at]
             ELSE IF i <= Len(d) THEN d[i] ELSE Zero
    BY <2>1, PlacedFacts
  <2>3. at + Len(q) = at + a + b
    BY <1>1, <2>1
  <2> QED
    BY <2>2, <2>3 DEF q
<1> HIDE DEF one, two, a, b
<1>6. Len(one) = Len(two)
  BY <1>1, <1>3, <1>4, <1>5
<1>7. ASSUME NEW i \in 1 .. Len(one) PROVE one[i] = two[i]
  <2>1. i \in Int /\ i >= 1
    OBVIOUS
  <2>2. CASE i > at /\ i <= at + a
    <3>1. i - at \in 1 .. a + b /\ i - at <= a
      BY <1>1, <2>1, <2>2
    <3>2. one[i] = p[i - at]
      <4>1. i <= at + a + b
        BY <1>1, <2>1, <2>2
      <4>2. one[i] = (p \o s)[i - at]
        BY <1>5, <2>2, <4>1
      <4>3. (p \o s)[i - at] = p[i - at]
        BY <1>2, <3>1
      <4> QED
        BY <4>2, <4>3
    <3>3. i \in 1 .. Len(d1)
      BY <1>1, <1>3, <2>1, <2>2
    <3>4. d1[i] = p[i - at]
      BY <1>3, <2>2, <3>3
    <3>5. two[i] = d1[i]
      BY <1>1, <1>4, <1>6, <2>2, <2>1, <3>3
    <3> QED
      BY <3>2, <3>4, <3>5
  <2>3. CASE i > at + a /\ i <= at + a + b
    <3>1. i - at \in 1 .. a + b /\ ~(i - at <= a) /\ (i - at) - a = i - (at + a) /\ i > at
      BY <1>1, <2>1, <2>3
    <3>2. one[i] = s[i - (at + a)]
      <4>1. one[i] = (p \o s)[i - at]
        BY <1>5, <2>3, <3>1
      <4>2. (p \o s)[i - at] = s[(i - at) - a]
        BY <1>2, <3>1
      <4> QED
        BY <3>1, <4>1, <4>2
    <3>3. two[i] = s[i - (at + a)]
      BY <1>4, <1>6, <2>3
    <3> QED
      BY <3>2, <3>3
  <2>4. CASE ~(i > at /\ i <= at + a + b)
    <3>1. ~(i > at /\ i <= at + a) /\ ~(i > at + a /\ i <= at + a + b)
      BY <1>1, <2>1, <2>4
    <3>2. one[i] = IF i <= Len(d) THEN d[i] ELSE Zero
      BY <1>5, <2>4
    <3>3. two[i] = IF i <= Len(d1) THEN d1[i] ELSE Zero
      BY <1>4, <1>6, <3>1
    <3>4. i <= Len(d1) => d1[i] = IF i <= Len(d) THEN d[i] ELSE Zero
      BY <1>1, <1>3, <2>1, <3>1
    <3>5. ~(i <= Len(d1)) => ~(i <= Len(d))
      BY <1>1, <1>3, <2>1
    <3> QED
      BY <3>2, <3>3, <3>4, <3>5
  <2> QED
    BY <1>1, <2>1, <2>2, <2>3, <2>4
<1>8. one = two
  BY <1>4, <1>5, <1>6, <1>7, SeqEqual
<1> QED
  BY <1>8 DEF one, two, d1, a

-----------------------------------------------------------------------------
(***************************************************************************)
(* What the library does with a File                                       *)
(***************************************************************************)
\* The file with what waits in f stored.
SettledOf(f, d) == IF f.pend = <<>> THEN d ELSE Placed(d, Waiting(f, d), f.pend)

\* g is f, but for its position and its buffers, and nothing waits in it.
SameButFlushed(f, g) ==
    /\ g \in FileType /\ g.mode = f.mode /\ g.fp = f.fp /\ g.closed = f.closed
    /\ g.pend = <<>>

LEMMA WaitingType ==
  ASSUME NEW f \in FileType, FileHonest(f), NEW d \in Seq(Chars)
  PROVE Waiting(f, d) \in Nat
<1>1. Len(d) \in Nat /\ Len(f.pend) \in Nat /\ f.pos \in Nat
  BY DEF FileType
<1>2. CASE IsAppend(f.mode)
  BY <1>1, <1>2 DEF Waiting
<1>3. CASE ~IsAppend(f.mode)
  BY <1>1, <1>3 DEF Waiting, FileHonest
<1> QED
  BY <1>2, <1>3

LEMMA Emptied ==
  ASSUME NEW f \in FileType, NEW pos1 \in Nat
  PROVE SameButFlushed(f, [f EXCEPT !.pend = <<>>, !.pos = pos1])
<1>1. <<>> \in Seq(Chars)
  OBVIOUS
<1> QED
  BY <1>1 DEF SameButFlushed, FileType

LEMMA StoredFacts ==
  ASSUME NEW f \in FileType, FileHonest(f), NEW d \in Seq(Chars)
  PROVE LET st == Stored(f, d)
        IN  /\ SameButFlushed(f, st.f) /\ st.d \in Seq(Chars)
            /\ IF st.ok THEN st.d = SettledOf(f, d) ELSE st.d = d
            /\ f.pend = <<>> => st.d = d /\ st.ok
<1>1. Waiting(f, d) \in Nat /\ f.pend \in Seq(Chars) /\ Len(f.pend) \in Nat
  BY WaitingType DEF FileType
<1>2. CASE f.pend = <<>>
  <2>1. Stored(f, d) = [ok |-> TRUE, f |-> f, d |-> d]
    BY <1>2 DEF Stored
  <2> QED
    BY <1>2, <2>1 DEF SameButFlushed, SettledOf
<1>3. CASE f.pend # <<>> /\ full
  <2> DEFINE g == [f EXCEPT !.pend = <<>>, !.pos = Waiting(f, d)]
  <2>1. Stored(f, d) = [ok |-> FALSE, f |-> g, d |-> d]
    BY <1>3 DEF Stored
  <2>2. SameButFlushed(f, g)
    BY <1>1, Emptied
  <2> HIDE DEF g
  <2> QED
    BY <1>3, <2>1, <2>2
<1>4. CASE f.pend # <<>> /\ ~full
  <2> DEFINE g == [f EXCEPT !.pend = <<>>, !.pos = Waiting(f, d) + Len(f.pend)]
             d1 == Placed(d, Waiting(f, d), f.pend)
  <2>1. Stored(f, d) = [ok |-> TRUE, f |-> g, d |-> d1]
    BY <1>4 DEF Stored
  <2>2. SameButFlushed(f, g)
    <3>1. Waiting(f, d) + Len(f.pend) \in Nat
      BY <1>1
    <3> QED
      BY <3>1, Emptied
  <2>3. d1 \in Seq(Chars)
    <3>1. Waiting(f, d) \in Int
      BY <1>1
    <3> QED
      BY <1>1, <3>1, PlacedFacts
  <2>4. d1 = SettledOf(f, d)
    BY <1>4 DEF SettledOf
  <2> HIDE DEF g, d1
  <2> QED
    BY <1>4, <2>1, <2>2, <2>3, <2>4
<1> QED
  BY <1>2, <1>3, <1>4

LEMMA AheadType ==
  ASSUME NEW f \in FileType, NEW d \in Seq(Chars)
  PROVE Ahead(f, d) \in Seq(Chars)
<1>1. f.pos \in Nat /\ f.ahead \in Seq(Chars) /\ Len(f.ahead) \in Nat /\ Len(d) \in Nat /\ Len(d) <= Len(d)
  BY DEF FileType
<1>2. SubSeq(d, f.pos + Len(f.ahead) + 1, Len(d)) \in Seq(Chars)
  <2>1. f.pos + Len(f.ahead) \in Nat
    BY <1>1
  <2> QED
    BY <1>1, <2>1, Cut
<1>3. <<>> \in Seq(Chars)
  OBVIOUS
<1> QED
  BY <1>1, <1>2, <1>3 DEF Ahead

\* Reading moves the position and the buffers only.
LEMMA TookFacts ==
  ASSUME NEW f \in FileType, f.pend = <<>>, NEW d \in Seq(Chars), NEW n \in Nat
  PROVE SameButFlushed(f, Took(f, d, n))
<1> DEFINE all == Ahead(f, d)
           k == IF n > Len(all) THEN Len(all) ELSE n
           pos1 == f.pos + k
           ahead1 == SubSeq(IF k > Len(f.ahead) THEN all ELSE f.ahead, k + 1,
                            IF k > Len(f.ahead) THEN Len(all) ELSE Len(f.ahead))
           eof1 == f.eof \/ n > Len(all)
<1>1. all \in Seq(Chars) /\ f.ahead \in Seq(Chars) /\ f.pos \in Nat
  BY AheadType DEF FileType
<1>2. k \in Nat /\ Len(all) \in Nat /\ Len(f.ahead) \in Nat
  BY <1>1
<1>3. pos1 \in Nat
  BY <1>1, <1>2
<1>4. ahead1 \in Seq(Chars)
  <2> HIDE DEF all, k
  <2>1. CASE k > Len(f.ahead)
    BY <1>1, <1>2, <2>1, Cut
  <2>2. CASE ~(k > Len(f.ahead))
    BY <1>1, <1>2, <2>2, Cut
  <2> QED
    BY <2>1, <2>2
<1>5. eof1 \in BOOLEAN
  OBVIOUS
<1>6. Took(f, d, n) = [f EXCEPT !.pos = pos1, !.ahead = ahead1, !.eof = eof1]
  BY DEF Took
<1> HIDE DEF pos1, ahead1, eof1, all, k
<1> QED
  BY <1>3, <1>4, <1>5, <1>6 DEF SameButFlushed, FileType

\* How many bytes a reader asks for.
LEMMA GetsAmount ==
  ASSUME NEW mode, NEW s \in Seq(Chars), NEW how, NEW limit
  PROVE LET r == Gets(mode, s, how, limit) IN r = [n |-> r.n, res |-> r.res] /\ r.n \in Nat
<1> DEFINE stops == {k \in DOMAIN s : \/ how # "all" /\ how # "para" /\ s[k] = NL
                                      \/ how = "limit" /\ k >= limit
                                      \/ how = "para" /\ k >= 2 /\ s[k] = NL /\ s[k - 1] = NL}
           n == IF stops = {} THEN Len(s) + 1 ELSE Least(stops)
           line == IF stops = {} THEN s ELSE SubSeq(s, 1, n)
           res == IF line = <<>> \/ (how = "para" /\ ToSet(line) = {NL}) THEN Answer("nil")
                  ELSE Checked(mode, line)
<1>1. stops \subseteq DOMAIN s
  OBVIOUS
<1>2. DOMAIN s \subseteq Nat /\ Len(s) \in Nat
  OBVIOUS
<1>3. Gets(mode, s, how, limit) = [n |-> n, res |-> res]
  BY DEF Gets
<1> HIDE DEF stops, res
<1>4. n \in Nat
  BY <1>1, <1>2, LeastExists
<1> HIDE DEF n
<1> QED
  BY <1>3, <1>4

LEMMA OrEOFErrorAmount ==
  ASSUME NEW r, r = [n |-> r.n, res |-> r.res], r.n \in Nat
  PROVE OrEOFError(r).n \in Nat
<1>1. OrEOFError(r).n = r.n
  <2>1. [r EXCEPT !.res = Answer("eof")].n = r.n
    OBVIOUS
  <2> QED
    BY <2>1 DEF OrEOFError
<1> QED
  BY <1>1

LEMMA GetcAmount ==
  ASSUME NEW mode, NEW s
  PROVE LET r == Getc(mode, s) IN r = [n |-> r.n, res |-> r.res] /\ r.n \in Nat
BY DEF Getc

LEMMA ReadlinesAmount ==
  ASSUME NEW mode, NEW s \in Seq(Chars)
  PROVE Readlines(mode, s).n \in Nat
<1> DEFINE ends == {k \in 1 .. Len(s) + 1 : k = Len(s) + 1 \/ s[k] = NL}
           bad == {k \in ends : ~Valid(SubSeq(s, 1, IF k > Len(s) THEN Len(s) ELSE k))}
<1>1. bad \subseteq Nat /\ Len(s) + 1 \in Nat
  OBVIOUS
<1>2. Readlines(mode, s) =
         IF IsBinary(mode) \/ bad = {} THEN [n |-> Len(s) + 1, res |-> Text(s)]
         ELSE [n |-> Least(bad), res |-> Answer("raise")]
  BY DEF Readlines
<1> HIDE DEF bad
<1>3. bad # {} => Least(bad) \in Nat
  BY <1>1, LeastExists
<1> QED
  BY <1>1, <1>2, <1>3

LEMMA ReadingAmount ==
  ASSUME NEW mode, NEW s \in Seq(Chars), NEW op \in Readers \cup {"eof"}
  PROVE Reading(mode, s, op).n \in Nat
<1>1. CASE op = "gets"
  BY <1>1, GetsAmount DEF Reading
<1>2. CASE op = "gets_nil"
  BY <1>2, GetsAmount DEF Reading
<1>3. CASE op = "gets_limit"
  BY <1>3, GetsAmount DEF Reading
<1>4. CASE op = "gets_paragraph"
  BY <1>4, GetsAmount DEF Reading
<1>5. CASE op = "readline"
  <2>1. OrEOFError(Gets(mode, s, "line", 0)).n \in Nat
    BY GetsAmount, OrEOFErrorAmount
  <2> QED
    BY <1>5, <2>1 DEF Reading
<1>6. CASE op = "read"
  BY <1>6 DEF Reading, ReadAll
<1>7. CASE op = "read_1"
  BY <1>7 DEF Reading, ReadLength
<1>8. CASE op = "read_2"
  BY <1>8 DEF Reading, ReadLength
<1>9. CASE op = "getc"
  BY <1>9, GetcAmount DEF Reading
<1>10. CASE op = "readchar"
  <2>1. OrEOFError(Getc(mode, s)).n \in Nat
    BY GetcAmount, OrEOFErrorAmount
  <2> QED
    BY <1>10, <2>1 DEF Reading
<1>11. CASE op = "getbyte"
  BY <1>11 DEF Reading, Getbyte
<1>12. CASE op = "readbyte"
  <2>1. OrEOFError(Getbyte(s)).n \in Nat
    BY OrEOFErrorAmount DEF Getbyte
  <2> QED
    BY <1>12, <2>1 DEF Reading
<1>13. CASE op = "readlines"
  BY <1>13, ReadlinesAmount DEF Reading
<1>14. CASE op = "eof"
  BY <1>14 DEF Reading, AtEnd
<1> QED
  BY <1>1, <1>2, <1>3, <1>4, <1>5, <1>6, <1>7, <1>8, <1>9, <1>10, <1>11, <1>12, <1>13, <1>14
     DEF Readers

-----------------------------------------------------------------------------
(***************************************************************************)
(* What one call does to the files                                         *)
(***************************************************************************)
\* A File once opened is a File for ever.
Grown == \A h \in Files : IsOpened(files[h]) => IsOpened(files'[h])

\* What most calls do: what waits in h is stored, or is lost and the loss is
\* reported or passed over.
Turn(h) ==
    /\ \E g \in FileType :
           /\ FileHonest(g) /\ g.pend = <<>>
           /\ IsOpened(files[h]) => IsOpened(g)
           /\ files' = [files EXCEPT ![h] = g]
    /\ disk' = Stored(files[h], disk).d
    /\ IF Stored(files[h], disk).ok THEN ideal' = ideal ELSE ideal' = disk'

LEMMA FileAt ==
  ASSUME Storage, NEW h \in Files
  PROVE files[h] \in FileType /\ FileHonest(files[h])
BY DEF Storage, FilesHonest

LEMMA SettledIs == Settled = SettledOf(files[Writer], disk)
BY DEF Settled, SettledOf

LEMMA Members == Writer \in Files /\ Reader \in Files /\ Writer # Reader
BY FilesAssumption DEF Files

LEMMA TurnKeeps ==
  ASSUME Storage, NEW h \in Files, Turn(h)
  PROVE Storage' /\ Grown
<1> DEFINE f == files[h]
           st == Stored(f, disk)
<1>1. PICK g \in FileType :
           /\ FileHonest(g) /\ g.pend = <<>>
           /\ IsOpened(f) => IsOpened(g)
           /\ files' = [files EXCEPT ![h] = g]
  BY DEF Turn
<1>2. f \in FileType /\ FileHonest(f) /\ disk \in Seq(Chars) /\ ideal \in Seq(Chars)
  BY FileAt DEF Storage
<1>3. /\ st.d \in Seq(Chars)
      /\ IF st.ok THEN st.d = SettledOf(f, disk) ELSE st.d = disk
      /\ f.pend = <<>> => st.d = disk /\ st.ok
  BY <1>2, StoredFacts
<1>4. disk' = st.d /\ IF st.ok THEN ideal' = ideal ELSE ideal' = disk'
  BY DEF Turn
<1> HIDE DEF st
<1>5. disk' \in Seq(Chars) /\ ideal' \in Seq(Chars)
  BY <1>2, <1>3, <1>4
<1>6. files' \in [Files -> FileType]
  BY <1>1 DEF Storage
<1>7. \A k \in Files : files'[k] = IF k = h THEN g ELSE files[k]
  BY <1>1 DEF Storage
<1>8. FilesHonest'
  <2>1. \A k \in Files : FileHonest(files'[k])
    BY <1>1, <1>7 DEF Storage, FilesHonest
  <2>2. files'[Reader].pend = <<>>
    BY <1>1, <1>7, Members DEF Storage, FilesHonest
  <2> QED
    BY <2>1, <2>2 DEF FilesHonest
<1>9. NothingLost'
  <2>1. (Settled)' = SettledOf(files'[Writer], disk')
    BY DEF Settled, SettledOf, Waiting
  <2>2. ideal = SettledOf(files[Writer], disk)
    BY SettledIs DEF Storage, NothingLost
  <2>3. CASE h = Writer
    <3>1. files'[Writer] = g
      BY <1>7, <2>3, Members
    <3>2. SettledOf(g, disk') = disk'
      BY <1>1 DEF SettledOf
    <3>3. disk' = ideal'
      BY <1>3, <1>4, <2>2, <2>3
    <3> QED
      BY <2>1, <3>1, <3>2, <3>3 DEF NothingLost
  <2>4. CASE h = Reader
    <3>1. f.pend = <<>>
      BY <2>4 DEF Storage, FilesHonest
    <3>2. files'[Writer] = files[Writer] /\ disk' = disk /\ ideal' = ideal
      BY <1>3, <1>4, <1>7, <2>4, <3>1, Members
    <3> QED
      BY <2>1, <2>2, <3>2 DEF NothingLost
  <2> QED
    BY <2>3, <2>4 DEF Files
<1>10. Grown
  BY <1>1, <1>7 DEF Grown
<1> QED
  BY <1>5, <1>6, <1>8, <1>9, <1>10 DEF Storage

LEMMA QuietKeeps ==
  ASSUME Storage, UNCHANGED <<disk, files, ideal>>
  PROVE Storage' /\ Grown
BY DEF Storage, Grown, FilesHonest, NothingLost, Settled, Waiting

LEMMA SameHonest ==
  ASSUME NEW f \in FileType, FileHonest(f), IsOpened(f), NEW g, SameButFlushed(f, g)
  PROVE g \in FileType /\ FileHonest(g) /\ g.pend = <<>> /\ IsOpened(g)
<1>1. g \in FileType /\ g.pend = <<>> /\ IsOpened(g)
  BY DEF SameButFlushed, IsOpened
<1>2. g.closed <=> (IsOpened(g) /\ ~g.fp)
  BY <1>1 DEF SameButFlushed, FileHonest
<1>3. Len(g.pend) <= g.pos
  <2>1. g.pos \in Nat /\ Len(g.pend) = 0
    BY <1>1 DEF FileType
  <2> QED
    BY <2>1
<1> QED
  BY <1>1, <1>2, <1>3 DEF FileHonest

LEMMA UnmarkedEnd ==
  ASSUME NEW f, NEW g, SameButFlushed(f, g)
  PROVE SameButFlushed(f, [g EXCEPT !.eof = FALSE])
BY DEF SameButFlushed, FileType

LEMMA TookSame ==
  ASSUME NEW f, NEW g, SameButFlushed(f, g), NEW d \in Seq(Chars), NEW n \in Nat
  PROVE SameButFlushed(f, Took(g, d, n))
<1>1. SameButFlushed(g, Took(g, d, n))
  BY TookFacts DEF SameButFlushed
<1> QED
  BY <1>1 DEF SameButFlushed

LEMMA SoughtSame ==
  ASSUME NEW f, NEW g, SameButFlushed(f, g), NEW pos \in Nat
  PROVE SameButFlushed(f, Sought(g, pos))
<1>1. <<>> \in Seq(Chars)
  OBVIOUS
<1> QED
  BY <1>1 DEF SameButFlushed, FileType, Sought

\* A call that returns after what waits was stored, or with its loss told.
LEMMA TurnsBy ==
  ASSUME Storage, NEW h \in Files, IsOpened(files[h]), NEW op, NEW g, NEW res,
         SameButFlushed(files[h], g),
         Return(h, op, g, Stored(files[h], disk).d, res),
         IF Stored(files[h], disk).ok THEN ideal' = ideal ELSE ideal' = disk'
  PROVE Turn(h)
<1>1. g \in FileType /\ FileHonest(g) /\ g.pend = <<>> /\ IsOpened(g)
  BY FileAt, SameHonest
<1>2. files' = [files EXCEPT ![h] = g] /\ disk' = Stored(files[h], disk).d
  BY DEF Return
<1> QED
  BY <1>1, <1>2 DEF Turn

LEMMA ReadWithTurns ==
  ASSUME Storage, NEW h \in Files, IsOpened(files[h]), NEW op \in Readers \cup {"eof"}, ReadWith(h, op)
  PROVE Turn(h)
<1> DEFINE f == files[h]
           st == Stored(f, disk)
           got == Reading(f.mode, Ahead(st.f, st.d), op)
<1>1. SameButFlushed(f, st.f) /\ st.d \in Seq(Chars)
  BY FileAt, StoredFacts DEF Storage
<1>2. got.n \in Nat
  <2>1. Ahead(st.f, st.d) \in Seq(Chars)
    BY <1>1, AheadType DEF SameButFlushed
  <2> QED
    BY <2>1, ReadingAmount
<1>3. CASE ~st.ok
  <2> DEFINE g == [st.f EXCEPT !.eof = FALSE]
  <2>1. Return(h, op, g, st.d, Answer("raise")) /\ ideal' = disk'
    BY <1>3 DEF ReadWith, Told
  <2>2. SameButFlushed(f, g)
    BY <1>1, UnmarkedEnd
  <2> HIDE DEF g
  <2> QED
    BY <1>3, <2>1, <2>2, TurnsBy
<1>4. CASE st.ok
  <2> DEFINE g == Took(st.f, st.d, got.n)
  <2>1. Return(h, op, g, st.d, got.res) /\ ideal' = ideal
    BY <1>4 DEF ReadWith, Kept
  <2>2. SameButFlushed(f, g)
    BY <1>1, <1>2, TookSame
  <2> HIDE DEF g, got
  <2> QED
    BY <1>4, <2>1, <2>2, TurnsBy
<1> QED
  BY <1>3, <1>4

\* A File that is not open yet.
LEMMA NoFileFacts ==
  /\ NoFile \in FileType /\ ~NoFile.fp /\ ~NoFile.closed /\ NoFile.pend = <<>>
  /\ NoFile.pos = 0 /\ ~IsOpened(NoFile)
<1>1. <<>> \in Seq(Chars) /\ "" \in AnyMode /\ FALSE \in BOOLEAN /\ 0 \in Nat
  BY DEF AnyMode
<1>2. NoFile \in FileType
  BY <1>1 DEF NoFile, FileType
<1>3. ~NoFile.fp /\ ~NoFile.closed
  BY DEF NoFile
<1>4. NoFile.pend = <<>>
  BY DEF NoFile
<1>5. NoFile.pos = 0
  BY DEF NoFile
<1>6. ~IsOpened(NoFile)
  BY DEF NoFile, IsOpened
<1> QED
  BY <1>2, <1>3, <1>4, <1>5, <1>6

\* The File of a close that has its FILE*.
LEMMA ShutFacts ==
  ASSUME NEW f \in FileType, IsOpened(f)
  PROVE LET g == Shut(f)
        IN  g \in FileType /\ FileHonest(g) /\ g.pend = <<>> /\ IsOpened(g) /\ g.closed
<1> DEFINE g == Shut(f)
<1>1. NoFile \in FileType /\ ~NoFile.fp /\ NoFile.pend = <<>> /\ NoFile.pos = 0
  BY NoFileFacts
<1>2. f.mode \in AnyMode
  BY DEF FileType
<1>3. g \in FileType
  BY <1>1, <1>2 DEF Shut, FileType
<1>4. g.closed /\ ~g.fp /\ g.pend = <<>> /\ g.pos = 0 /\ g.mode = f.mode
  BY <1>1, <1>2 DEF Shut, FileType
<1> HIDE DEF g
<1>5. IsOpened(g)
  BY <1>4 DEF IsOpened
<1>6. FileHonest(g)
  <2>1. Len(g.pend) <= g.pos
    BY <1>4
  <2> QED
    BY <1>4, <1>5, <2>1 DEF FileHonest
<1> QED
  BY <1>3, <1>4, <1>5, <1>6 DEF g

LEMMA CloseTurns ==
  ASSUME Storage, NEW h \in Files, IsOpened(files[h]), CloseStream(h)
  PROVE Turn(h)
<1> DEFINE f == files[h]
           st == Stored(f, disk)
<1>1. f \in FileType /\ FileHonest(f) /\ disk \in Seq(Chars)
  BY FileAt DEF Storage
<1>2. CASE ~f.fp
  <2>1. f.pend = <<>>
    BY <1>1, <1>2 DEF FileHonest
  <2>2. st.d = disk /\ st.ok
    BY <1>1, <2>1, StoredFacts
  <2>3. Return(h, "close", f, disk, Answer("nil")) /\ ideal' = ideal
    BY <1>2 DEF CloseStream, Kept
  <2>4. files' = [files EXCEPT ![h] = f] /\ disk' = disk
    BY <2>3 DEF Return
  <2> QED
    BY <1>1, <2>1, <2>2, <2>3, <2>4 DEF Turn
<1>3. CASE f.fp
  <2> DEFINE g == Shut(f)
  <2>1. g \in FileType /\ FileHonest(g) /\ g.pend = <<>> /\ IsOpened(g)
    BY <1>1, ShutFacts
  <2>2. PICK res : Return(h, "close", g, st.d, res)
    BY <1>3 DEF CloseStream
  <2>3. IF st.ok THEN ideal' = ideal ELSE ideal' = disk'
    BY <1>3 DEF CloseStream, Kept, Told
  <2>4. files' = [files EXCEPT ![h] = g] /\ disk' = st.d
    BY <2>2 DEF Return
  <2> HIDE DEF g
  <2> QED
    BY <2>1, <2>3, <2>4 DEF Turn
<1> QED
  BY <1>2, <1>3

LEMMA SeekTurns ==
  ASSUME Storage, NEW h \in Files, NEW offset \in {-1, 0, 1}, NEW whence \in 0 .. 2,
         Seek(h, offset, whence), files[h].fp
  PROVE Turn(h)
<1> DEFINE f == files[h]
           st == Stored(f, disk)
           to == offset + CASE whence = 0 -> 0 [] whence = 1 -> st.f.pos [] whence = 2 -> Len(st.d)
           g1 == [st.f EXCEPT !.eof = FALSE]
           g2 == Sought(st.f, to)
<1>1. SameButFlushed(f, st.f) /\ st.d \in Seq(Chars) /\ IsOpened(f)
  BY FileAt, StoredFacts DEF Storage, Seek, Usable, Callable
<1>2. to \in Int
  <2>1. st.f.pos \in Nat
    BY <1>1 DEF SameButFlushed, FileType
  <2>2. Len(st.d) \in Nat
    BY <1>1
  <2> HIDE DEF st
  <2> QED
    BY <2>1, <2>2
<1>3. SameButFlushed(f, g1)
  BY <1>1, UnmarkedEnd
<1>4. to >= 0 => SameButFlushed(f, g2)
  <2> HIDE DEF to
  <2> QED
    BY <1>1, <1>2, SoughtSame
<1>5. IF ~st.ok THEN Return(h, "seek", g1, st.d, Answer("raise")) /\ ideal' = disk'
      ELSE /\ IF to < 0 THEN Return(h, "seek", g1, st.d, Answer("raise"))
                        ELSE Return(h, "seek", g2, st.d, Answer("ok"))
           /\ ideal' = ideal
  BY DEF Seek, Told, Kept
<1> HIDE DEF to, g1, g2
<1>6. CASE ~st.ok
  BY <1>1, <1>3, <1>5, <1>6, TurnsBy
<1>7. CASE st.ok /\ to < 0
  BY <1>1, <1>3, <1>5, <1>7, TurnsBy
<1>8. CASE st.ok /\ ~(to < 0)
  <2>1. to >= 0
    BY <1>2, <1>8
  <2> QED
    BY <1>1, <1>4, <1>5, <1>8, <2>1, TurnsBy
<1> QED
  BY <1>6, <1>7, <1>8

LEMMA RewindTurns ==
  ASSUME Storage, NEW h \in Files, Rewind(h), files[h].fp
  PROVE Turn(h)
<1> DEFINE f == files[h]
           st == Stored(f, disk)
           g == Sought(st.f, 0)
<1>1. SameButFlushed(f, st.f) /\ IsOpened(f)
  BY FileAt, StoredFacts DEF Storage, Rewind, Usable, Callable
<1>2. SameButFlushed(f, g)
  BY <1>1, SoughtSame
<1>3. Return(h, "rewind", g, st.d, Answer("ok")) /\ IF st.ok THEN ideal' = ideal ELSE ideal' = disk'
  BY DEF Rewind, Kept, PassedOver
<1> HIDE DEF g
<1> QED
  BY <1>1, <1>2, <1>3, TurnsBy

LEMMA FlushTurns ==
  ASSUME Storage, NEW h \in Files, Flush(h), files[h].fp
  PROVE Turn(h)
<1> DEFINE f == files[h]
           st == Stored(f, disk)
<1>1. SameButFlushed(f, st.f) /\ IsOpened(f)
  BY FileAt, StoredFacts DEF Storage, Flush, Usable, Callable
<1>2. Return(h, "flush", st.f, st.d, Answer("ok")) /\ IF st.ok THEN ideal' = ideal ELSE ideal' = disk'
  BY DEF Flush, Kept, PassedOver
<1> QED
  BY <1>1, <1>2, TurnsBy

\* A call that leaves the Writer at g and the file at d, when the program has been
\* promised what then waits in g.
LEMMA WriterKeeps ==
  ASSUME Storage, NEW g \in FileType, FileHonest(g), IsOpened(g), NEW d \in Seq(Chars),
         files' = [files EXCEPT ![Writer] = g], disk' = d, ideal' = SettledOf(g, d),
         SettledOf(g, d) \in Seq(Chars)
  PROVE Storage' /\ Grown
<1>1. files' \in [Files -> FileType]
  BY DEF Storage
<1>2. \A k \in Files : files'[k] = IF k = Writer THEN g ELSE files[k]
  BY DEF Storage
<1>3. FilesHonest'
  BY <1>2, Members DEF FilesHonest, Storage
<1>4. NothingLost'
  <2>1. (Settled)' = SettledOf(files'[Writer], disk')
    BY DEF Settled, SettledOf, Waiting
  <2> QED
    BY <1>2, <2>1, Members DEF NothingLost
<1>5. Grown
  BY <1>2 DEF Grown
<1> QED
  BY <1>1, <1>3, <1>4, <1>5 DEF Storage

\* What write leaves waiting is what the program was promised, at its place.
LEMMA AcceptedFacts ==
  ASSUME Storage, NEW s \in Seq(Chars), s # <<>>, IsOpened(files[Writer]), files[Writer].fp
  PROVE LET f == files[Writer]
            g == Accepted(f, s)
            at == IF IsAppend(f.mode) THEN Len(ideal) ELSE f.pos
        IN  /\ g \in FileType /\ FileHonest(g) /\ IsOpened(g)
            /\ SettledOf(g, disk) = Placed(ideal, at, s)
            /\ Placed(ideal, at, s) \in Seq(Chars)
<1> DEFINE f == files[Writer]
           g == Accepted(f, s)
           at == IF IsAppend(f.mode) THEN Len(ideal) ELSE f.pos
           w == Waiting(f, disk)
           pos1 == w + Len(f.pend) + Len(s)
           pend1 == f.pend \o s
<1>1. /\ f \in FileType /\ FileHonest(f) /\ disk \in Seq(Chars) /\ ideal \in Seq(Chars)
      /\ ideal = SettledOf(f, disk)
  BY FileAt, Members, SettledIs DEF Storage, NothingLost
<1>2. /\ w \in Nat /\ f.pend \in Seq(Chars) /\ f.pos \in Nat /\ <<>> \in Seq(Chars)
      /\ Len(f.pend) \in Nat /\ Len(s) \in Nat /\ Len(disk) \in Nat /\ Len(ideal) \in Nat
  <2>1. w \in Nat
    BY <1>1, WaitingType
  <2>2. f.pend \in Seq(Chars) /\ f.pos \in Nat
    BY <1>1 DEF FileType
  <2> HIDE DEF f, w
  <2> QED
    BY <1>1, <2>1, <2>2
<1>3. pend1 \in Seq(Chars) /\ Len(pend1) = Len(f.pend) + Len(s) /\ pend1 # <<>> /\ pos1 \in Nat
  <2> HIDE DEF f, w
  <2>1. pend1 \in Seq(Chars) /\ Len(pend1) = Len(f.pend) + Len(s)
    BY <1>2, ConcatProperties
  <2>2. Len(s) # 0
    OBVIOUS
  <2>3. Len(pend1) # 0
    BY <1>2, <2>1, <2>2
  <2> QED
    BY <1>2, <2>1, <2>3
<1>4. g = [f EXCEPT !.ahead = <<>>, !.pend = pend1, !.pos = pos1]
  BY DEF Accepted
<1> HIDE DEF f, g, w, pos1, pend1
<1>5. /\ g \in FileType /\ g.mode = f.mode /\ g.pend = pend1 /\ g.pos = pos1
  BY <1>1, <1>2, <1>3, <1>4 DEF FileType
<1>6. (g.fp <=> f.fp) /\ (g.closed <=> f.closed)
  BY <1>1, <1>4, Zenon DEF FileType
<1>7. IsOpened(f) /\ f.fp
  BY DEF f
<1>8. FileHonest(g) /\ IsOpened(g)
  <2>1. IsOpened(g)
    BY <1>5, <1>7 DEF IsOpened
  <2>2. g.closed <=> (IsOpened(g) /\ ~g.fp)
    BY <1>1, <1>6, <1>7, <2>1 DEF FileHonest
  <2>3. Len(g.pend) <= g.pos
    BY <1>2, <1>3, <1>5 DEF pos1
  <2> QED
    BY <1>6, <1>7, <2>1, <2>2, <2>3 DEF FileHonest
<1>9. Waiting(g, disk) = w
  <2>1. CASE IsAppend(f.mode)
    BY <1>5, <2>1 DEF Waiting, w
  <2>2. CASE ~IsAppend(f.mode)
    <3>1. Waiting(g, disk) = pos1 - Len(pend1)
      BY <1>5, <2>2 DEF Waiting
    <3>2. pos1 = w + Len(f.pend) + Len(s)
      BY DEF pos1
    <3>3. pos1 - Len(pend1) = w
      <4>1. \A a, b, c \in Nat : (a + b + c) - (b + c) = a
        OBVIOUS
      <4>2. Len(pend1) = Len(f.pend) + Len(s)
        BY <1>3
      <4>3. w \in Nat /\ Len(f.pend) \in Nat /\ Len(s) \in Nat
        BY <1>2
      <4>4. (w + Len(f.pend) + Len(s)) - (Len(f.pend) + Len(s)) = w
        BY <4>1, <4>3
      <4> QED
        BY <3>2, <4>2, <4>4
    <3> QED
      BY <3>1, <3>3
  <2> QED
    BY <2>1, <2>2
<1>10. SettledOf(g, disk) = Placed(disk, w, pend1)
  BY <1>3, <1>5, <1>9 DEF SettledOf
<1>11. Placed(disk, w, pend1) = Placed(ideal, at, s)
  <2>1. CASE f.pend = <<>>
    <3>1. pend1 = s
      BY <2>1 DEF pend1
    <3>2. ideal = disk
      BY <1>1, <2>1 DEF SettledOf
    <3>3. at = w
      BY <1>2, <2>1, <3>2 DEF w, Waiting
    <3> QED
      BY <3>1, <3>2, <3>3
  <2>2. CASE f.pend # <<>>
    <3>1. ideal = Placed(disk, w, f.pend)
      BY <1>1, <2>2 DEF SettledOf, w
    <3>2. at = w + Len(f.pend)
      <4>1. CASE IsAppend(f.mode)
        <5>1. w = Len(disk)
          BY <4>1 DEF w, Waiting
        <5>2. Len(ideal) = IF Len(disk) > w + Len(f.pend) THEN Len(disk) ELSE w + Len(f.pend)
          <6>1. w \in Int
            BY <1>2
          <6> QED
            BY <1>1, <1>2, <3>1, <6>1, PlacedFacts
        <5> QED
          BY <1>2, <4>1, <5>1, <5>2
      <4>2. CASE ~IsAppend(f.mode)
        BY <1>2, <4>2 DEF w, Waiting
      <4> QED
        BY <4>1, <4>2
    <3>3. w \in Int
      BY <1>2
    <3>4. Placed(Placed(disk, w, f.pend), w + Len(f.pend), s) = Placed(disk, w, pend1)
      <4>1. disk \in Seq(Chars) /\ f.pend \in Seq(Chars) /\ s \in Seq(Chars)
        BY <1>1, <1>2
      <4>2. Placed(Placed(disk, w, f.pend), w + Len(f.pend), s) = Placed(disk, w, f.pend \o s)
        BY <3>3, <4>1, PlacedTwice, Zenon
      <4> QED
        BY <4>2, Zenon DEF pend1
    <3> QED
      BY <3>1, <3>2, <3>4
  <2> QED
    BY <2>1, <2>2
<1>12. Placed(ideal, at, s) \in Seq(Chars)
  <2>1. at \in Int
    BY <1>2
  <2> HIDE DEF at
  <2> QED
    BY <1>1, <2>1, PlacedFacts
<1> QED
  BY <1>5, <1>8, <1>10, <1>11, <1>12 DEF f, g

LEMMA WriteKeeps ==
  ASSUME Storage, NEW s \in Pieces, Write(Writer, s)
  PROVE Storage' /\ Grown
<1> DEFINE f == files[Writer]
           g == Accepted(f, s)
           at == IF IsAppend(f.mode) THEN Len(ideal) ELSE f.pos
           st == Stored(g, disk)
<1>1. s \in Seq(Chars) /\ s # <<>> /\ IsOpened(f) /\ disk \in Seq(Chars)
  BY BytesAssumption DEF Write, Usable, Callable, Storage
<1>2. CASE ~AllowsWrite(f.mode) \/ ~f.fp
  BY <1>2, QuietKeeps DEF Write, Refuse
<1>3. CASE AllowsWrite(f.mode) /\ f.fp
  <2>1. /\ g \in FileType /\ FileHonest(g) /\ IsOpened(g)
        /\ SettledOf(g, disk) = Placed(ideal, at, s)
        /\ Placed(ideal, at, s) \in Seq(Chars)
    BY <1>1, <1>3, AcceptedFacts
  <2>2. /\ SameButFlushed(g, st.f) /\ st.d \in Seq(Chars)
        /\ IF st.ok THEN st.d = SettledOf(g, disk) ELSE st.d = disk
    BY <1>1, <2>1, StoredFacts
  <2>3. st.f \in FileType /\ FileHonest(st.f) /\ st.f.pend = <<>> /\ IsOpened(st.f)
    BY <2>1, <2>2, SameHonest
  <2>4. PICK buffered \in BOOLEAN :
          LET r == IF buffered THEN [ok |-> TRUE, f |-> g, d |-> disk] ELSE st
          IN  /\ Return(Writer, "write", r.f, r.d, Answer(IF r.ok THEN "ok" ELSE "raise"))
              /\ IF r.ok THEN ideal' = Placed(ideal, at, s) ELSE ideal' = disk'
    BY <1>3 DEF Write, Told
  <2> HIDE DEF g, st, at
  <2>5. CASE buffered
    <3>1. files' = [files EXCEPT ![Writer] = g] /\ disk' = disk /\ ideal' = Placed(ideal, at, s)
      BY <2>4, <2>5 DEF Return
    <3> QED
      BY <1>1, <2>1, <3>1, WriterKeeps
  <2>6. CASE ~buffered
    <3>1. /\ files' = [files EXCEPT ![Writer] = st.f] /\ disk' = st.d
          /\ IF st.ok THEN ideal' = Placed(ideal, at, s) ELSE ideal' = disk'
      BY <2>4, <2>6 DEF Return
    <3>2. SettledOf(st.f, st.d) = st.d
      BY <2>3 DEF SettledOf
    <3>3. ideal' = st.d
      BY <2>1, <2>2, <3>1
    <3> QED
      BY <2>2, <2>3, <3>1, <3>2, <3>3, WriterKeeps
  <2> QED
    BY <2>5, <2>6
<1> QED
  BY <1>2, <1>3

LEMMA OpenKeeps ==
  ASSUME Storage, NEW h \in Files, NEW mode \in (IF h = Writer THEN Modes ELSE {"r"}),
         NEW block \in BOOLEAN, Open(h, mode, block)
  PROVE Storage' /\ Grown /\ IsOpened(files'[h]) /\ files'[h].fp /\ ~files'[h].closed
<1> DEFINE d == IF mode \in {"w", "w+"} THEN <<>> ELSE disk
           pos1 == IF IsAppend(mode) THEN Len(disk) ELSE 0
           f == [NoFile EXCEPT !.mode = mode, !.fp = TRUE, !.pos = pos1]
<1>1. /\ files[h] = NoFile /\ disk \in Seq(Chars) /\ files \in [Files -> FileType]
      /\ <<>> \in Seq(Chars)
  <2>1. ~IsOpened(files[h])
    BY DEF Open
  <2>2. FileHonest(files[h])
    BY FileAt
  <2>3. files[h] = NoFile
    BY <2>1, <2>2 DEF FileHonest
  <2> QED
    BY <2>3 DEF Storage
<1>2. mode \in AnyMode /\ mode # ""
  BY ModesAssumption DEF AnyMode
<1>3. d \in Seq(Chars) /\ pos1 \in Nat
  BY <1>1
<1>4. /\ files' = [files EXCEPT ![h] = f] /\ disk' = d
      /\ ideal' = IF d = disk THEN ideal ELSE d
  BY DEF Open, Return
<1> HIDE DEF d, pos1
<1>5. f \in FileType /\ f.pend = <<>> /\ f.mode = mode /\ f.fp /\ ~f.closed /\ f.pos = pos1
  BY <1>2, <1>3, NoFileFacts DEF FileType
<1> HIDE DEF f
<1>6. IsOpened(f)
  BY <1>2, <1>5 DEF IsOpened
<1>7. FileHonest(f)
  <2>1. Len(f.pend) <= f.pos
    BY <1>3, <1>5
  <2> QED
    BY <1>5, <1>6, <2>1 DEF FileHonest
<1>8. files'[h] = f
  BY <1>1, <1>4
<1>9. CASE h = Writer
  <2>1. SettledOf(f, d) = d
    BY <1>5 DEF SettledOf
  <2>2. ideal = disk
    <3>1. SettledOf(files[h], disk) = disk
      BY <1>1, NoFileFacts DEF SettledOf
    <3> QED
      BY <1>9, <3>1, SettledIs DEF Storage, NothingLost
  <2>3. ideal' = d
    BY <1>4, <2>2
  <2> QED
    BY <1>3, <1>4, <1>5, <1>6, <1>7, <1>8, <1>9, <2>1, <2>3, WriterKeeps
<1>10. CASE h = Reader
  <2>1. mode = "r"
    BY <1>10, Members
  <2>2. d = disk
    BY <2>1 DEF d
  <2>3. \A k \in Files : files'[k] = IF k = h THEN f ELSE files[k]
    BY <1>1, <1>4
  <2>4. files' \in [Files -> FileType] /\ disk' = disk /\ ideal' = ideal
    BY <1>1, <1>4, <1>5, <2>2
  <2>5. FilesHonest'
    BY <1>5, <1>7, <1>10, <2>3, Members DEF FilesHonest, Storage
  <2>6. NothingLost'
    <3>1. files'[Writer] = files[Writer]
      BY <1>10, <2>3, Members
    <3>2. (Settled)' = SettledOf(files'[Writer], disk')
      BY DEF Settled, SettledOf, Waiting
    <3> QED
      BY <2>4, <3>1, <3>2, SettledIs DEF NothingLost, Storage
  <2>7. Grown
    BY <1>6, <2>3 DEF Grown
  <2>8. Storage'
    BY <2>4, <2>5, <2>6 DEF Storage
  <2> QED
    BY <1>5, <1>6, <1>8, <2>7, <2>8
<1> QED
  BY <1>9, <1>10 DEF Files

-----------------------------------------------------------------------------
(***************************************************************************)
(* The blocks                                                              *)
(***************************************************************************)
LEMMA FrontFacts ==
  ASSUME NEW S, NEW s \in Seq(S), s # <<>>
  PROVE /\ Front(s) \in Seq(S) /\ Len(Front(s)) = Len(s) - 1
        /\ \A i \in 1 .. Len(s) - 1 : Front(s)[i] = s[i]
        /\ Len(s) \in 1 .. Len(s) /\ s[Len(s)] \in S
<1>1. Len(s) \in Nat /\ Len(s) # 0
  OBVIOUS
<1>2. Front(s) = SubSeq(s, 1, Len(s) - 1)
  BY DEF Front
<1>3. /\ SubSeq(s, 1, Len(s) - 1) \in Seq(S) /\ Len(SubSeq(s, 1, Len(s) - 1)) = Len(s) - 1
      /\ \A i \in 1 .. Len(s) - 1 : SubSeq(s, 1, Len(s) - 1)[i] = s[i]
  <2> DEFINE n == Len(s) - 1
  <2>1. n \in Nat /\ n <= Len(s) /\ n \in 0 .. Len(s)
    BY <1>1
  <2> HIDE DEF n
  <2>2. /\ SubSeq(s, 1, n) \in Seq(S) /\ Len(SubSeq(s, 1, n)) = n
        /\ \A i \in 1 .. n : SubSeq(s, 1, n)[i] = s[i]
    BY <1>1, <2>1
  <2> QED
    BY <2>2 DEF n
<1>4. Len(s) \in 1 .. Len(s)
  BY <1>1
<1> QED
  BY <1>2, <1>3, <1>4, ElementOfSeq

LEMMA SameBlocks ==
  ASSUME Blocks, Grown, within' = within PROVE Blocks'
<1>1. \A i \in 1 .. Len(within) : within[i].h \in Files
  <2> SUFFICES ASSUME NEW i \in 1 .. Len(within) PROVE within[i].h \in Files
    OBVIOUS
  <2>1. within[i] \in BlockType
    BY ElementOfSeq DEF Blocks
  <2> QED
    BY <2>1 DEF BlockType
<1> QED
  BY <1>1 DEF Blocks, BlocksHonest, Grown

LEMMA LessBlocks ==
  ASSUME Blocks, Grown, within # <<>>, within' = Front(within) PROVE Blocks'
<1>1. /\ Front(within) \in Seq(BlockType) /\ Len(Front(within)) = Len(within) - 1
      /\ \A i \in 1 .. Len(within) - 1 : Front(within)[i] = within[i]
  BY FrontFacts DEF Blocks
<1>2. \A i \in 1 .. Len(within) - 1 : i \in 1 .. Len(within)
  BY DEF Blocks
<1>3. \A i \in 1 .. Len(within') : within'[i] = within[i] /\ i \in 1 .. Len(within)
  BY <1>1, <1>2
<1>4. \A i \in 1 .. Len(within) : within[i].h \in Files
  <2> SUFFICES ASSUME NEW i \in 1 .. Len(within) PROVE within[i].h \in Files
    OBVIOUS
  <2>1. within[i] \in BlockType
    BY ElementOfSeq DEF Blocks
  <2> QED
    BY <2>1 DEF BlockType
<1>5. BlocksHonest'
  BY <1>3, <1>4 DEF Blocks, BlocksHonest, Grown
<1> QED
  BY <1>1, <1>5 DEF Blocks

LEMMA MoreBlocks ==
  ASSUME Blocks, Grown, NEW b \in BlockType, within' = Append(within, b),
         IsOpened(files'[b.h]), b.kind = "each" => b.how \in Each
  PROVE Blocks'
<1>1. /\ within' \in Seq(BlockType) /\ Len(within') = Len(within) + 1 /\ Len(within) \in Nat
      /\ \A i \in 1 .. Len(within) : within'[i] = within[i]
      /\ within'[Len(within) + 1] = b
  BY AppendProperties DEF Blocks
<1>2. \A i \in 1 .. Len(within) : within[i].h \in Files
  <2> SUFFICES ASSUME NEW i \in 1 .. Len(within) PROVE within[i].h \in Files
    OBVIOUS
  <2>1. within[i] \in BlockType
    BY ElementOfSeq DEF Blocks
  <2> QED
    BY <2>1 DEF BlockType
<1>3. ASSUME NEW i \in 1 .. Len(within')
      PROVE IsOpened(files'[within'[i].h]) /\ (within'[i].kind = "each" => within'[i].how \in Each)
  <2>1. CASE i = Len(within) + 1
    BY <1>1, <2>1
  <2>2. CASE i # Len(within) + 1
    <3>1. i \in 1 .. Len(within)
      BY <1>1, <2>2
    <3> QED
      BY <1>1, <1>2, <3>1 DEF Blocks, BlocksHonest, Grown
  <2> QED
    BY <2>1, <2>2
<1> QED
  BY <1>1, <1>3 DEF Blocks, BlocksHonest

-----------------------------------------------------------------------------
(***************************************************************************)
(* The steps                                                               *)
(***************************************************************************)
LEMMA RefuseKeeps ==
  ASSUME Storage, NEW h, NEW op, Refuse(h, op) PROVE Storage' /\ Grown
BY QuietKeeps DEF Refuse

\* A reader, or its refusal.
LEMMA ReaderKeeps ==
  ASSUME Storage, NEW h \in Files, IsOpened(files[h]), NEW op \in Readers \cup {"eof"},
         ReadWith(h, op) \/ Refuse(h, op)
  PROVE Storage' /\ Grown
BY ReadWithTurns, TurnKeeps, RefuseKeeps

\* The block innermost is one of those that are being run.
LEMMA InnermostFacts ==
  ASSUME Blocks, within # <<>>
  PROVE /\ Innermost \in BlockType /\ Innermost.h \in Files /\ IsOpened(files[Innermost.h])
        /\ Innermost.kind = "each" => Innermost.how \in Each
<1>1. Len(within) \in 1 .. Len(within) /\ within[Len(within)] \in BlockType
  BY FrontFacts DEF Blocks
<1>2. /\ IsOpened(files[within[Len(within)].h])
      /\ within[Len(within)].kind = "each" => within[Len(within)].how \in Each
  BY <1>1 DEF Blocks, BlocksHonest
<1> QED
  BY <1>1, <1>2 DEF Innermost, BlockType

LEMMA EachReads == Each \subseteq Readers \cup {"eof"}
BY DEF Each, Readers

LEMMA InitStreams == Init => StreamsInv
<1> SUFFICES ASSUME Init PROVE StreamsInv
  OBVIOUS
<1>1. disk \in Seq(Chars) /\ ideal = disk /\ within = <<>>
  BY BytesAssumption DEF Init
<1>2. files \in [Files -> FileType] /\ \A h \in Files : files[h] = NoFile
  BY NoFileFacts DEF Init
<1>3. FilesHonest
  <2>1. FileHonest(NoFile)
    <3>1. Len(NoFile.pend) <= NoFile.pos
      BY NoFileFacts
    <3> QED
      BY <3>1, NoFileFacts DEF FileHonest
  <2> QED
    BY <1>2, <2>1, Members, NoFileFacts DEF FilesHonest
<1>4. NothingLost
  <2>1. files[Writer].pend = <<>>
    BY <1>2, Members, NoFileFacts
  <2> QED
    BY <1>1, <2>1 DEF NothingLost, Settled
<1>5. Blocks
  BY <1>1 DEF Blocks, BlocksHonest
<1> QED
  BY <1>1, <1>2, <1>3, <1>4, <1>5 DEF StreamsInv, Storage

LEMMA StepStreams ==
  ASSUME StreamsInv, Next PROVE StreamsInv'
<1>0. Storage /\ Blocks
  BY DEF StreamsInv
<1>1. ASSUME NEW h \in Files, NEW mode \in (IF h = Writer THEN Modes ELSE {"r"}),
             NEW block \in BOOLEAN, Open(h, mode, block)
      PROVE StreamsInv'
  <2>1. Storage' /\ Grown /\ IsOpened(files'[h])
    BY <1>0, <1>1, OpenKeeps
  <2>2. CASE block
    <3> DEFINE b == [kind |-> "open", h |-> h, how |-> ""]
    <3>1. b \in BlockType /\ b.h = h /\ b.kind = "open"
      BY DEF BlockType, AnyHow
    <3>2. within' = Append(within, b)
      BY <1>1, <2>2 DEF Open
    <3> HIDE DEF b
    <3> QED
      BY <1>0, <2>1, <3>1, <3>2, MoreBlocks DEF StreamsInv
  <2>3. CASE ~block
    <3>1. within' = within
      BY <1>1, <2>3 DEF Open
    <3> QED
      BY <1>0, <2>1, <3>1, SameBlocks DEF StreamsInv
  <2> QED
    BY <2>2, <2>3
<1>2. ASSUME NEW h \in Files, NEW op \in Readers, Read(h, op) PROVE StreamsInv'
  <2>1. IsOpened(files[h]) /\ (ReadWith(h, op) \/ Refuse(h, op)) /\ within' = within
    BY <1>2 DEF Read, Usable, Callable
  <2> QED
    BY <1>0, <2>1, ReaderKeeps, SameBlocks DEF StreamsInv
<1>3. ASSUME NEW h \in Files, NEW how \in Each, StartEach(h, how) PROVE StreamsInv'
  <2>1. IsOpened(files[h]) /\ (ReadWith(h, how) \/ Refuse(h, how))
    BY <1>3 DEF StartEach, Usable, Callable
  <2>2. Storage' /\ Grown
    BY <1>0, <2>1, EachReads, ReaderKeeps
  <2> DEFINE b == [kind |-> "each", h |-> h, how |-> how]
  <2>3. b \in BlockType /\ b.h = h /\ b.how = how
    BY DEF BlockType, AnyHow
  <2>4. within' = Append(within, b) \/ within' = within
    BY <1>3 DEF StartEach
  <2>5. IsOpened(files'[h])
    BY <2>1, <2>2 DEF Grown
  <2> HIDE DEF b
  <2>6. Blocks'
    BY <1>0, <2>2, <2>3, <2>4, <2>5, MoreBlocks, SameBlocks
  <2> QED
    BY <2>2, <2>6 DEF StreamsInv
<1>4. ASSUME NEW h \in Files, Eof(h) PROVE StreamsInv'
  <2>1. IsOpened(files[h]) /\ (ReadWith(h, "eof") \/ Refuse(h, "eof")) /\ within' = within
    BY <1>4 DEF Eof, Usable, Callable
  <2> QED
    BY <1>0, <2>1, ReaderKeeps, SameBlocks DEF StreamsInv
<1>5. ASSUME NEW h \in Files, Rewind(h) PROVE StreamsInv'
  <2>1. within' = within /\ (files[h].fp \/ Refuse(h, "rewind"))
    BY <1>5 DEF Rewind
  <2>2. Storage' /\ Grown
    BY <1>0, <1>5, <2>1, RewindTurns, TurnKeeps, RefuseKeeps
  <2> QED
    BY <1>0, <2>1, <2>2, SameBlocks DEF StreamsInv
<1>6. ASSUME NEW h \in Files, Close(h) PROVE StreamsInv'
  <2>1. within' = within /\ IsOpened(files[h]) /\ CloseStream(h)
    BY <1>6 DEF Close, Callable
  <2> QED
    BY <1>0, <2>1, CloseTurns, TurnKeeps, SameBlocks DEF StreamsInv
<1>7. ASSUME NEW h \in Files, Refused(h, "any"), UNCHANGED <<full, within>> PROVE StreamsInv'
  BY <1>0, <1>7, RefuseKeeps, SameBlocks DEF Refused, StreamsInv
<1>8. ASSUME NEW h \in Files, NEW whence \in 0 .. 2, NEW offset \in {-1, 0, 1},
             Seek(h, offset, whence)
      PROVE StreamsInv'
  <2>1. within' = within /\ (files[h].fp \/ Refuse(h, "seek"))
    BY <1>8 DEF Seek
  <2>2. Storage' /\ Grown
    BY <1>0, <1>8, <2>1, SeekTurns, TurnKeeps, RefuseKeeps
  <2> QED
    BY <1>0, <2>1, <2>2, SameBlocks DEF StreamsInv
<1>9. ASSUME NEW s \in Pieces, Write(Writer, s) PROVE StreamsInv'
  <2>1. within' = within
    BY <1>9 DEF Write
  <2> QED
    BY <1>0, <1>9, <2>1, WriteKeeps, SameBlocks DEF StreamsInv
<1>10. CASE Flush(Writer)
  <2>1. within' = within /\ (files[Writer].fp \/ Refuse(Writer, "flush"))
    BY <1>10 DEF Flush
  <2>2. Storage' /\ Grown
    BY <1>0, <1>10, <2>1, Members, FlushTurns, TurnKeeps, RefuseKeeps
  <2> QED
    BY <1>0, <2>1, <2>2, SameBlocks DEF StreamsInv
<1>11. CASE NextEach
  <2> DEFINE h == Innermost.h
             how == Innermost.how
  <2>1. within # <<>> /\ Innermost.kind = "each" /\ (ReadWith(h, how) \/ Refuse(h, how))
    BY <1>11 DEF NextEach
  <2>2. within' = within \/ within' = Front(within)
    BY <1>11 DEF NextEach
  <2>3. h \in Files /\ IsOpened(files[h]) /\ how \in Readers \cup {"eof"}
    BY <1>0, <2>1, InnermostFacts, EachReads
  <2> HIDE DEF h, how
  <2>4. Storage' /\ Grown
    BY <1>0, <2>1, <2>3, ReaderKeeps
  <2> QED
    BY <1>0, <2>1, <2>2, <2>4, SameBlocks, LessBlocks DEF StreamsInv
<1>12. CASE LeaveBlock
  <2> DEFINE h == Innermost.h
  <2>1. within # <<>> /\ within' = Front(within)
    BY <1>12 DEF LeaveBlock
  <2>2. CloseStream(h) \/ UNCHANGED <<disk, files, ideal>>
    BY <1>12 DEF LeaveBlock
  <2>3. h \in Files /\ IsOpened(files[h])
    BY <1>0, <2>1, InnermostFacts
  <2> HIDE DEF h
  <2>4. Storage' /\ Grown
    BY <1>0, <2>2, <2>3, CloseTurns, TurnKeeps, QuietKeeps
  <2> QED
    BY <1>0, <2>1, <2>4, LessBlocks DEF StreamsInv
<1>13. CASE Device
  <2>1. UNCHANGED <<disk, files, ideal>> /\ within' = within
    BY <1>13 DEF Device
  <2> QED
    BY <1>0, <2>1, QuietKeeps, SameBlocks DEF StreamsInv
<1> QED
  BY <1>1, <1>2, <1>3, <1>4, <1>5, <1>6, <1>7, <1>8, <1>9, <1>10, <1>11, <1>12, <1>13 DEF Next

LEMMA StreamsInvCorrect == Spec => []StreamsInv
<1>1. ASSUME StreamsInv, UNCHANGED vars PROVE StreamsInv'
  <2>1. Storage' /\ Grown /\ within' = within
    BY <1>1, QuietKeeps DEF vars, StreamsInv
  <2> QED
    BY <1>1, <2>1, SameBlocks DEF StreamsInv
<1>2. StreamsInv /\ [Next]_vars => StreamsInv'
  BY <1>1, StepStreams
<1> QED
  BY <1>2, InitStreams, PTL DEF Spec

\* No byte of a write that returned is lost, or stored elsewhere, in silence but by
\* a flush or a rewind that fails: the buffer of the writing File, stored where it
\* waits, gives what the writes promised, through every read, seek, append, close
\* and block.
THEOREM NothingLostCorrect == Spec => []NothingLost
<1>1. StreamsInv => NothingLost
  BY DEF StreamsInv, Storage
<1> QED
  BY <1>1, StreamsInvCorrect, PTL

-----------------------------------------------------------------------------
(***************************************************************************)
(* Closing                                                                 *)
(***************************************************************************)
Reads == Readers \cup {"write", "seek", "any"}

\* A closed File stays as it is, and what it is asked to read or write is refused.
ClosedStay ==
    \A h \in Files :
        files[h].closed =>
            /\ files'[h] = files[h]
            /\ last'.h = h /\ last'.op \in Reads => last'.is = "raise" /\ disk' = disk

\* The open block of h is left.
Runs(blocks, h) == \E i \in DOMAIN blocks : blocks[i].kind = "open" /\ blocks[i].h = h
Left(h) == Runs(within, h) /\ ~Runs(within', h)

\* A call on an open File, or a call that changes no File and is refused.
LEMMA OthersStay ==
  ASSUME files \in [Files -> FileType], NEW k \in Files, ~files[k].closed, NEW op, NEW g, NEW d, NEW res,
         Return(k, op, g, d, res) \/ Refuse(k, op)
  PROVE ClosedStay
<1>1. last'.h = k
  BY DEF Return, Refuse
<1>2. \A h \in Files : h # k => files'[h] = files[h]
  BY DEF Return, Refuse
<1> QED
  BY <1>1, <1>2 DEF ClosedStay

LEMMA RefusedStay ==
  ASSUME NEW k, NEW op, Refuse(k, op) PROVE ClosedStay
<1>1. files' = files /\ disk' = disk /\ last'.is = "raise"
  BY DEF Refuse
<1> QED
  BY <1>1 DEF ClosedStay

LEMMA CloseStays ==
  ASSUME Storage, NEW k \in Files, IsOpened(files[k]), CloseStream(k)
  PROVE ClosedStay /\ files'[k].closed
<1> DEFINE f == files[k]
<1>1. f \in FileType /\ FileHonest(f) /\ files \in [Files -> FileType]
  BY FileAt DEF Storage
<1>2. PICK g, d, res : Return(k, "close", g, d, res) /\ (IF f.fp THEN g = Shut(f) ELSE g = f)
  BY DEF CloseStream
<1>3. last'.h = k /\ last'.op = "close" /\ files' = [files EXCEPT ![k] = g]
  BY <1>2 DEF Return
<1>4. "close" \notin Reads
  BY DEF Reads, Readers
<1>5. \A h \in Files : files'[h] = IF h = k THEN g ELSE files[h]
  BY <1>1, <1>3
<1>6. f.closed => ~f.fp
  BY <1>1 DEF FileHonest
<1>7. ClosedStay
  BY <1>2, <1>3, <1>4, <1>5, <1>6 DEF ClosedStay
<1>8. g.closed
  <2>1. CASE f.fp
    BY <1>1, <1>2, <2>1, ShutFacts
  <2>2. CASE ~f.fp
    BY <1>1, <1>2, <2>2 DEF FileHonest
  <2> QED
    BY <2>1, <2>2
<1> QED
  BY <1>5, <1>7, <1>8

LEMMA ReadWithStays ==
  ASSUME Storage, NEW k \in Files, files[k].fp, NEW op, ReadWith(k, op)
  PROVE ClosedStay
<1>1. ~files[k].closed /\ files \in [Files -> FileType]
  BY FileAt DEF Storage, FileHonest
<1>2. PICK g, d, res : Return(k, op, g, d, res)
  BY DEF ReadWith
<1> QED
  BY <1>1, <1>2, OthersStay

LEMMA SeqDomain ==
  ASSUME NEW S, NEW s \in Seq(S) PROVE DOMAIN s = 1 .. Len(s) /\ Len(s) \in Nat
OBVIOUS

LEMMA NotLast == \A n \in Nat : \A i \in 1 .. n : i # n => i \in 1 .. n - 1
OBVIOUS

\* The blocks that are left by a step that keeps them, adds one, or ends an each.
LEMMA NoneLeft ==
  ASSUME Blocks,
         \/ within' = within
         \/ \E b \in BlockType : within' = Append(within, b)
         \/ within # <<>> /\ Innermost.kind = "each" /\ within' = Front(within)
  PROVE \A h \in Files : ~Left(h)
<1> SUFFICES ASSUME NEW h \in Files, Runs(within, h) PROVE Runs(within', h)
  BY DEF Left
<1>1. within \in Seq(BlockType) /\ DOMAIN within = 1 .. Len(within) /\ Len(within) \in Nat
  BY DEF Blocks
<1>2. PICK i \in 1 .. Len(within) : within[i].kind = "open" /\ within[i].h = h
  BY <1>1 DEF Runs
<1>3. ASSUME NEW j \in DOMAIN within', within'[j] = within[i] PROVE Runs(within', h)
  BY <1>2, <1>3 DEF Runs
<1>4. CASE within' = within
  BY <1>1, <1>3, <1>4
<1>5. ASSUME NEW b \in BlockType, within' = Append(within, b) PROVE Runs(within', h)
  <2>1. /\ Append(within, b) \in Seq(BlockType) /\ Len(Append(within, b)) = Len(within) + 1
        /\ Append(within, b)[i] = within[i]
    BY <1>1, AppendProperties
  <2>2. i \in DOMAIN Append(within, b)
    <3>1. DOMAIN Append(within, b) = 1 .. Len(within) + 1
      BY <2>1, SeqDomain
    <3> QED
      BY <1>1, <3>1
  <2> QED
    BY <1>3, <1>5, <2>1, <2>2
<1>6. CASE within # <<>> /\ Innermost.kind = "each" /\ within' = Front(within)
  <2>1. /\ within' \in Seq(BlockType) /\ Len(within') = Len(within) - 1
        /\ \A j \in 1 .. Len(within) - 1 : within'[j] = within[j]
    BY <1>1, <1>6, FrontFacts
  <2>2. i # Len(within)
    BY <1>2, <1>6 DEF Innermost
  <2>3. i \in 1 .. Len(within) - 1
    BY <1>1, <2>2, NotLast, Zenon
  <2>4. DOMAIN within' = 1 .. Len(within) - 1
    BY <2>1, SeqDomain
  <2> QED
    BY <1>3, <2>1, <2>3, <2>4
<1> QED
  BY <1>4, <1>5, <1>6

\* The block that is left by LeaveBlock is the innermost.
LEMMA InnermostLeft ==
  ASSUME Blocks, within # <<>>, within' = Front(within), NEW h \in Files, Left(h)
  PROVE Innermost.kind = "open" /\ Innermost.h = h
<1>1. within \in Seq(BlockType) /\ DOMAIN within = 1 .. Len(within) /\ Len(within) \in Nat
  BY DEF Blocks
<1>2. PICK i \in 1 .. Len(within) : within[i].kind = "open" /\ within[i].h = h
  BY <1>1 DEF Left, Runs
<1>3. /\ within' \in Seq(BlockType) /\ Len(within') = Len(within) - 1
      /\ \A j \in 1 .. Len(within) - 1 : within'[j] = within[j]
  BY <1>1, FrontFacts
<1>4. ASSUME i # Len(within) PROVE FALSE
  <2>0. DOMAIN within' = 1 .. Len(within) - 1
    BY <1>3, SeqDomain
  <2>1. i \in 1 .. Len(within) - 1 /\ i \in DOMAIN within'
    BY <1>1, <1>4, <2>0, NotLast, Zenon
  <2>2. Runs(within', h)
    BY <1>2, <1>3, <2>1 DEF Runs
  <2> QED
    BY <2>2 DEF Left
<1> QED
  BY <1>2, <1>4 DEF Innermost

LEMMA StepCloses ==
  ASSUME StreamsInv, Next
  PROVE ClosedStay /\ \A h \in Files : Left(h) => files'[h].closed
<1>0. Storage /\ Blocks /\ files \in [Files -> FileType]
  BY DEF StreamsInv, Storage
<1>s. ASSUME within' = within PROVE \A h \in Files : ~Left(h)
  BY <1>0, <1>s, NoneLeft
<1>1. ASSUME NEW k \in Files, NEW mode \in (IF k = Writer THEN Modes ELSE {"r"}),
             NEW block \in BOOLEAN, Open(k, mode, block)
      PROVE ClosedStay /\ \A h \in Files : ~Left(h)
  <2>1. ~files[k].closed
    <3>1. ~IsOpened(files[k])
      BY <1>1 DEF Open
    <3>2. FileHonest(files[k])
      BY <1>0, FileAt
    <3> QED
      BY <3>1, <3>2 DEF FileHonest
  <2>2. PICK g, d : Return(k, "open", g, d, Answer("ok"))
    BY <1>1 DEF Open
  <2>3. \A h \in Files : ~Left(h)
    <3> DEFINE b == [kind |-> "open", h |-> k, how |-> ""]
    <3>1. b \in BlockType
      BY DEF BlockType, AnyHow
    <3>2. within' = Append(within, b) \/ within' = within
      BY <1>1 DEF Open
    <3> HIDE DEF b
    <3> QED
      BY <1>0, <3>1, <3>2, NoneLeft
  <2> QED
    BY <1>0, <2>1, <2>2, <2>3, OthersStay
<1>2. ASSUME NEW k \in Files, NEW op \in Readers, Read(k, op)
      PROVE ClosedStay /\ \A h \in Files : ~Left(h)
  <2>1. (files[k].fp /\ ReadWith(k, op)) \/ Refuse(k, op)
    BY <1>2 DEF Read
  <2>2. within' = within
    BY <1>2 DEF Read
  <2> QED
    BY <1>0, <1>s, <2>1, <2>2, ReadWithStays, RefusedStay
<1>3. ASSUME NEW k \in Files, NEW how \in Each, StartEach(k, how)
      PROVE ClosedStay /\ \A h \in Files : ~Left(h)
  <2>1. (files[k].fp /\ ReadWith(k, how)) \/ Refuse(k, how)
    BY <1>3 DEF StartEach
  <2> DEFINE b == [kind |-> "each", h |-> k, how |-> how]
  <2>2. b \in BlockType
    BY DEF BlockType, AnyHow
  <2>3. within' = Append(within, b) \/ within' = within
    BY <1>3 DEF StartEach
  <2> HIDE DEF b
  <2> QED
    BY <1>0, <2>1, <2>2, <2>3, ReadWithStays, RefusedStay, NoneLeft
<1>4. ASSUME NEW k \in Files, Eof(k) PROVE ClosedStay /\ \A h \in Files : ~Left(h)
  <2>1. (files[k].fp /\ ReadWith(k, "eof")) \/ Refuse(k, "eof")
    BY <1>4 DEF Eof
  <2>2. within' = within
    BY <1>4 DEF Eof
  <2> QED
    BY <1>0, <1>s, <2>1, <2>2, ReadWithStays, RefusedStay
<1>5. ASSUME NEW k \in Files, Rewind(k) PROVE ClosedStay /\ \A h \in Files : ~Left(h)
  <2>1. ~files[k].closed /\ within' = within
    BY <1>5 DEF Rewind, Usable
  <2>2. Refuse(k, "rewind") \/ \E g, d, res : Return(k, "rewind", g, d, res)
    BY <1>5 DEF Rewind
  <2> QED
    BY <1>0, <1>s, <2>1, <2>2, OthersStay
<1>6. ASSUME NEW k \in Files, Close(k) PROVE ClosedStay /\ \A h \in Files : ~Left(h)
  <2>1. IsOpened(files[k]) /\ CloseStream(k) /\ within' = within
    BY <1>6 DEF Close, Callable
  <2> QED
    BY <1>0, <1>s, <2>1, CloseStays
<1>7. ASSUME NEW k \in Files, Refused(k, "any"), UNCHANGED <<full, within>>
      PROVE ClosedStay /\ \A h \in Files : ~Left(h)
  BY <1>7, <1>s, RefusedStay DEF Refused
<1>8. ASSUME NEW k \in Files, NEW whence \in 0 .. 2, NEW offset \in {-1, 0, 1},
             Seek(k, offset, whence)
      PROVE ClosedStay /\ \A h \in Files : ~Left(h)
  <2>1. ~files[k].closed /\ within' = within
    BY <1>8 DEF Seek, Usable
  <2>2. Refuse(k, "seek") \/ \E g, d, res : Return(k, "seek", g, d, res)
    BY <1>8 DEF Seek
  <2> QED
    BY <1>0, <1>s, <2>1, <2>2, OthersStay
<1>9. ASSUME NEW s \in Pieces, Write(Writer, s) PROVE ClosedStay /\ \A h \in Files : ~Left(h)
  <2>1. ~files[Writer].closed /\ within' = within
    BY <1>9 DEF Write, Usable
  <2>2. Refuse(Writer, "write") \/ \E g, d, res : Return(Writer, "write", g, d, res)
    BY <1>9 DEF Write
  <2> QED
    BY <1>0, <1>s, <2>1, <2>2, Members, OthersStay
<1>10. ASSUME Flush(Writer) PROVE ClosedStay /\ \A h \in Files : ~Left(h)
  <2>1. ~files[Writer].closed /\ within' = within
    BY <1>10 DEF Flush, Usable
  <2>2. Refuse(Writer, "flush") \/ \E g, d, res : Return(Writer, "flush", g, d, res)
    BY <1>10 DEF Flush
  <2> QED
    BY <1>0, <1>s, <2>1, <2>2, Members, OthersStay
<1>11. ASSUME NextEach PROVE ClosedStay /\ \A h \in Files : ~Left(h)
  <2> DEFINE k == Innermost.h
             how == Innermost.how
  <2>1. /\ within # <<>> /\ Innermost.kind = "each"
        /\ (files[k].fp /\ ReadWith(k, how)) \/ Refuse(k, how)
        /\ within' = within \/ within' = Front(within)
    BY <1>11 DEF NextEach
  <2>2. k \in Files
    BY <1>0, <2>1, InnermostFacts
  <2> HIDE DEF k, how
  <2>3. ClosedStay
    BY <1>0, <2>1, <2>2, ReadWithStays, RefusedStay
  <2> QED
    BY <1>0, <2>1, <2>3, NoneLeft
<1>12. ASSUME LeaveBlock PROVE ClosedStay /\ \A h \in Files : Left(h) => files'[h].closed
  <2> DEFINE k == Innermost.h
  <2>1. within # <<>> /\ within' = Front(within)
    BY <1>12 DEF LeaveBlock
  <2>2. k \in Files /\ IsOpened(files[k])
    BY <1>0, <2>1, InnermostFacts
  <2>3. \A h \in Files : Left(h) => Innermost.kind = "open" /\ k = h
    BY <1>0, <2>1, InnermostLeft
  <2>4. CASE Innermost.kind = "open"
    <3>1. CloseStream(k)
      BY <1>12, <2>4 DEF LeaveBlock
    <3>2. ClosedStay /\ files'[k].closed
      BY <1>0, <2>2, <3>1, CloseStays
    <3> QED
      BY <2>3, <3>2
  <2>5. CASE Innermost.kind # "open"
    <3>1. files' = files /\ last'.op = "leave"
      BY <1>12, <2>5 DEF LeaveBlock, Quiet
    <3>2. "leave" \notin Reads
      BY DEF Reads, Readers
    <3>3. ClosedStay
      BY <3>1, <3>2 DEF ClosedStay
    <3> QED
      BY <2>3, <2>5, <3>3
  <2> QED
    BY <2>4, <2>5
<1>13. ASSUME Device PROVE ClosedStay /\ \A h \in Files : ~Left(h)
  <2>1. files' = files /\ last'.op = "device" /\ within' = within
    BY <1>13 DEF Device, Quiet
  <2>2. "device" \notin Reads
    BY DEF Reads, Readers
  <2>3. ClosedStay
    BY <2>1, <2>2 DEF ClosedStay
  <2> QED
    BY <1>s, <2>1, <2>3
<1> QED
  BY <1>1, <1>2, <1>3, <1>4, <1>5, <1>6, <1>7, <1>8, <1>9, <1>10, <1>11, <1>12, <1>13 DEF Next

\* The File of a block of open is closed when the block is left, whichever way; a
\* File is closed exactly when it was opened and has no FILE*; and a closed File is
\* never changed again, and refuses to read, write and seek.
THEOREM BlocksCloseCorrect == Spec => BlocksClose
<1> DEFINE A == \A h \in Files :
                  /\ files'[h].closed <=> IsOpened(files'[h]) /\ ~files'[h].fp
                  /\ files[h].closed => files'[h] = files[h]
                  /\ files[h].closed /\ last'.h = h /\ last'.op \in Readers \cup {"write", "seek", "any"} =>
                         last'.is = "raise" /\ disk' = disk
                  /\ (\E i \in DOMAIN within : within[i].kind = "open" /\ within[i].h = h)
                       /\ ~(\E i \in DOMAIN within' : within'[i].kind = "open" /\ within'[i].h = h) =>
                         files'[h].closed
<1>1. ASSUME StreamsInv, StreamsInv', Next PROVE A
  <2>1. ClosedStay /\ \A h \in Files : Left(h) => files'[h].closed
    BY <1>1, StepCloses
  <2>2. \A h \in Files : files'[h].closed <=> IsOpened(files'[h]) /\ ~files'[h].fp
    <3>1. \A h \in Files : FileHonest(files'[h])
      BY <1>1 DEF StreamsInv, Storage, FilesHonest
    <3> QED
      BY <3>1 DEF FileHonest
  <2>3. \A h \in Files : /\ files[h].closed => files'[h] = files[h]
                         /\ files[h].closed /\ last'.h = h /\ last'.op \in Readers \cup {"write", "seek", "any"} =>
                                last'.is = "raise" /\ disk' = disk
    BY <2>1, Zenon DEF ClosedStay, Reads
  <2>4. \A h \in Files :
          (\E i \in DOMAIN within : within[i].kind = "open" /\ within[i].h = h)
            /\ ~(\E i \in DOMAIN within' : within'[i].kind = "open" /\ within'[i].h = h) =>
              files'[h].closed
    BY <2>1, Zenon DEF Left, Runs
  <2> QED
    BY <2>2, <2>3, <2>4
<1>2. StreamsInv /\ StreamsInv' /\ [Next]_vars => [A]_vars
  BY <1>1
<1>3. [][A]_vars <=> BlocksClose
  BY PTL DEF BlocksClose
<1> HIDE DEF A
<1>4. Spec => [][A]_vars
  BY <1>2, StreamsInvCorrect, PTL DEF Spec
<1> QED
  BY <1>3, <1>4, PTL

-----------------------------------------------------------------------------
(***************************************************************************)
(* What readers deliver: how the buffers of a File follow the file, what   *)
(* the library does to a File that follows it, the steps, what each reader *)
(* makes of the bytes ahead, and the theorem.                              *)
(***************************************************************************)
\* What the library keeps of the file d in f: where what waits is to go, that it
\* has met the end, and the bytes that follow the position.
Follows(f, d) ==
    /\ f.pend # <<>> => f.ahead = <<>> /\ Waiting(f, d) = f.pos - Len(f.pend)
    /\ f.eof => f.ahead = <<>> /\ f.pos - Len(f.pend) >= Len(d)
    /\ \A i \in 1 .. Len(f.ahead) : f.pos + i <= Len(d) /\ f.ahead[i] = d[f.pos + i]

\* The Files that no other File has changed the file under follow it.
FilesFollow == \A h \in Files : files[h].fp /\ h \notin others => Follows(files[h], disk)

Rest(d, pos) == SubSeq(d, pos + 1, Len(d))
Within(n, s) == IF n > Len(s) THEN Len(s) ELSE n

LEMMA RestFacts ==
  ASSUME NEW d \in Seq(Chars), NEW pos \in Nat
  PROVE /\ Rest(d, pos) \in Seq(Chars)
        /\ Len(Rest(d, pos)) = IF pos < Len(d) THEN Len(d) - pos ELSE 0
        /\ \A i \in 1 .. Len(Rest(d, pos)) : Rest(d, pos)[i] = d[pos + i]
<1>1. Len(d) \in Nat
  OBVIOUS
<1>2. Rest(d, pos) \in Seq(Chars)
  BY <1>1, Cut DEF Rest
<1>3. Len(Rest(d, pos)) = IF pos < Len(d) THEN Len(d) - pos ELSE 0
  BY <1>1, SubSeqProperties DEF Rest
<1>4. \A i \in 1 .. Len(Rest(d, pos)) : Rest(d, pos)[i] = d[pos + i]
  BY <1>1, <1>3 DEF Rest
<1> QED
  BY <1>2, <1>3, <1>4

\* The beginning of what follows the position.
LEMMA RestCut ==
  ASSUME NEW d \in Seq(Chars), NEW pos \in Nat, NEW k \in 0 .. Len(Rest(d, pos))
  PROVE SubSeq(Rest(d, pos), 1, k) = SubSeq(d, pos + 1, pos + k)
<1> DEFINE r == Rest(d, pos)
<1>1. /\ r \in Seq(Chars) /\ Len(d) \in Nat /\ Len(r) \in Nat /\ k \in Nat
      /\ Len(r) = IF pos < Len(d) THEN Len(d) - pos ELSE 0
      /\ \A i \in 1 .. Len(r) : r[i] = d[pos + i]
  BY RestFacts
<1> HIDE DEF r
<1>2. k <= Len(r)
  BY <1>1 DEF r
<1>3. pos + k <= Len(d) \/ k = 0
  BY <1>1, <1>2
<1>4. Len(SubSeq(r, 1, k)) = k /\ \A i \in 1 .. k : SubSeq(r, 1, k)[i] = r[i]
  BY <1>1, <1>2
<1>5. Len(SubSeq(d, pos + 1, pos + k)) = k /\ \A i \in 1 .. k : SubSeq(d, pos + 1, pos + k)[i] = d[pos + i]
  BY <1>1, <1>3
<1>6. \A i \in 1 .. k : i \in 1 .. Len(r)
  BY <1>1, <1>2
<1>7. SubSeq(r, 1, k) \in Seq(Chars)
  <2>1. \A i \in 1 .. Len(r) : r[i] \in Chars
    BY <1>1, ElementOfSeq
  <2> QED
    BY <1>1, <1>2, <1>6, <2>1, SubSeqProperties
<1>8. SubSeq(d, pos + 1, pos + k) \in Seq(Chars)
  <2>1. \A i \in pos + 1 .. pos + k : d[i] \in Chars
    BY <1>1, <1>3
  <2> QED
    BY <1>1, <2>1, SubSeqProperties
<1> QED
  BY <1>1, <1>4, <1>5, <1>6, <1>7, <1>8, SeqEqual DEF r

\* Everything in the file after the position can be read, and nothing else.
LEMMA AheadIsRest ==
  ASSUME NEW d \in Seq(Chars), NEW f \in FileType, f.pend = <<>>, Follows(f, d)
  PROVE Ahead(f, d) = Rest(d, f.pos)
<1> DEFINE r == Rest(d, f.pos)
           a == Len(f.ahead)
           more == IF f.eof THEN <<>> ELSE SubSeq(d, f.pos + a + 1, Len(d))
<1>1. /\ f.pos \in Nat /\ f.ahead \in Seq(Chars) /\ a \in Nat /\ Len(d) \in Nat
      /\ \A i \in 1 .. a : f.pos + i <= Len(d) /\ f.ahead[i] = d[f.pos + i]
  BY DEF FileType, Follows
<1>2. /\ r \in Seq(Chars) /\ Len(r) = IF f.pos < Len(d) THEN Len(d) - f.pos ELSE 0
      /\ \A i \in 1 .. Len(r) : r[i] = d[f.pos + i]
  BY <1>1, RestFacts
<1>3. a <= Len(r)
  <2>1. a = 0 \/ f.pos + a <= Len(d)
    BY <1>1
  <2> QED
    BY <1>1, <1>2, <2>1
<1>4. f.eof => a = 0 /\ Len(r) = 0
  <2>1. f.eof => f.ahead = <<>> /\ f.pos - Len(f.pend) >= Len(d) /\ Len(f.pend) = 0
    BY DEF Follows
  <2> QED
    BY <1>1, <1>2, <2>1
<1>5. /\ more \in Seq(Chars) /\ Len(more) = Len(r) - a
      /\ \A i \in 1 .. Len(more) : more[i] = d[f.pos + a + i]
  <2>1. CASE f.eof
    <3>1. more = <<>>
      BY <2>1
    <3> QED
      BY <1>4, <2>1, <3>1
  <2>2. CASE ~f.eof
    <3> HIDE DEF a, r
    <3>1. PICK p \in Nat : p = f.pos + a
      BY <1>1
    <3>2. more = Rest(d, p)
      BY <2>2, <3>1 DEF Rest
    <3> HIDE DEF more
    <3>3. /\ more \in Seq(Chars)
          /\ Len(more) = IF p < Len(d) THEN Len(d) - p ELSE 0
          /\ \A i \in 1 .. Len(more) : more[i] = d[p + i]
      BY <3>2, RestFacts
    <3>4. Len(more) = Len(r) - a
      BY <1>1, <1>2, <1>3, <3>1, <3>3
    <3>5. \A i \in 1 .. Len(more) : more[i] = d[f.pos + a + i]
      BY <3>1, <3>3
    <3> QED
      BY <3>3, <3>4, <3>5
  <2> QED
    BY <2>1, <2>2
<1>6. Ahead(f, d) = f.ahead \o more
  BY DEF Ahead
<1> HIDE DEF more, r, a
<1>7. f.ahead \o more = r
  <2>1. /\ f.ahead \o more \in Seq(Chars) /\ Len(f.ahead \o more) = a + Len(more)
        /\ \A i \in 1 .. a + Len(more) :
             (f.ahead \o more)[i] = IF i <= a THEN f.ahead[i] ELSE more[i - a]
    BY <1>1, <1>5, ConcatProperties DEF a
  <2>2. a + Len(more) = Len(r) /\ Len(r) \in Nat /\ Len(more) \in Nat
    BY <1>1, <1>2, <1>5
  <2>3. \A i \in 1 .. Len(r) : (f.ahead \o more)[i] = r[i]
    <3>1. ASSUME NEW i \in 1 .. Len(r) PROVE (f.ahead \o more)[i] = r[i]
      <4>1. CASE i <= a
        BY <1>1, <1>2, <2>1, <2>2, <4>1
      <4>2. CASE ~(i <= a)
        <5>1. i - a \in 1 .. Len(more) /\ f.pos + a + (i - a) = f.pos + i
          BY <1>1, <2>2, <4>2
        <5>2. more[i - a] = d[f.pos + i]
          BY <1>5, <5>1
        <5> QED
          BY <1>2, <2>1, <2>2, <4>2, <5>2
      <4> QED
        BY <4>1, <4>2
    <3> QED
      BY <3>1
  <2> QED
    BY <1>2, <2>1, <2>2, <2>3, SeqEqual
<1> QED
  BY <1>6, <1>7 DEF r

\* Reading n bytes moves the position by as many as there are.
LEMMA TookFollows ==
  ASSUME NEW d \in Seq(Chars), NEW f \in FileType, f.pend = <<>>, Follows(f, d), NEW n \in Nat
  PROVE /\ Follows(Took(f, d, n), d)
        /\ Took(f, d, n).pos = f.pos + Within(n, Rest(d, f.pos))
<1> DEFINE r == Rest(d, f.pos)
           k == Within(n, r)
           a == Len(f.ahead)
           ahead1 == SubSeq(IF k > a THEN r ELSE f.ahead, k + 1, IF k > a THEN Len(r) ELSE a)
           eof1 == f.eof \/ n > Len(r)
           g == Took(f, d, n)
<1>1. /\ f.pos \in Nat /\ f.ahead \in Seq(Chars) /\ a \in Nat /\ Len(d) \in Nat
      /\ \A i \in 1 .. a : f.pos + i <= Len(d) /\ f.ahead[i] = d[f.pos + i]
      /\ f.eof \in BOOLEAN
  BY DEF FileType, Follows
<1>2. /\ r \in Seq(Chars) /\ Len(r) = IF f.pos < Len(d) THEN Len(d) - f.pos ELSE 0
      /\ \A i \in 1 .. Len(r) : r[i] = d[f.pos + i]
  BY <1>1, RestFacts
<1>3. Ahead(f, d) = r
  BY AheadIsRest
<1>4. g = [f EXCEPT !.pos = f.pos + k, !.ahead = ahead1, !.eof = eof1]
  BY <1>3 DEF Took, Within
<1>5. k \in Nat /\ Len(r) \in Nat /\ k <= Len(r)
  BY <1>2 DEF Within
<1> HIDE DEF ahead1, k, r, a, eof1, g
<1>6. g.pos = f.pos + k /\ g.ahead = ahead1 /\ (g.eof <=> eof1) /\ g.pend = <<>>
  BY <1>4 DEF FileType
<1>7. /\ Len(ahead1) = IF k > a THEN Len(r) - k ELSE a - k
      /\ \A i \in 1 .. Len(ahead1) : ahead1[i] = IF k > a THEN r[k + i] ELSE f.ahead[k + i]
  <2>1. CASE k > a
    BY <1>2, <1>5, <2>1 DEF ahead1
  <2>2. CASE ~(k > a)
    <3>1. ahead1 = SubSeq(f.ahead, k + 1, a) /\ a = Len(f.ahead)
      BY <2>2 DEF ahead1, a
    <3>2. ahead1 = Rest(f.ahead, k)
      BY <3>1 DEF Rest
    <3>3. /\ Len(ahead1) = IF k < a THEN a - k ELSE 0
          /\ \A i \in 1 .. Len(ahead1) : ahead1[i] = f.ahead[k + i]
      BY <1>1, <1>5, <3>1, <3>2, RestFacts
    <3> QED
      BY <1>1, <1>5, <2>2, <3>3
  <2> QED
    BY <2>1, <2>2
<1>8. \A i \in 1 .. Len(ahead1) : f.pos + k + i <= Len(d) /\ ahead1[i] = d[f.pos + k + i]
  <2>1. ASSUME NEW i \in 1 .. Len(ahead1)
        PROVE  f.pos + k + i <= Len(d) /\ ahead1[i] = d[f.pos + k + i]
    <3>1. f.pos + k + i = f.pos + (k + i) /\ i \in Nat
      BY <1>1, <1>5
    <3>2. CASE k > a
      <4>1. k + i \in 1 .. Len(r)
        <5>1. Len(ahead1) = Len(r) - k
          BY <1>7, <3>2
        <5> QED
          BY <1>5, <5>1
      <4>2. ahead1[i] = d[f.pos + (k + i)]
        BY <1>2, <1>7, <3>2, <4>1
      <4>3. f.pos + (k + i) <= Len(d)
        BY <1>1, <1>2, <4>1
      <4> QED
        BY <3>1, <4>2, <4>3
    <3>3. CASE ~(k > a)
      <4>1. k + i \in 1 .. a
        <5>1. Len(ahead1) = a - k
          BY <1>7, <3>3
        <5> QED
          BY <1>1, <1>5, <5>1
      <4>2. ahead1[i] = d[f.pos + (k + i)] /\ f.pos + (k + i) <= Len(d)
        BY <1>1, <1>7, <3>3, <4>1
      <4> QED
        BY <3>1, <4>2
    <3> QED
      BY <3>2, <3>3
  <2> QED
    BY <2>1
<1>9. eof1 => ahead1 = <<>> /\ f.pos + k >= Len(d)
  <2>1. f.eof => a = 0 /\ f.pos >= Len(d)
    <3>1. f.eof => f.ahead = <<>> /\ f.pos - Len(f.pend) >= Len(d) /\ Len(f.pend) = 0
      BY DEF Follows
    <3> QED
      BY <1>1, <3>1 DEF a
  <2>2. n > Len(r) => k = Len(r)
    BY DEF k, Within
  <2>3. a <= Len(r)
    <3>1. a = 0 \/ f.pos + a <= Len(d)
      BY <1>1
    <3> QED
      BY <1>1, <1>2, <3>1
  <2>4. eof1 => Len(ahead1) = 0 /\ f.pos + k >= Len(d)
    BY <1>1, <1>2, <1>5, <1>7, <2>1, <2>2, <2>3 DEF eof1
  <2>5. PICK T : ahead1 \in Seq(T)
    <3>1. g \in FileType
      BY TookFacts DEF SameButFlushed, g
    <3> QED
      BY <1>6, <3>1 DEF FileType
  <2> QED
    BY <2>4, <2>5, EmptySeq
<1>10. g.pos - Len(g.pend) = f.pos + k
  <2>1. Len(g.pend) = 0
    BY <1>6
  <2> QED
    BY <1>1, <1>5, <1>6, <2>1
<1>11. Follows(g, d)
  <2>1. g.eof => g.ahead = <<>> /\ g.pos - Len(g.pend) >= Len(d)
    BY <1>6, <1>9, <1>10
  <2>2. \A i \in 1 .. Len(g.ahead) : g.pos + i <= Len(d) /\ g.ahead[i] = d[g.pos + i]
    BY <1>6, <1>8
  <2> QED
    BY <1>6, <2>1, <2>2 DEF Follows
<1> QED
  BY <1>6, <1>11 DEF g, k, r

\* What waits is stored where it was to go, and the position stays; when the device
\* is full, the position is where it was to go.
LEMMA StoredFollows ==
  ASSUME NEW f \in FileType, FileHonest(f), NEW d \in Seq(Chars), Follows(f, d)
  PROVE LET st == Stored(f, d)
        IN  Follows(st.f, st.d) /\ (st.ok => st.f.pos = f.pos)
<1> DEFINE w == Waiting(f, d)
<1>1. /\ w \in Nat /\ f.pend \in Seq(Chars) /\ Len(f.pend) \in Nat /\ f.pos \in Nat
      /\ Len(d) \in Nat
  BY WaitingType DEF FileType
<1>2. CASE f.pend = <<>>
  <2>1. Stored(f, d) = [ok |-> TRUE, f |-> f, d |-> d]
    BY <1>2 DEF Stored
  <2> QED
    BY <2>1
<1>3. CASE f.pend # <<>>
  <2>1. f.ahead = <<>> /\ w = f.pos - Len(f.pend) /\ (f.eof => w >= Len(d))
    BY <1>3 DEF Follows
  <2>2. CASE full
    <3> DEFINE g == [f EXCEPT !.pend = <<>>, !.pos = w]
    <3>1. Stored(f, d) = [ok |-> FALSE, f |-> g, d |-> d]
      BY <1>3, <2>2 DEF Stored
    <3>2. g.pend = <<>> /\ g.ahead = <<>> /\ g.pos = w /\ (g.eof <=> f.eof)
      BY <2>1 DEF FileType
    <3> HIDE DEF g, w
    <3>3. g.pos - Len(g.pend) = w
      BY <1>1, <3>2
    <3>4. Follows(g, d)
      BY <2>1, <3>2, <3>3 DEF Follows
    <3> QED
      BY <3>1, <3>4
  <2>3. CASE ~full
    <3> DEFINE end == w + Len(f.pend)
               g == [f EXCEPT !.pend = <<>>, !.pos = end]
               d1 == Placed(d, w, f.pend)
    <3>1. Stored(f, d) = [ok |-> TRUE, f |-> g, d |-> d1]
      BY <1>3, <2>3 DEF Stored
    <3>2. g.pend = <<>> /\ g.ahead = <<>> /\ g.pos = end /\ (g.eof <=> f.eof)
      BY <2>1 DEF FileType
    <3>3. Len(d1) = IF Len(d) > end THEN Len(d) ELSE end
      <4>1. w \in Int
        BY <1>1
      <4> QED
        BY <1>1, <4>1, PlacedFacts
    <3>4. end = f.pos /\ end \in Nat /\ end >= w
      BY <1>1, <2>1
    <3> HIDE DEF g, w, d1, end
    <3>5. g.pos - Len(g.pend) = end
      BY <3>2, <3>4
    <3>6. f.eof => end >= Len(d1)
      BY <1>1, <2>1, <3>3, <3>4
    <3>7. Follows(g, d1)
      BY <3>2, <3>5, <3>6 DEF Follows
    <3> QED
      BY <3>1, <3>2, <3>4, <3>7
  <2> QED
    BY <2>2, <2>3
<1> QED
  BY <1>2, <1>3

\* A File that has read nothing ahead, and has not met the end, follows any file.
LEMMA FreshFollows ==
  ASSUME NEW f, NEW d, f.pend = <<>>, f.ahead = <<>>, ~f.eof
  PROVE Follows(f, d)
BY DEF Follows

LEMMA SoughtFollows ==
  ASSUME NEW f \in FileType, f.pend = <<>>, NEW pos, NEW d
  PROVE Follows(Sought(f, pos), d)
<1>1. /\ Sought(f, pos).pend = <<>> /\ Sought(f, pos).ahead = <<>> /\ ~Sought(f, pos).eof
  BY DEF Sought, FileType
<1> QED
  BY <1>1, FreshFollows

\* The end-of-file mark may be taken away.
LEMMA UnmarkedFollows ==
  ASSUME NEW f \in FileType, NEW d, Follows(f, d)
  PROVE Follows([f EXCEPT !.eof = FALSE], d)
<1> DEFINE g == [f EXCEPT !.eof = FALSE]
<1>1. g.pend = f.pend /\ g.ahead = f.ahead /\ g.pos = f.pos /\ g.mode = f.mode /\ ~g.eof
  BY DEF FileType
<1> HIDE DEF g
<1>2. Waiting(g, d) = Waiting(f, d)
  BY <1>1 DEF Waiting
<1>3. Follows(g, d)
  BY <1>1, <1>2 DEF Follows
<1> QED
  BY <1>3 DEF g

\* What write accepts waits behind what waits already.
LEMMA AcceptedFollows ==
  ASSUME Storage, NEW s \in Seq(Chars), s # <<>>, IsOpened(files[Writer]), files[Writer].fp,
         Follows(files[Writer], disk)
  PROVE Follows(Accepted(files[Writer], s), disk)
<1> DEFINE f == files[Writer]
           g == Accepted(f, s)
           w == Waiting(f, disk)
           pos1 == w + Len(f.pend) + Len(s)
           pend1 == f.pend \o s
<1>1. f \in FileType /\ FileHonest(f) /\ disk \in Seq(Chars)
  BY FileAt, Members DEF Storage
<1>2. /\ w \in Nat /\ f.pend \in Seq(Chars) /\ f.pos \in Nat
      /\ Len(f.pend) \in Nat /\ Len(s) \in Nat /\ Len(disk) \in Nat
  <2>1. w \in Nat
    BY <1>1, WaitingType
  <2>2. f.pend \in Seq(Chars) /\ f.pos \in Nat
    BY <1>1 DEF FileType
  <2> HIDE DEF f, w
  <2> QED
    BY <1>1, <2>1, <2>2
<1>3. Len(pend1) = Len(f.pend) + Len(s)
  BY <1>2, ConcatProperties
<1>4. g = [f EXCEPT !.ahead = <<>>, !.pend = pend1, !.pos = pos1]
  BY DEF Accepted
<1>5. f.eof => w >= Len(disk)
  <2>1. f.eof => f.pos - Len(f.pend) >= Len(disk)
    BY DEF Follows
  <2>2. CASE IsAppend(f.mode)
    BY <1>2, <2>2 DEF Waiting
  <2>3. CASE ~IsAppend(f.mode)
    BY <2>1, <2>3 DEF Waiting
  <2> QED
    BY <2>2, <2>3
<1> HIDE DEF f, g, w, pend1, pos1
<1>6. g.ahead = <<>> /\ g.mode = f.mode /\ g.pend = pend1 /\ g.pos = pos1
  BY <1>1, <1>4 DEF FileType
<1>7. g.eof <=> f.eof
  BY <1>1, <1>4, Zenon DEF FileType
<1>8. g.pos - Len(g.pend) = w
  <2>1. pos1 = w + Len(f.pend) + Len(s)
    BY DEF pos1
  <2>2. \A a, b, c \in Nat : (a + b + c) - (b + c) = a
    OBVIOUS
  <2>3. (w + Len(f.pend) + Len(s)) - (Len(f.pend) + Len(s)) = w
    BY <1>2, <2>2
  <2> QED
    BY <1>3, <1>6, <2>1, <2>3
<1>9. Waiting(g, disk) = g.pos - Len(g.pend)
  <2>1. CASE IsAppend(f.mode)
    <3>1. w = Len(disk) /\ Waiting(g, disk) = Len(disk)
      BY <1>6, <2>1 DEF Waiting, w
    <3> QED
      BY <1>8, <3>1
  <2>2. CASE ~IsAppend(f.mode)
    BY <1>6, <2>2 DEF Waiting
  <2> QED
    BY <2>1, <2>2
<1>10. g.eof => g.pos - Len(g.pend) >= Len(disk)
  BY <1>5, <1>7, <1>8
<1>11. Follows(g, disk)
  BY <1>6, <1>9, <1>10 DEF Follows
<1> QED
  BY <1>11 DEF f, g

\* A call that leaves its File at g and the file at d: the other Files follow the
\* file if it has not changed.
LEMMA FollowsKept ==
  ASSUME Storage, FilesFollow, NEW h \in Files, NEW op, NEW g, NEW d, NEW res,
         Return(h, op, g, d, res), h \notin others /\ g.fp => Follows(g, d)
  PROVE FilesFollow'
<1>1. /\ files' = [files EXCEPT ![h] = g] /\ disk' = d
      /\ others' = IF d = disk THEN others ELSE others \cup {k \in Files \ {h} : IsOpened(files[k])}
  BY DEF Return
<1>2. \A k \in Files : files'[k] = IF k = h THEN g ELSE files[k]
  BY <1>1 DEF Storage
<1>3. ASSUME NEW k \in Files, files'[k].fp, k \notin others' PROVE Follows(files'[k], d)
  <2>1. k \notin others
    BY <1>1, <1>3
  <2>2. CASE k = h
    BY <1>2, <1>3, <2>1, <2>2
  <2>3. CASE k # h
    <3>1. files'[k] = files[k] /\ files[k].fp
      BY <1>2, <1>3, <2>3
    <3>2. IsOpened(files[k])
      <4>1. FileHonest(files[k])
        BY FileAt
      <4>2. ~NoFile.fp
        BY NoFileFacts
      <4> QED
        BY <3>1, <4>1, <4>2 DEF FileHonest
    <3>3. d = disk
      BY <1>1, <1>3, <2>3, <3>2
    <3> QED
      BY <2>1, <3>1, <3>3 DEF FilesFollow
  <2> QED
    BY <2>2, <2>3
<1> QED
  BY <1>1, <1>3 DEF FilesFollow, Follows, Waiting

\* A call that stores what waits, and leaves its File where Follows holds of what
\* storing leaves.
LEMMA StoredKept ==
  ASSUME Storage, FilesFollow, NEW h \in Files, files[h].fp, NEW op, NEW g, NEW res,
         Return(h, op, g, Stored(files[h], disk).d, res),
         SameButFlushed(files[h], Stored(files[h], disk).f)
           /\ Follows(Stored(files[h], disk).f, Stored(files[h], disk).d)
           => Follows(g, Stored(files[h], disk).d)
  PROVE FilesFollow'
<1> DEFINE f == files[h]
           st == Stored(f, disk)
<1>1. f \in FileType /\ FileHonest(f) /\ disk \in Seq(Chars)
  BY FileAt DEF Storage
<1>2. SameButFlushed(f, st.f)
  BY <1>1, StoredFacts
<1>3. ASSUME h \notin others PROVE Follows(g, st.d)
  <2>1. Follows(f, disk)
    BY <1>3 DEF FilesFollow
  <2>2. Follows(st.f, st.d)
    BY <1>1, <2>1, StoredFollows
  <2> QED
    BY <1>2, <2>2
<1> QED
  BY <1>3, FollowsKept

LEMMA ReadWithFollows ==
  ASSUME Storage, FilesFollow, NEW h \in Files, files[h].fp, NEW op \in Readers \cup {"eof"},
         ReadWith(h, op)
  PROVE FilesFollow'
<1> DEFINE f == files[h]
           st == Stored(f, disk)
           got == Reading(f.mode, Ahead(st.f, st.d), op)
<1>1. SameButFlushed(f, st.f) /\ st.d \in Seq(Chars)
  BY FileAt, StoredFacts DEF Storage
<1>2. st.f \in FileType /\ st.f.pend = <<>>
  BY <1>1 DEF SameButFlushed
<1>3. got.n \in Nat
  <2>1. Ahead(st.f, st.d) \in Seq(Chars)
    BY <1>1, <1>2, AheadType
  <2> QED
    BY <2>1, ReadingAmount
<1>4. CASE ~st.ok
  <2> DEFINE g == [st.f EXCEPT !.eof = FALSE]
  <2>1. Return(h, op, g, st.d, Answer("raise"))
    BY <1>4 DEF ReadWith
  <2>2. Follows(st.f, st.d) => Follows(g, st.d)
    BY <1>2, UnmarkedFollows
  <2> HIDE DEF g
  <2> QED
    BY <2>1, <2>2, StoredKept
<1>5. CASE st.ok
  <2> DEFINE g == Took(st.f, st.d, got.n)
  <2>1. Return(h, op, g, st.d, got.res)
    BY <1>5 DEF ReadWith
  <2>2. Follows(st.f, st.d) => Follows(g, st.d)
    BY <1>1, <1>2, <1>3, TookFollows
  <2> HIDE DEF g, got
  <2> QED
    BY <2>1, <2>2, StoredKept
<1> QED
  BY <1>4, <1>5

LEMMA SeekFollows ==
  ASSUME Storage, FilesFollow, NEW h \in Files, NEW offset, NEW whence, Seek(h, offset, whence),
         files[h].fp
  PROVE FilesFollow'
<1> DEFINE f == files[h]
           st == Stored(f, disk)
           to == offset + CASE whence = 0 -> 0 [] whence = 1 -> st.f.pos [] whence = 2 -> Len(st.d)
           g1 == [st.f EXCEPT !.eof = FALSE]
           g2 == Sought(st.f, to)
<1>1. SameButFlushed(f, st.f)
  BY FileAt, StoredFacts DEF Storage
<1>2. st.f \in FileType /\ st.f.pend = <<>>
  BY <1>1 DEF SameButFlushed
<1>3. /\ Follows(st.f, st.d) => Follows(g1, st.d)
      /\ Follows(g2, st.d)
  BY <1>2, UnmarkedFollows, SoughtFollows
<1>4. PICK g, res : Return(h, "seek", g, st.d, res) /\ g \in {g1, g2}
  BY DEF Seek
<1> HIDE DEF g1, g2
<1> QED
  BY <1>3, <1>4, StoredKept

LEMMA RewindFollows ==
  ASSUME Storage, FilesFollow, NEW h \in Files, Rewind(h), files[h].fp
  PROVE FilesFollow'
<1> DEFINE st == Stored(files[h], disk)
           g == Sought(st.f, 0)
<1>1. SameButFlushed(files[h], st.f)
  BY FileAt, StoredFacts DEF Storage
<1>2. Follows(g, st.d)
  BY <1>1, SoughtFollows DEF SameButFlushed
<1>3. Return(h, "rewind", g, st.d, Answer("ok"))
  BY DEF Rewind
<1> HIDE DEF g
<1> QED
  BY <1>2, <1>3, StoredKept

LEMMA FlushFollows ==
  ASSUME Storage, FilesFollow, NEW h \in Files, Flush(h), files[h].fp
  PROVE FilesFollow'
<1>1. Return(h, "flush", Stored(files[h], disk).f, Stored(files[h], disk).d, Answer("ok"))
  BY DEF Flush
<1> QED
  BY <1>1, StoredKept

\* Nothing is asked of a File that is closed.
LEMMA CloseFollows ==
  ASSUME Storage, FilesFollow, NEW h \in Files, CloseStream(h)
  PROVE FilesFollow'
<1>1. PICK g, d, res : /\ Return(h, "close", g, d, res)
                       /\ g = Shut(files[h]) \/ (g = files[h] /\ ~files[h].fp)
  <2>1. CASE ~files[h].fp
    <3>1. Return(h, "close", files[h], disk, Answer("nil"))
      BY <2>1 DEF CloseStream
    <3> QED
      BY <2>1, <3>1
  <2>2. CASE files[h].fp
    <3>1. \E res : Return(h, "close", Shut(files[h]), Stored(files[h], disk).d, res)
      BY <2>2 DEF CloseStream
    <3> QED
      BY <3>1
  <2> QED
    BY <2>1, <2>2
<1>2. ~g.fp
  <2>1. ~Shut(files[h]).fp
    BY FileAt DEF Shut, NoFile
  <2> QED
    BY <1>1, <2>1
<1> QED
  BY <1>1, <1>2, FollowsKept

LEMMA WriteFollows ==
  ASSUME Storage, FilesFollow, NEW s \in Pieces, Write(Writer, s), files[Writer].fp,
         AllowsWrite(files[Writer].mode)
  PROVE FilesFollow'
<1> DEFINE f == files[Writer]
           g == Accepted(f, s)
           st == Stored(g, disk)
<1>1. s \in Seq(Chars) /\ s # <<>> /\ IsOpened(f) /\ disk \in Seq(Chars)
  BY BytesAssumption DEF Write, Usable, Callable, Storage
<1>2. g \in FileType /\ FileHonest(g)
  BY <1>1, AcceptedFacts
<1>3. ASSUME Writer \notin others PROVE Follows(g, disk) /\ Follows(st.f, st.d)
  <2>1. Follows(f, disk)
    BY <1>3, Members DEF FilesFollow
  <2>2. Follows(g, disk)
    BY <1>1, <2>1, AcceptedFollows
  <2> QED
    BY <1>1, <1>2, <2>2, StoredFollows
<1>4. PICK g1, d1, res : /\ Return(Writer, "write", g1, d1, res)
                         /\ (g1 = g /\ d1 = disk) \/ (g1 = st.f /\ d1 = st.d)
  BY DEF Write
<1> HIDE DEF g, st
<1> QED
  BY <1>3, <1>4, Members, FollowsKept

LEMMA OpenFollows ==
  ASSUME Storage, FilesFollow, NEW h \in Files, NEW mode \in (IF h = Writer THEN Modes ELSE {"r"}),
         NEW block \in BOOLEAN, Open(h, mode, block)
  PROVE FilesFollow'
<1> DEFINE d == IF mode \in {"w", "w+"} THEN <<>> ELSE disk
           f == [NoFile EXCEPT !.mode = mode, !.fp = TRUE,
                               !.pos = IF IsAppend(mode) THEN Len(disk) ELSE 0]
<1>1. Return(h, "open", f, d, Answer("ok"))
  BY DEF Open
<1>2. f.pend = <<>> /\ f.ahead = <<>> /\ ~f.eof
  BY DEF NoFile
<1> HIDE DEF f, d
<1>3. Follows(f, d)
  BY <1>2, FreshFollows
<1> QED
  BY <1>1, <1>3, FollowsKept

LEMMA QuietFollows ==
  ASSUME FilesFollow, UNCHANGED <<disk, files, others>> PROVE FilesFollow'
BY DEF FilesFollow, Follows, Waiting

LEMMA RefuseFollows ==
  ASSUME FilesFollow, NEW h, NEW op, Refuse(h, op) PROVE FilesFollow'
BY QuietFollows DEF Refuse

LEMMA StepFollows ==
  ASSUME StreamsInv, FilesFollow, Next PROVE FilesFollow'
<1>0. Storage /\ Blocks
  BY DEF StreamsInv
<1>1. \A k \in Files : Callable(k) /\ ~files[k].closed => files[k].fp
  BY <1>0, FileAt DEF Callable, FileHonest
<1>2. ASSUME NEW h \in Files, NEW mode \in (IF h = Writer THEN Modes ELSE {"r"}),
             NEW block \in BOOLEAN, Open(h, mode, block)
      PROVE FilesFollow'
  BY <1>0, <1>2, OpenFollows
<1>3. ASSUME NEW h \in Files, NEW op \in Readers, Read(h, op) PROVE FilesFollow'
  BY <1>0, <1>3, ReadWithFollows, RefuseFollows DEF Read
<1>4. ASSUME NEW h \in Files, NEW how \in Each, StartEach(h, how) PROVE FilesFollow'
  BY <1>0, <1>4, EachReads, ReadWithFollows, RefuseFollows DEF StartEach
<1>5. ASSUME NEW h \in Files, Eof(h) PROVE FilesFollow'
  BY <1>0, <1>5, ReadWithFollows, RefuseFollows DEF Eof
<1>6. ASSUME NEW h \in Files, Rewind(h) PROVE FilesFollow'
  BY <1>0, <1>6, <1>1, RewindFollows DEF Rewind, Usable
<1>7. ASSUME NEW h \in Files, Close(h) PROVE FilesFollow'
  BY <1>0, <1>7, CloseFollows DEF Close
<1>8. ASSUME NEW h \in Files, Refused(h, "any") PROVE FilesFollow'
  BY <1>8, RefuseFollows DEF Refused
<1>9. ASSUME NEW h \in Files, NEW whence \in 0 .. 2, NEW offset \in {-1, 0, 1},
             Seek(h, offset, whence)
      PROVE FilesFollow'
  BY <1>0, <1>9, <1>1, SeekFollows DEF Seek, Usable
<1>10. ASSUME NEW s \in Pieces, Write(Writer, s) PROVE FilesFollow'
  BY <1>0, <1>10, <1>1, Members, WriteFollows, RefuseFollows DEF Write, Usable
<1>11. CASE Flush(Writer)
  BY <1>0, <1>11, <1>1, Members, FlushFollows DEF Flush, Usable
<1>12. CASE NextEach
  <2> DEFINE h == Innermost.h
             how == Innermost.how
  <2>1. within # <<>> /\ Innermost.kind = "each"
    BY <1>12 DEF NextEach
  <2>2. h \in Files /\ how \in Readers \cup {"eof"}
    BY <1>0, <2>1, InnermostFacts, EachReads
  <2>3. (files[h].fp /\ ReadWith(h, how)) \/ Refuse(h, how)
    BY <1>12 DEF NextEach
  <2> HIDE DEF h, how
  <2> QED
    BY <1>0, <2>2, <2>3, ReadWithFollows, RefuseFollows
<1>13. CASE LeaveBlock
  <2>1. within # <<>> /\ (CloseStream(Innermost.h) \/ UNCHANGED <<disk, files, others>>)
    BY <1>13 DEF LeaveBlock
  <2>2. Innermost.h \in Files
    BY <1>0, <2>1, InnermostFacts
  <2> QED
    BY <1>0, <2>1, <2>2, CloseFollows, QuietFollows
<1>14. CASE Device
  BY <1>14, QuietFollows DEF Device
<1> QED
  BY <1>2, <1>3, <1>4, <1>5, <1>6, <1>7, <1>8, <1>9, <1>10, <1>11, <1>12, <1>13, <1>14 DEF Next

LEMMA FilesFollowCorrect == Spec => []FilesFollow
<1>1. Init => FilesFollow
  <2>1. ~NoFile.fp
    BY NoFileFacts
  <2> QED
    BY <2>1 DEF Init, FilesFollow
<1>2. StreamsInv /\ FilesFollow /\ [Next]_vars => FilesFollow'
  BY StepFollows, QuietFollows DEF vars
<1> QED
  BY <1>1, <1>2, StreamsInvCorrect, PTL DEF Spec

-----------------------------------------------------------------------------
(***************************************************************************)
(* What each reader makes of the bytes ahead                               *)
(***************************************************************************)
First(s, n) == SubSeq(s, 1, Within(n, s))

\* A reader that returns what it takes, and raises only when it has taken something
\* that is no text.
Honest(mode, s, r) ==
    /\ r.n \in Nat
    /\ r.res.is \in {"str", "nil", "eof", "raise"}
    /\ r.res.is = "str" => r.res.s = First(s, r.n)
    /\ r.res.is = "raise" => Within(r.n, s) > 0 /\ ~IsBinary(mode)

IsText(mode, r) == r.res.is = "str" => IsBinary(mode) \/ Valid(r.res.s)
TakesAll(s, r) == r.res.is = "str" => Within(r.n, s) = Len(s)
EmptyAtEnd(s, r) == r.res.is \in {"nil", "eof"} => s = <<>>
OneLine(s, r) ==
    r.res.is = "str" =>
        /\ \A i \in 1 .. Len(r.res.s) - 1 : r.res.s[i] # NL
        /\ r.res.s[Len(r.res.s)] = NL \/ Within(r.n, s) = Len(s)
NoParagraph(s, r) == r.res.is = "nil" => ToSet(First(s, r.n)) \subseteq {NL}

LEMMA WithinFacts ==
  ASSUME NEW s \in Seq(Chars), NEW n \in Nat
  PROVE /\ Within(n, s) \in 0 .. Len(s) /\ Len(s) \in Nat
        /\ n > Len(s) => Within(n, s) = Len(s) /\ First(s, n) = s
        /\ ~(n > Len(s)) => Within(n, s) = n /\ First(s, n) = SubSeq(s, 1, n)
        /\ First(s, n) \in Seq(Chars) /\ Len(First(s, n)) = Within(n, s)
        /\ \A i \in 1 .. Within(n, s) : First(s, n)[i] = s[i]
<1> DEFINE k == Within(n, s)
<1>1. k \in 0 .. Len(s) /\ Len(s) \in Nat /\ k \in Nat
  BY DEF Within
<1>2. n > Len(s) => k = Len(s)
  BY DEF Within
<1>3. ~(n > Len(s)) => k = n
  BY DEF Within
<1> HIDE DEF k
<1>4. \A i \in 1 .. k : i \in 1 .. Len(s) /\ s[i] \in Chars
  <2>1. \A i \in 1 .. k : i \in 1 .. Len(s)
    BY <1>1
  <2> QED
    BY <2>1, ElementOfSeq
<1>5. /\ SubSeq(s, 1, k) \in Seq(Chars) /\ Len(SubSeq(s, 1, k)) = k
      /\ \A i \in 1 .. k : SubSeq(s, 1, k)[i] = s[i]
  <2>1. SubSeq(s, 1, k) \in Seq(Chars)
    BY <1>1, <1>4, SubSeqProperties
  <2> QED
    BY <1>1, <2>1
<1>6. k = Len(s) => SubSeq(s, 1, k) = s
  BY <1>1, <1>5, SeqEqual
<1>7. First(s, n) = SubSeq(s, 1, k)
  BY DEF First, k
<1> QED
  BY <1>1, <1>2, <1>3, <1>5, <1>6, <1>7 DEF k

LEMMA CheckedFacts ==
  ASSUME NEW mode, NEW s
  PROVE LET c == Checked(mode, s)
        IN  /\ c.is = "str" \/ c.is = "raise"
            /\ c.is = "str" => c.s = s /\ (IsBinary(mode) \/ Valid(s))
            /\ c.is = "raise" => ~IsBinary(mode) /\ ~Valid(s)
BY DEF Checked, Text, Answer

LEMMA ValidEmpty ==
  ASSUME NEW s \in Seq(Chars), Len(s) = 0 PROVE Valid(s)
<1>1. DOMAIN s = {}
  BY LenProperties
<1> QED
  BY <1>1 DEF Valid

LEMMA GetsDelivers ==
  ASSUME NEW mode, NEW s \in Seq(Chars), NEW how \in {"line", "all", "limit", "para"}, NEW limit
  PROVE LET r == Gets(mode, s, how, limit)
        IN  /\ r = [n |-> r.n, res |-> r.res]
            /\ Honest(mode, s, r) /\ r.res.is # "eof" /\ IsText(mode, r)
            /\ how = "line" => OneLine(s, r)
            /\ how = "all" => TakesAll(s, r)
            /\ how # "para" => EmptyAtEnd(s, r)
            /\ how = "para" => NoParagraph(s, r)
<1> DEFINE stops == {k \in DOMAIN s : \/ how # "all" /\ how # "para" /\ s[k] = NL
                                      \/ how = "limit" /\ k >= limit
                                      \/ how = "para" /\ k >= 2 /\ s[k] = NL /\ s[k - 1] = NL}
           n == IF stops = {} THEN Len(s) + 1 ELSE Least(stops)
           line == IF stops = {} THEN s ELSE SubSeq(s, 1, n)
           none == line = <<>> \/ (how = "para" /\ ToSet(line) = {NL})
           res == IF none THEN Answer("nil") ELSE Checked(mode, line)
           r == Gets(mode, s, how, limit)
           k == Within(n, s)
<1>1. stops \subseteq 1 .. Len(s) /\ DOMAIN s = 1 .. Len(s) /\ Len(s) \in Nat
  BY LenProperties
<1>2. r = [n |-> n, res |-> res]
  BY DEF Gets
<1>3. how = "line" => \A i \in 1 .. Len(s) : i \in stops <=> s[i] = NL
  BY <1>1
<1>4. how = "all" => stops = {}
  OBVIOUS
<1> HIDE DEF stops, r, res
<1>5. stops # {} => n \in stops /\ n \in 1 .. Len(s) /\ \A i \in stops : n <= i
  <2>1. stops \subseteq Nat
    BY <1>1
  <2> QED
    BY <1>1, <2>1, LeastExists
<1>6. n \in Nat
  BY <1>1, <1>5
<1>7. /\ line = First(s, n) /\ k \in Nat /\ Len(line) = k
      /\ \A i \in 1 .. k : line[i] = s[i]
      /\ stops = {} => k = Len(s)
      /\ stops # {} => k = n
  <2>1. stops = {} => n > Len(s)
    BY <1>1
  <2>2. stops # {} => ~(n > Len(s))
    BY <1>1, <1>5
  <2>3. line = First(s, n)
    BY <1>6, <2>1, <2>2, WithinFacts
  <2> HIDE DEF n, line
  <2> QED
    BY <1>6, <2>1, <2>2, <2>3, WithinFacts
<1> HIDE DEF n, line
<1> HIDE DEF none
<1>k. k \in Nat /\ Len(s) \in Nat /\ k <= Len(s)
  <2>1. k \in 0 .. Len(s) /\ Len(s) \in Nat
    BY <1>6, WithinFacts
  <2> HIDE DEF k
  <2> QED
    BY <2>1
<1> HIDE DEF k
<1>8. line \in Seq(Chars)
  BY <1>6, <1>7, WithinFacts
<1>9. line = <<>> <=> k = 0
  BY <1>7, <1>8, EmptySeq
<1>10. k = 0 => s = <<>>
  <2>1. k = 0 => stops = {}
    BY <1>1, <1>5, <1>7
  <2> QED
    BY <1>1, <1>7, <2>1, EmptySeq
<1>11. /\ none => res.is = "nil"
       /\ ~none => res.is \in {"str", "raise"}
       /\ res.is = "str" => res.s = line /\ (IsBinary(mode) \/ Valid(line)) /\ ~none
       /\ res.is = "raise" => ~IsBinary(mode) /\ k > 0
  <2>1. CASE none
    <3>1. res.is = "nil"
      BY <2>1 DEF res, Answer
    <3> QED
      BY <2>1, <3>1
  <2>2. CASE ~none
    <3>1. res = Checked(mode, line)
      BY <2>2 DEF res
    <3>2. k > 0
      BY <1>7, <1>9, <2>2 DEF none
    <3> QED
      BY <2>2, <3>1, <3>2, CheckedFacts
  <2> QED
    BY <2>1, <2>2
<1>12. r.n = n /\ r.res = res
  BY <1>2
<1>13. Honest(mode, s, r) /\ r.res.is # "eof" /\ IsText(mode, r)
  BY <1>6, <1>7, <1>11, <1>12 DEF Honest, IsText, k
<1>14. ASSUME how = "line" PROVE OneLine(s, r)
  <2>1. ASSUME NEW i \in 1 .. k - 1 PROVE line[i] # NL
    <3>1. i \in 1 .. k /\ i \in 1 .. Len(s) /\ i < k
      <4>1. \A a, b \in Nat : \A j \in 1 .. a - 1 :
              a <= b => j \in 1 .. a /\ j \in 1 .. b /\ j < a
        OBVIOUS
      <4>2. k \in Nat /\ Len(s) \in Nat /\ k <= Len(s)
        BY <1>k
      <4> QED
        BY <4>1, <4>2
    <3>2. s[i] # NL
      BY <1>3, <1>5, <1>7, <1>14, <3>1
    <3> QED
      BY <1>7, <3>1, <3>2
  <2>2. ~none => line[k] = NL \/ k = Len(s)
    <3>1. CASE stops # {}
      <4>1. s[n] = NL /\ k = n /\ n \in 1 .. k
        BY <1>3, <1>5, <1>7, <1>14, <3>1
      <4> QED
        BY <1>7, <4>1
    <3> QED
      BY <1>7, <3>1
  <2> QED
    BY <1>7, <1>11, <1>12, <2>1, <2>2 DEF OneLine, k
<1>15. how = "all" => TakesAll(s, r)
  BY <1>4, <1>7, <1>12 DEF TakesAll, k
<1>16. how # "para" => EmptyAtEnd(s, r)
  BY <1>9, <1>10, <1>11, <1>12 DEF EmptyAtEnd, none
<1>17. how = "para" => NoParagraph(s, r)
  <2>1. line = <<>> => ToSet(line) \subseteq {NL}
    BY DEF ToSet
  <2> QED
    BY <1>7, <1>11, <1>12, <2>1 DEF NoParagraph, none
<1> QED
  BY <1>2, <1>12, <1>13, <1>14, <1>15, <1>16, <1>17 DEF r

LEMMA ReadAllDelivers ==
  ASSUME NEW mode, NEW s \in Seq(Chars)
  PROVE LET r == ReadAll(mode, s)
        IN  Honest(mode, s, r) /\ r.res.is \in {"str", "raise"} /\ IsText(mode, r) /\ TakesAll(s, r)
<1> DEFINE n == Len(s) + 1
           r == ReadAll(mode, s)
<1>1. r.n = n /\ r.res = Checked(mode, s)
  BY DEF ReadAll
<1>2. n \in Nat /\ n > Len(s)
  BY LenProperties
<1> HIDE DEF n, r
<1>3. Within(n, s) = Len(s) /\ First(s, n) = s /\ Len(s) \in Nat
  BY <1>2, WithinFacts
<1>4. ~Valid(s) => Len(s) > 0
  BY <1>3, ValidEmpty
<1> QED
  BY <1>1, <1>2, <1>3, <1>4, CheckedFacts DEF Honest, IsText, TakesAll, r

LEMMA ReadLengthDelivers ==
  ASSUME NEW mode, NEW s \in Seq(Chars), NEW want \in Nat \ {0}
  PROVE LET r == ReadLength(mode, s, want)
        IN  Honest(mode, s, r) /\ r.res.is # "eof" /\ IsText(mode, r) /\ EmptyAtEnd(s, r)
<1> DEFINE got == IF want > Len(s) THEN s ELSE SubSeq(s, 1, want)
           r == ReadLength(mode, s, want)
           k == Within(want, s)
<1>1. r.n = want /\ r.res = IF got = <<>> THEN Answer("nil") ELSE Checked(mode, got)
  BY DEF ReadLength
<1>2. got = First(s, want) /\ got \in Seq(Chars) /\ Len(got) = k /\ k \in 0 .. Len(s) /\ Len(s) \in Nat
  BY WithinFacts
<1>3. k = 0 => Len(s) = 0
  BY <1>2, WithinFacts
<1> HIDE DEF got, r, k
<1>4. got = <<>> => s = <<>>
  <2>1. got = <<>> => k = 0
    BY <1>2
  <2> QED
    BY <1>3, <2>1, EmptySeq
<1>5. ~Valid(got) => k > 0
  BY <1>2, ValidEmpty
<1>6. /\ r.res.is = "nil" \/ r.res.is = "str" \/ r.res.is = "raise"
      /\ r.res.is = "nil" => got = <<>>
      /\ r.res.is = "str" => r.res.s = got /\ (IsBinary(mode) \/ Valid(got))
      /\ r.res.is = "raise" => ~IsBinary(mode) /\ ~Valid(got)
  <2>1. CASE got = <<>>
    BY <1>1, <2>1 DEF Answer
  <2>2. CASE got # <<>>
    BY <1>1, <2>2, CheckedFacts
  <2> QED
    BY <2>1, <2>2
<1> QED
  BY <1>1, <1>2, <1>4, <1>5, <1>6 DEF Honest, IsText, EmptyAtEnd, r, k

LEMMA ValidOne ==
  ASSUME NEW c, c \notin {Lead, Cont} PROVE Valid(<<c>>)
BY DEF Valid

LEMMA ValidWide ==
  Valid(<<Lead, Cont>>)
BY DEF Valid, Lead, Cont

\* One byte is taken, if there is one.
LEMMA OneByteTaken ==
  ASSUME NEW s \in Seq(Chars)
  PROVE /\ s = <<>> => Within(1, s) = 0
        /\ s # <<>> => Within(1, s) = 1 /\ First(s, 1) = <<s[1]>>
<1>1. Len(s) \in Nat /\ (s = <<>> <=> Len(s) = 0)
  BY EmptySeq
<1>2. s = <<>> => Within(1, s) = 0
  BY <1>1 DEF Within
<1>3. ASSUME s # <<>> PROVE Within(1, s) = 1 /\ First(s, 1) = <<s[1]>>
  <2>1. Len(s) >= 1 /\ ~(1 > Len(s))
    BY <1>1, <1>3
  <2>2. Within(1, s) = 1
    BY <2>1 DEF Within
  <2>3. First(s, 1) \in Seq(Chars) /\ Len(First(s, 1)) = 1 /\ First(s, 1)[1] = s[1]
    <3>1. 1 \in Nat /\ 1 \in 1 .. 1
      OBVIOUS
    <3>2. /\ First(s, 1) \in Seq(Chars) /\ Len(First(s, 1)) = Within(1, s)
          /\ \A i \in 1 .. Within(1, s) : First(s, 1)[i] = s[i]
      BY <3>1, WithinFacts, Zenon
    <3> QED
      BY <2>2, <3>1, <3>2, Zenon
  <2> QED
    BY <2>2, <2>3
<1> QED
  BY <1>2, <1>3

LEMMA GetcDelivers ==
  ASSUME NEW mode, NEW s \in Seq(Chars)
  PROVE LET r == Getc(mode, s)
        IN  /\ r = [n |-> r.n, res |-> r.res]
            /\ Honest(mode, s, r) /\ r.res.is # "eof" /\ IsText(mode, r) /\ EmptyAtEnd(s, r)
<1> DEFINE r == Getc(mode, s)
<1>0. Len(s) \in Nat /\ (s = <<>> <=> Len(s) = 0)
  BY EmptySeq
<1>1. CASE s = <<>>
  <2>1. r = [n |-> 1, res |-> [is |-> "nil", s |-> <<>>]]
    BY <1>1 DEF Getc, Answer
  <2> QED
    BY <1>1, <2>1 DEF Honest, IsText, EmptyAtEnd
<1>2. CASE s # <<>> /\ (IsBinary(mode) \/ s[1] \notin {Lead, Cont})
  <2>1. r = [n |-> 1, res |-> [is |-> "str", s |-> <<s[1]>>]]
    BY <1>2 DEF Getc, Text
  <2>2. First(s, 1) = <<s[1]>>
    BY <1>2, OneByteTaken
  <2>3. IsBinary(mode) \/ Valid(<<s[1]>>)
    BY <1>2, ValidOne
  <2> QED
    BY <2>1, <2>2, <2>3 DEF Honest, IsText, EmptyAtEnd
<1>3. CASE s # <<>> /\ ~(IsBinary(mode) \/ s[1] \notin {Lead, Cont}) /\ s[1] = Cont
  <2>1. r = [n |-> 1, res |-> [is |-> "raise", s |-> <<>>]]
    BY <1>3 DEF Getc, Answer
  <2>2. Within(1, s) = 1
    BY <1>3, OneByteTaken
  <2> QED
    BY <1>3, <2>1, <2>2 DEF Honest, IsText, EmptyAtEnd
<1>4. CASE s # <<>> /\ ~(IsBinary(mode) \/ s[1] \notin {Lead, Cont}) /\ s[1] # Cont
  <2>1. s[1] = Lead /\ ~IsBinary(mode)
    BY <1>4
  <2>2. r = [n |-> 2, res |-> IF Len(s) >= 2 /\ s[2] = Cont THEN Text(SubSeq(s, 1, 2))
                              ELSE Answer("raise")]
    BY <1>4 DEF Getc
  <2>3. CASE Len(s) >= 2 /\ s[2] = Cont
    <3>1. Within(2, s) = 2 /\ First(s, 2) = SubSeq(s, 1, 2)
      BY <1>0, <2>3 DEF Within, First
    <3>2. r = [n |-> 2, res |-> [is |-> "str", s |-> First(s, 2)]]
      BY <2>2, <2>3, <3>1 DEF Text
    <3>3. First(s, 2) = <<Lead, Cont>>
      <4>1. /\ First(s, 2) \in Seq(Chars) /\ Len(First(s, 2)) = 2
            /\ First(s, 2)[1] = s[1] /\ First(s, 2)[2] = s[2]
        BY <3>1, WithinFacts
      <4> QED
        BY <2>1, <2>3, <4>1
    <3>4. Valid(First(s, 2))
      BY <3>3, ValidWide
    <3> QED
      BY <3>2, <3>4 DEF Honest, IsText, EmptyAtEnd
  <2>4. CASE ~(Len(s) >= 2 /\ s[2] = Cont)
    <3>1. r = [n |-> 2, res |-> [is |-> "raise", s |-> <<>>]]
      BY <2>2, <2>4 DEF Answer
    <3>2. Within(2, s) > 0
      BY <1>0, <1>4 DEF Within
    <3> QED
      BY <2>1, <3>1, <3>2 DEF Honest, IsText, EmptyAtEnd
  <2> QED
    BY <2>3, <2>4
<1> QED
  BY <1>1, <1>2, <1>3, <1>4

LEMMA GetbyteDelivers ==
  ASSUME NEW mode, NEW s \in Seq(Chars)
  PROVE LET r == Getbyte(s)
        IN  /\ r = [n |-> r.n, res |-> r.res]
            /\ Honest(mode, s, r) /\ r.res.is # "eof" /\ EmptyAtEnd(s, r)
<1>1. CASE s = <<>>
  <2>1. Getbyte(s) = [n |-> 1, res |-> [is |-> "nil", s |-> <<>>]]
    BY <1>1 DEF Getbyte, Answer
  <2> QED
    BY <1>1, <2>1 DEF Honest, EmptyAtEnd
<1>2. CASE s # <<>>
  <2>1. Getbyte(s) = [n |-> 1, res |-> [is |-> "str", s |-> <<s[1]>>]]
    BY <1>2 DEF Getbyte, Text
  <2>2. First(s, 1) = <<s[1]>>
    BY <1>2, OneByteTaken
  <2> QED
    BY <2>1, <2>2 DEF Honest, EmptyAtEnd
<1> QED
  BY <1>1, <1>2

LEMMA OrEOFErrorDelivers ==
  ASSUME NEW mode, NEW s, NEW r, r = [n |-> r.n, res |-> r.res], Honest(mode, s, r), EmptyAtEnd(s, r)
  PROVE LET e == OrEOFError(r)
        IN  /\ Honest(mode, s, e) /\ EmptyAtEnd(s, e) /\ e.res.is # "nil"
            /\ IsText(mode, r) => IsText(mode, e)
            /\ OneLine(s, r) => OneLine(s, e)
<1>1. CASE r.res.is = "nil"
  <2> DEFINE e == OrEOFError(r)
  <2>1. e.n = r.n /\ e.res = [is |-> "eof", s |-> <<>>]
    BY <1>1 DEF OrEOFError, Answer
  <2>2. s = <<>>
    BY <1>1 DEF EmptyAtEnd
  <2> HIDE DEF e
  <2>3. /\ Honest(mode, s, e) /\ EmptyAtEnd(s, e) /\ e.res.is # "nil"
        /\ IsText(mode, e) /\ OneLine(s, e)
    BY <2>1, <2>2 DEF Honest, EmptyAtEnd, IsText, OneLine
  <2> QED
    BY <2>3 DEF e
<1>2. CASE r.res.is # "nil"
  BY <1>2 DEF OrEOFError
<1> QED
  BY <1>1, <1>2

LEMMA ReadlinesDelivers ==
  ASSUME NEW mode, NEW s \in Seq(Chars)
  PROVE LET r == Readlines(mode, s)
        IN  /\ Honest(mode, s, r) /\ r.res.is \in {"str", "raise"}
            /\ IsText(mode, r) /\ TakesAll(s, r)
<1> DEFINE ends == {k \in 1 .. Len(s) + 1 : k = Len(s) + 1 \/ s[k] = NL}
           upto(k) == SubSeq(s, 1, IF k > Len(s) THEN Len(s) ELSE k)
           bad == {k \in ends : ~Valid(upto(k))}
           r == Readlines(mode, s)
           n == Len(s) + 1
<1>1. Len(s) \in Nat /\ n \in Nat /\ n > Len(s) /\ n \in ends /\ bad \subseteq 1 .. n
  BY LenProperties
<1>2. r = IF IsBinary(mode) \/ bad = {} THEN [n |-> n, res |-> Text(s)]
          ELSE [n |-> Least(bad), res |-> Answer("raise")]
  BY DEF Readlines
<1>3. First(s, n) = s /\ Within(n, s) = Len(s)
  BY <1>1, WithinFacts
<1>4. bad = {} => Valid(s)
  <2>1. upto(n) = s
    BY <1>1, <1>3 DEF First
  <2> QED
    BY <1>1, <2>1
<1>5. s = <<>> => bad = {}
  <2>1. ASSUME s = <<>>, NEW k \in ends PROVE Valid(upto(k))
    <3>1. Len(s) = 0
      BY <2>1
    <3>2. upto(k) = <<>>
      BY <1>1, <2>1, <3>1
    <3> QED
      BY <3>2 DEF Valid
  <2> QED
    BY <2>1
<1> HIDE DEF bad, r, n
<1>6. CASE IsBinary(mode) \/ bad = {}
  <2>1. r.n = n /\ r.res = [is |-> "str", s |-> s]
    BY <1>2, <1>6 DEF Text
  <2> QED
    BY <1>1, <1>3, <1>4, <1>6, <2>1 DEF Honest, IsText, TakesAll, r
<1>7. CASE ~(IsBinary(mode) \/ bad = {})
  <2>1. r.n = Least(bad) /\ r.res = [is |-> "raise", s |-> <<>>]
    BY <1>2, <1>7 DEF Answer
  <2>2. Least(bad) \in bad
    <3>1. bad \subseteq Nat
      BY <1>1
    <3> QED
      BY <1>7, <3>1, LeastExists
  <2>3. Least(bad) \in Nat /\ Least(bad) >= 1
    <3>1. Least(bad) \in 1 .. n
      BY <1>1, <2>2
    <3> QED
      BY <1>1, <3>1
  <2>4. Len(s) > 0
    BY <1>1, <1>5, <1>7, EmptySeq
  <2>5. Within(Least(bad), s) > 0
    BY <1>1, <2>3, <2>4 DEF Within
  <2> QED
    BY <1>7, <2>1, <2>3, <2>5 DEF Honest, IsText, TakesAll, r
<1> QED
  BY <1>6, <1>7

\* What reader op answers when s is ahead, as ReadsDeliver has it.
Lines == {"gets", "readline"}
Whole == {"read", "gets_nil", "readlines"}
Answers == {"str", "nil", "eof", "raise", "true", "false"}
Verdict(mode, s, op, r) ==
    /\ r.n \in Nat /\ r.res.is \in Answers
    /\ r.res.is = "str" =>
           /\ r.res.s = First(s, r.n)
           /\ op \notin {"getbyte", "readbyte"} => IsText(mode, r)
           /\ op \in Lines => OneLine(s, r)
           /\ op \in Whole => TakesAll(s, r)
    /\ r.res.is \in {"nil", "eof"} =>
           IF op = "gets_paragraph" THEN r.res.is = "nil" /\ NoParagraph(s, r) ELSE s = <<>>
    /\ r.res.is \in {"true", "false"} => Within(r.n, s) = 0 /\ (r.res.is = "true" <=> s = <<>>)
    /\ r.res.is = "raise" => Within(r.n, s) > 0 /\ ~IsBinary(mode)

LEMMA HonestVerdict ==
  ASSUME NEW mode, NEW s, NEW op, NEW r, Honest(mode, s, r),
         op \notin {"getbyte", "readbyte"} => IsText(mode, r),
         op \in Lines => OneLine(s, r),
         op \in Whole => TakesAll(s, r),
         IF op = "gets_paragraph" THEN r.res.is # "eof" /\ NoParagraph(s, r) ELSE EmptyAtEnd(s, r)
  PROVE Verdict(mode, s, op, r)
BY DEF Honest, Verdict, EmptyAtEnd, Answers

LEMMA AtEndVerdict ==
  ASSUME NEW mode, NEW s \in Seq(Chars)
  PROVE Verdict(mode, s, "eof", AtEnd(s))
<1>1. CASE s = <<>>
  <2>1. AtEnd(s) = [n |-> 1, res |-> [is |-> "true", s |-> <<>>]]
    BY <1>1 DEF AtEnd, Answer
  <2>2. Within(1, s) = 0
    BY <1>1, OneByteTaken
  <2> QED
    BY <1>1, <2>1, <2>2 DEF Verdict, Answers
<1>2. CASE s # <<>>
  <2>1. AtEnd(s) = [n |-> 0, res |-> [is |-> "false", s |-> <<>>]]
    BY <1>2 DEF AtEnd, Answer
  <2>2. Within(0, s) = 0
    BY LenProperties DEF Within
  <2> QED
    BY <1>2, <2>1, <2>2 DEF Verdict, Answers
<1> QED
  BY <1>1, <1>2

LEMMA ReadingVerdict ==
  ASSUME NEW mode, NEW s \in Seq(Chars), NEW op \in Readers \cup {"eof"}
  PROVE Verdict(mode, s, op, Reading(mode, s, op))
<1> DEFINE r == Reading(mode, s, op)
<1>1. CASE op = "gets"
  <2>1. r = Gets(mode, s, "line", 0)
    BY <1>1 DEF Reading
  <2>2. Honest(mode, s, r) /\ IsText(mode, r) /\ OneLine(s, r) /\ EmptyAtEnd(s, r)
    BY <2>1, GetsDelivers
  <2> QED
    BY <1>1, <2>2, HonestVerdict DEF Whole
<1>2. CASE op = "gets_nil"
  <2>1. r = Gets(mode, s, "all", 0)
    BY <1>2 DEF Reading
  <2>2. Honest(mode, s, r) /\ IsText(mode, r) /\ TakesAll(s, r) /\ EmptyAtEnd(s, r)
    BY <2>1, GetsDelivers
  <2> QED
    BY <1>2, <2>2, HonestVerdict DEF Lines
<1>3. CASE op = "gets_limit"
  <2>1. r = Gets(mode, s, "limit", 2)
    BY <1>3 DEF Reading
  <2>2. Honest(mode, s, r) /\ IsText(mode, r) /\ EmptyAtEnd(s, r)
    BY <2>1, GetsDelivers
  <2> QED
    BY <1>3, <2>2, HonestVerdict DEF Lines, Whole
<1>4. CASE op = "gets_paragraph"
  <2>1. r = Gets(mode, s, "para", 0)
    BY <1>4 DEF Reading
  <2>2. Honest(mode, s, r) /\ IsText(mode, r) /\ r.res.is # "eof" /\ NoParagraph(s, r)
    BY <2>1, GetsDelivers
  <2> QED
    BY <1>4, <2>2, HonestVerdict DEF Lines, Whole
<1>5. CASE op = "readline"
  <2> DEFINE q == Gets(mode, s, "line", 0)
  <2>1. r = OrEOFError(q)
    BY <1>5 DEF Reading
  <2>2. q = [n |-> q.n, res |-> q.res] /\ Honest(mode, s, q) /\ IsText(mode, q)
        /\ OneLine(s, q) /\ EmptyAtEnd(s, q)
    BY GetsDelivers
  <2> HIDE DEF q
  <2>3. Honest(mode, s, r) /\ IsText(mode, r) /\ OneLine(s, r) /\ EmptyAtEnd(s, r)
    BY <2>1, <2>2, OrEOFErrorDelivers
  <2> QED
    BY <1>5, <2>3, HonestVerdict DEF Whole
<1>6. CASE op = "read"
  <2>1. r = ReadAll(mode, s)
    BY <1>6 DEF Reading
  <2>2. Honest(mode, s, r) /\ IsText(mode, r) /\ TakesAll(s, r) /\ EmptyAtEnd(s, r)
    BY <2>1, ReadAllDelivers DEF EmptyAtEnd
  <2> QED
    BY <1>6, <2>2, HonestVerdict DEF Lines
<1>7. CASE op = "read_1"
  <2>1. r = ReadLength(mode, s, 1) /\ 1 \in Nat \ {0}
    BY <1>7 DEF Reading
  <2>2. Honest(mode, s, r) /\ IsText(mode, r) /\ EmptyAtEnd(s, r)
    BY <2>1, ReadLengthDelivers
  <2> QED
    BY <1>7, <2>2, HonestVerdict DEF Lines, Whole
<1>8. CASE op = "read_2"
  <2>1. r = ReadLength(mode, s, 2) /\ 2 \in Nat \ {0}
    BY <1>8 DEF Reading
  <2>2. Honest(mode, s, r) /\ IsText(mode, r) /\ EmptyAtEnd(s, r)
    BY <2>1, ReadLengthDelivers
  <2> QED
    BY <1>8, <2>2, HonestVerdict DEF Lines, Whole
<1>9. CASE op = "getc"
  <2>1. r = Getc(mode, s)
    BY <1>9 DEF Reading
  <2>2. Honest(mode, s, r) /\ IsText(mode, r) /\ EmptyAtEnd(s, r)
    BY <2>1, GetcDelivers
  <2> QED
    BY <1>9, <2>2, HonestVerdict DEF Lines, Whole
<1>10. CASE op = "readchar"
  <2> DEFINE q == Getc(mode, s)
  <2>1. r = OrEOFError(q)
    BY <1>10 DEF Reading
  <2>2. q = [n |-> q.n, res |-> q.res] /\ Honest(mode, s, q) /\ IsText(mode, q) /\ EmptyAtEnd(s, q)
    BY GetcDelivers
  <2> HIDE DEF q
  <2>3. Honest(mode, s, r) /\ IsText(mode, r) /\ EmptyAtEnd(s, r)
    BY <2>1, <2>2, OrEOFErrorDelivers
  <2> QED
    BY <1>10, <2>3, HonestVerdict DEF Lines, Whole
<1>11. CASE op = "getbyte"
  <2>1. r = Getbyte(s)
    BY <1>11 DEF Reading
  <2>2. Honest(mode, s, r) /\ EmptyAtEnd(s, r)
    BY <2>1, GetbyteDelivers
  <2> QED
    BY <1>11, <2>2, HonestVerdict DEF Lines, Whole
<1>12. CASE op = "readbyte"
  <2> DEFINE q == Getbyte(s)
  <2>1. r = OrEOFError(q)
    BY <1>12 DEF Reading
  <2>2. q = [n |-> q.n, res |-> q.res] /\ Honest(mode, s, q) /\ EmptyAtEnd(s, q)
    BY GetbyteDelivers
  <2> HIDE DEF q
  <2>3. Honest(mode, s, r) /\ EmptyAtEnd(s, r)
    BY <2>1, <2>2, OrEOFErrorDelivers
  <2> QED
    BY <1>12, <2>3, HonestVerdict DEF Lines, Whole
<1>13. CASE op = "readlines"
  <2>1. r = Readlines(mode, s)
    BY <1>13 DEF Reading
  <2>2. Honest(mode, s, r) /\ IsText(mode, r) /\ TakesAll(s, r) /\ EmptyAtEnd(s, r)
    BY <2>1, ReadlinesDelivers DEF EmptyAtEnd
  <2> QED
    BY <1>13, <2>2, HonestVerdict DEF Lines
<1>14. CASE op = "eof"
  BY <1>14, AtEndVerdict DEF Reading
<1> QED
  BY <1>1, <1>2, <1>3, <1>4, <1>5, <1>6, <1>7, <1>8, <1>9, <1>10, <1>11, <1>12, <1>13, <1>14
     DEF Readers

-----------------------------------------------------------------------------
(***************************************************************************)
(* What a step of a reader delivers                                        *)
(***************************************************************************)
\* What ReadsDeliver says of the call op on h.
Delivered(h, op) ==
    LET f == files[h]  g == files'[h]  s == last'.s
        file == IF h = Writer THEN Settled ELSE disk
        atEnd == g.pos >= Len(file)
    IN  CASE last'.is = "str" ->
               /\ g.pos = f.pos + Len(s) /\ s = SubSeq(file, f.pos + 1, g.pos)
               /\ IsBinary(f.mode) \/ op \in {"getbyte", "readbyte"} \/ Valid(s)
               /\ op \in {"gets", "readline"} =>
                      (\A i \in 1 .. Len(s) - 1 : s[i] # NL) /\ (s[Len(s)] = NL \/ atEnd)
               /\ op \in {"read", "gets_nil", "readlines"} => atEnd
          [] last'.is \in {"nil", "eof"} ->
               IF op = "gets_paragraph" THEN ToSet(SubSeq(file, f.pos + 1, g.pos)) \subseteq {NL}
               ELSE atEnd /\ g.pos = f.pos
          [] last'.is \in {"true", "false"} -> g.pos = f.pos /\ (last'.is = "true") = atEnd
          [] last'.is = "raise" -> (g.pos > f.pos /\ ~IsBinary(f.mode)) \/ (full /\ f.pend # <<>>)
          [] OTHER -> FALSE

\* The end of the file is where everything ahead has been taken.
LEMMA EndMet ==
  ASSUME NEW d \in Seq(Chars), NEW pos \in Nat, NEW k \in 0 .. Len(Rest(d, pos))
  PROVE /\ pos + k >= Len(d) <=> k = Len(Rest(d, pos))
        /\ Rest(d, pos) = <<>> <=> Len(Rest(d, pos)) = 0
<1> DEFINE r == Rest(d, pos)
<1>1. r \in Seq(Chars) /\ Len(r) = IF pos < Len(d) THEN Len(d) - pos ELSE 0
  BY RestFacts
<1>2. Len(r) \in Nat /\ Len(d) \in Nat /\ k \in 0 .. Len(r)
  BY <1>1
<1> HIDE DEF r
<1>3. pos + k >= Len(d) <=> k = Len(r)
  BY <1>1, <1>2
<1>4. r = <<>> <=> Len(r) = 0
  BY <1>1, EmptySeq
<1> QED
  BY <1>3, <1>4 DEF r

\* The file a reader reads is what it becomes once what waits is stored.
LEMMA ReadFile ==
  ASSUME Storage, NEW h \in Files, Stored(files[h], disk).ok
  PROVE Stored(files[h], disk).d = IF h = Writer THEN Settled ELSE disk
<1>1. files[h] \in FileType /\ FileHonest(files[h]) /\ disk \in Seq(Chars)
  BY FileAt DEF Storage
<1>2. Stored(files[h], disk).d = SettledOf(files[h], disk)
  BY <1>1, StoredFacts
<1>3. CASE h = Writer
  BY <1>2, <1>3, SettledIs
<1>4. CASE h # Writer
  <2>1. h = Reader
    BY <1>4 DEF Files
  <2>2. files[h].pend = <<>>
    BY <2>1 DEF Storage, FilesHonest
  <2> QED
    BY <1>2, <1>4, <2>2 DEF SettledOf
<1> QED
  BY <1>3, <1>4

LEMMA ReadWithDelivers ==
  ASSUME Storage, FilesFollow, NEW h \in Files, h \notin others, files[h].fp,
         NEW op \in Readers \cup {"eof"}, ReadWith(h, op)
  PROVE Delivered(h, op)
<1> DEFINE f == files[h]
           st == Stored(f, disk)
           file == IF h = Writer THEN Settled ELSE disk
           got == Reading(f.mode, Ahead(st.f, st.d), op)
<1>1. f \in FileType /\ FileHonest(f) /\ disk \in Seq(Chars) /\ Follows(f, disk)
      /\ files \in [Files -> FileType]
  BY FileAt DEF Storage, FilesFollow
<1>2. /\ SameButFlushed(f, st.f) /\ st.d \in Seq(Chars)
      /\ Follows(st.f, st.d) /\ (st.ok => st.f.pos = f.pos)
      /\ f.pend = <<>> => st.ok
  BY <1>1, StoredFacts, StoredFollows
<1>3. st.f \in FileType /\ st.f.pend = <<>> /\ f.pos \in Nat
  BY <1>1, <1>2 DEF SameButFlushed, FileType
<1>4. CASE ~st.ok
  <2>1. last'.is = "raise"
    BY <1>4 DEF ReadWith, Return, Answer
  <2>2. f.pend # <<>>
    BY <1>2, <1>4
  <2>3. full
    BY <1>4 DEF Stored
  <2> QED
    BY <2>1, <2>2, <2>3 DEF Delivered
<1>5. CASE st.ok
  <2> DEFINE r == Rest(file, f.pos)
             k == Within(got.n, r)
             g == Took(st.f, st.d, got.n)
  <2>1. st.d = file /\ st.f.pos = f.pos
    BY <1>2, <1>5, ReadFile
  <2>2. Ahead(st.f, st.d) = r
    BY <1>2, <1>3, <2>1, AheadIsRest
  <2>3. r \in Seq(Chars) /\ file \in Seq(Chars)
    BY <1>2, <1>3, <2>1, RestFacts
  <2>4. Verdict(f.mode, r, op, got)
    BY <2>2, <2>3, ReadingVerdict
  <2>5. got.n \in Nat /\ got.res.is \in Answers
    BY <2>4 DEF Verdict
  <2>6. g.pos = f.pos + k
    <3>1. g.pos = st.f.pos + Within(got.n, Rest(st.d, st.f.pos))
      BY <1>2, <1>3, <2>5, TookFollows
    <3> QED
      BY <2>1, <3>1
  <2>7. Return(h, op, g, st.d, got.res)
    BY <1>5 DEF ReadWith
  <2>8. files'[h] = g /\ last'.is = got.res.is /\ last'.s = got.res.s
    BY <1>1, <2>7 DEF Return
  <2>9. k \in 0 .. Len(r) /\ Len(r) \in Nat /\ Len(First(r, got.n)) = k
    BY <2>3, <2>5, WithinFacts
  <2>10. First(r, got.n) = SubSeq(file, f.pos + 1, f.pos + k)
    BY <1>3, <2>3, <2>9, RestCut DEF First
  <2>11. (f.pos + k >= Len(file) <=> k = Len(r)) /\ (r = <<>> <=> Len(r) = 0)
    BY <1>3, <2>3, <2>9, EndMet
  <2>12. files'[h].pos = f.pos + k
    BY <2>6, <2>8
  <2> HIDE DEF f, st, file, got, r, k, g
  <2>13. k \in Nat
    BY <2>9
  <2>14. CASE got.res.is = "str"
    <3>1. /\ last'.s = First(r, got.n)
          /\ op \notin {"getbyte", "readbyte"} => IsBinary(f.mode) \/ Valid(last'.s)
          /\ op \in {"gets", "readline"} =>
               /\ \A i \in 1 .. Len(last'.s) - 1 : last'.s[i] # NL
               /\ last'.s[Len(last'.s)] = NL \/ k = Len(r)
          /\ op \in {"read", "gets_nil", "readlines"} => k = Len(r)
      BY <2>4, <2>8, <2>14 DEF Verdict, IsText, OneLine, TakesAll, Lines, Whole, k
    <3>2. /\ files'[h].pos = f.pos + Len(last'.s)
          /\ last'.s = SubSeq(file, f.pos + 1, files'[h].pos)
      BY <2>9, <2>10, <2>12, <3>1
    <3>3. files'[h].pos >= Len(file) <=> k = Len(r)
      BY <2>11, <2>12
    <3>4. last'.is = "str"
      BY <2>8, <2>14
    <3> QED
      BY <3>1, <3>2, <3>3, <3>4 DEF Delivered, f, file
  <2>15. CASE got.res.is \in {"nil", "eof"}
    <3>1. last'.is \in {"nil", "eof"} /\ last'.is # "str"
      BY <2>8, <2>15
    <3>2. CASE op = "gets_paragraph"
      <4>1. ToSet(SubSeq(file, f.pos + 1, files'[h].pos)) \subseteq {NL}
        BY <2>4, <2>10, <2>12, <2>15, <3>2 DEF Verdict, NoParagraph
      <4> QED
        BY <3>1, <3>2, <4>1 DEF Delivered, f, file
    <3>3. CASE op # "gets_paragraph"
      <4>1. r = <<>>
        BY <2>4, <2>15, <3>3 DEF Verdict
      <4>2. Len(r) = 0 /\ k = 0
        BY <2>9, <2>11, <4>1
      <4>3. files'[h].pos = f.pos /\ files'[h].pos >= Len(file)
        BY <1>3, <2>11, <2>12, <4>2 DEF f
      <4> QED
        BY <3>1, <3>3, <4>3 DEF Delivered, f, file
    <3> QED
      BY <3>2, <3>3
  <2>16. CASE got.res.is \in {"true", "false"}
    <3>1. last'.is \in {"true", "false"} /\ last'.is \notin {"str", "nil", "eof"}
      BY <2>8, <2>16
    <3>2. k = 0 /\ (last'.is = "true" <=> r = <<>>)
      BY <2>4, <2>8, <2>16 DEF Verdict, k
    <3>3. files'[h].pos = f.pos /\ (files'[h].pos >= Len(file) <=> r = <<>>)
      BY <1>3, <2>11, <2>12, <3>2 DEF f
    <3>4. (last'.is = "true") = (files'[h].pos >= Len(file))
      BY <3>2, <3>3
    <3> QED
      BY <3>1, <3>3, <3>4 DEF Delivered, f, file
  <2>17. CASE got.res.is = "raise"
    <3>1. last'.is = "raise"
      BY <2>8, <2>17
    <3>2. k > 0 /\ ~IsBinary(f.mode)
      BY <2>4, <2>17 DEF Verdict, k
    <3>3. files'[h].pos > f.pos
      BY <1>3, <2>12, <2>13, <3>2 DEF f
    <3> QED
      BY <3>1, <3>2, <3>3 DEF Delivered, f, file
  <2> QED
    BY <2>5, <2>14, <2>15, <2>16, <2>17 DEF Answers
<1> QED
  BY <1>4, <1>5

\* A call that reads has run its reader, or was refused.
Asked == Readers \cup {"eof"}
ReaderRan == last'.op \in Asked => last'.h \in Files /\ ReadWith(last'.h, last'.op)
Denied == last'.op \in Asked => ~(Usable(last'.h) /\ AllowsRead(files[last'.h].mode))
Answered == ReaderRan \/ Denied

LEMMA ReturnNamed ==
  ASSUME NEW h, NEW op, NEW g, NEW d, NEW res, Return(h, op, g, d, res)
  PROVE last'.op = op /\ last'.h = h
BY DEF Return

LEMMA RefuseNamed ==
  ASSUME NEW h, NEW op, Refuse(h, op) PROVE last'.op = op /\ last'.h = h
BY DEF Refuse

LEMMA OtherNames ==
  /\ "open" \notin Asked /\ "rewind" \notin Asked /\ "close" \notin Asked /\ "any" \notin Asked
  /\ "seek" \notin Asked /\ "write" \notin Asked /\ "flush" \notin Asked
  /\ "leave" \notin Asked /\ "device" \notin Asked
BY DEF Asked, Readers

\* A reader reads, unless its File is closed, or was opened to be written only.
LEMMA ReaderAnswers ==
  ASSUME Storage, NEW h \in Files, NEW op \in Asked,
         IF AllowsRead(files[h].mode) /\ files[h].fp THEN ReadWith(h, op) ELSE Refuse(h, op)
  PROVE Answered
<1>1. CASE AllowsRead(files[h].mode) /\ files[h].fp
  <2>1. ReadWith(h, op)
    BY <1>1
  <2>2. last'.op = op /\ last'.h = h
    BY <2>1, ReturnNamed DEF ReadWith
  <2> QED
    BY <2>1, <2>2 DEF Answered, ReaderRan
<1>2. CASE ~(AllowsRead(files[h].mode) /\ files[h].fp)
  <2>1. last'.op = op /\ last'.h = h
    BY <1>2, RefuseNamed
  <2>2. Usable(h) => files[h].fp
    BY FileAt DEF Usable, Callable, FileHonest
  <2> QED
    BY <1>2, <2>1, <2>2 DEF Answered, Denied
<1> QED
  BY <1>1, <1>2

LEMMA StepAnswers ==
  ASSUME StreamsInv, Next PROVE Answered
<1>0. Storage /\ Blocks
  BY DEF StreamsInv
<1>1. last'.op \notin Asked => Answered
  BY DEF Answered, ReaderRan
<1>2. ASSUME NEW h \in Files, NEW mode, NEW block, Open(h, mode, block) PROVE Answered
  <2>1. last'.op = "open"
    BY <1>2, ReturnNamed DEF Open
  <2> QED
    BY <1>1, <2>1, OtherNames
<1>3. ASSUME NEW h \in Files, NEW op \in Readers, Read(h, op) PROVE Answered
  BY <1>0, <1>3, ReaderAnswers DEF Read, Asked
<1>4. ASSUME NEW h \in Files, NEW how \in Each, StartEach(h, how) PROVE Answered
  BY <1>0, <1>4, EachReads, ReaderAnswers DEF StartEach, Asked
<1>5. ASSUME NEW h \in Files, Eof(h) PROVE Answered
  BY <1>0, <1>5, ReaderAnswers DEF Eof, Asked
<1>6. ASSUME NEW h \in Files, Rewind(h) PROVE Answered
  <2>1. last'.op = "rewind"
    BY <1>6, ReturnNamed, RefuseNamed DEF Rewind
  <2> QED
    BY <1>1, <2>1, OtherNames
<1>7. ASSUME NEW h \in Files, CloseStream(h) PROVE Answered
  <2>1. last'.op = "close"
    BY <1>7, ReturnNamed DEF CloseStream
  <2> QED
    BY <1>1, <2>1, OtherNames
<1>8. ASSUME NEW h \in Files, Refused(h, "any") PROVE Answered
  <2>1. last'.op = "any"
    BY <1>8, RefuseNamed DEF Refused
  <2> QED
    BY <1>1, <2>1, OtherNames
<1>9. ASSUME NEW h \in Files, NEW whence, NEW offset, Seek(h, offset, whence) PROVE Answered
  <2>1. last'.op = "seek"
    BY <1>9, ReturnNamed, RefuseNamed DEF Seek
  <2> QED
    BY <1>1, <2>1, OtherNames
<1>10. ASSUME NEW s, Write(Writer, s) PROVE Answered
  <2>1. last'.op = "write"
    BY <1>10, ReturnNamed, RefuseNamed DEF Write
  <2> QED
    BY <1>1, <2>1, OtherNames
<1>11. CASE Flush(Writer)
  <2>1. last'.op = "flush"
    BY <1>11, ReturnNamed, RefuseNamed DEF Flush
  <2> QED
    BY <1>1, <2>1, OtherNames
<1>12. CASE NextEach
  <2> DEFINE h == Innermost.h
             how == Innermost.how
  <2>1. within # <<>> /\ Innermost.kind = "each"
    BY <1>12 DEF NextEach
  <2>2. h \in Files /\ how \in Asked
    BY <1>0, <2>1, InnermostFacts, EachReads DEF Asked
  <2>3. IF files[h].fp THEN ReadWith(h, how) ELSE Refuse(h, how)
    BY <1>12 DEF NextEach
  <2> HIDE DEF h, how
  <2>4. CASE files[h].fp
    <3>1. ReadWith(h, how)
      BY <2>3, <2>4
    <3>2. last'.op = how /\ last'.h = h
      BY <3>1, ReturnNamed DEF ReadWith
    <3> QED
      BY <2>2, <3>1, <3>2 DEF Answered, ReaderRan
  <2>5. CASE ~files[h].fp
    <3>1. last'.op = how /\ last'.h = h
      BY <2>3, <2>5, RefuseNamed
    <3>2. ~Usable(h)
      BY <1>0, <2>2, <2>5, FileAt DEF Usable, Callable, FileHonest
    <3> QED
      BY <3>1, <3>2 DEF Answered, Denied
  <2> QED
    BY <2>4, <2>5
<1>13. CASE LeaveBlock
  <2>1. within # <<>> /\ (CloseStream(Innermost.h) \/ last' = [Quiet EXCEPT !.op = "leave"])
    BY <1>13 DEF LeaveBlock
  <2>2. Innermost.h \in Files
    BY <1>0, <2>1, InnermostFacts
  <2>3. last' = [Quiet EXCEPT !.op = "leave"] => last'.op = "leave"
    BY DEF Quiet
  <2> QED
    BY <1>1, <1>7, <2>1, <2>2, <2>3, OtherNames
<1>14. CASE Device
  <2>1. last'.op = "device"
    BY <1>14 DEF Device, Quiet
  <2> QED
    BY <1>1, <2>1, OtherNames
<1>15. ASSUME NEW h \in Files, Close(h) PROVE Answered
  BY <1>7, <1>15 DEF Close
<1> QED
  BY <1>2, <1>3, <1>4, <1>5, <1>6, <1>8, <1>9, <1>10, <1>11, <1>12, <1>13, <1>14, <1>15 DEF Next

\* What a reader returns is the file between the positions before and after, for any
\* file, any buffered writes, any mode and any interleaving with the other File, as
\* long as no other File has changed the file since: lines, characters, bytes and
\* everything, nil and EOFError at the end only, and invalid text raised.
THEOREM ReadsDeliverCorrect == Spec => ReadsDeliver
<1> DEFINE A == LET h == last'.h  op == last'.op  f == files[h]  g == files'[h]  s == last'.s
                    file == IF h = Writer THEN Settled ELSE disk
                    atEnd == g.pos >= Len(file)
                IN  op \in Readers \cup {"eof"} /\ h \notin others /\ Usable(h) /\ AllowsRead(f.mode) =>
                    CASE last'.is = "str" ->
                           /\ g.pos = f.pos + Len(s) /\ s = SubSeq(file, f.pos + 1, g.pos)
                           /\ IsBinary(f.mode) \/ op \in {"getbyte", "readbyte"} \/ Valid(s)
                           /\ op \in {"gets", "readline"} =>
                                  (\A i \in 1 .. Len(s) - 1 : s[i] # NL) /\ (s[Len(s)] = NL \/ atEnd)
                           /\ op \in {"read", "gets_nil", "readlines"} => atEnd
                      [] last'.is \in {"nil", "eof"} ->
                           IF op = "gets_paragraph" THEN ToSet(SubSeq(file, f.pos + 1, g.pos)) \subseteq {NL}
                           ELSE atEnd /\ g.pos = f.pos
                      [] last'.is \in {"true", "false"} -> g.pos = f.pos /\ (last'.is = "true") = atEnd
                      [] last'.is = "raise" -> (g.pos > f.pos /\ ~IsBinary(f.mode)) \/ (full /\ f.pend # <<>>)
                      [] OTHER -> FALSE
<1>1. ASSUME StreamsInv, FilesFollow, Next PROVE A
  <2>1. ASSUME last'.op \in Asked, last'.h \notin others, Usable(last'.h),
               AllowsRead(files[last'.h].mode)
        PROVE  Delivered(last'.h, last'.op)
    <3>1. last'.h \in Files /\ ReadWith(last'.h, last'.op)
      BY <1>1, <2>1, StepAnswers DEF Answered, ReaderRan, Denied
    <3>2. PICK h, op : h = last'.h /\ op = last'.op
      OBVIOUS
    <3>3. h \in Files /\ h \notin others /\ op \in Readers \cup {"eof"} /\ ReadWith(h, op)
      BY <2>1, <3>1, <3>2 DEF Asked
    <3>4. files[h].fp
      <4>1. Usable(h)
        BY <2>1, <3>2
      <4>2. FileHonest(files[h])
        BY <1>1, <3>3, FileAt DEF StreamsInv
      <4> QED
        BY <4>1, <4>2 DEF Usable, Callable, FileHonest
    <3>5. Delivered(h, op)
      BY <1>1, <3>3, <3>4, ReadWithDelivers DEF StreamsInv
    <3> QED
      BY <3>2, <3>5
  <2> QED
    BY <2>1 DEF Delivered, Asked
<1>2. StreamsInv /\ FilesFollow /\ [Next]_vars => [A]_vars
  BY <1>1
<1>3. [][A]_vars <=> ReadsDeliver
  BY PTL DEF ReadsDeliver
<1> HIDE DEF A
<1>4. Spec => [][A]_vars
  BY <1>2, StreamsInvCorrect, FilesFollowCorrect, PTL DEF Spec
<1> QED
  BY <1>3, <1>4, PTL

(***************************************************************************)
(* Bytes as characters.                                                    *)
(***************************************************************************)

Byte == 0 .. 255

LEMMA SixByte ==
  ASSUME NEW n \in Nat, NEW shift \in {1, 64, 4096}
  PROVE Six(n, shift) \in 128 .. 191 /\ Six(n, shift) % 64 = (n \div shift) % 64
<1>1. CASE shift = 1
  BY <1>1 DEF Six
<1>2. CASE shift = 64
  BY <1>2 DEF Six
<1>3. CASE shift = 4096
  BY <1>3 DEF Six
<1> QED
  BY <1>1, <1>2, <1>3

LEMMA ContinuationByte ==
  ASSUME NEW b \in Byte PROVE IsContinuation(b) <=> b \in 128 .. 191
BY DEF IsContinuation, Byte

LEMMA FirstByte ==
  /\ \A c0 \in 0 .. 127 : Need(c0) = 1
  /\ \A c0 \in 194 .. 223 : Need(c0) = 2 /\ Payload(c0) = c0 - 192
  /\ \A c0 \in 224 .. 239 : Need(c0) = 3 /\ Payload(c0) = c0 - 224
  /\ \A c0 \in 240 .. 244 : Need(c0) = 4 /\ Payload(c0) = c0 - 240
<1>1. ASSUME NEW c0 \in 0 .. 127 PROVE Need(c0) = 1
  BY DEF Need, Lowest
<1>2. ASSUME NEW c0 \in 194 .. 223 PROVE Need(c0) = 2 /\ Payload(c0) = c0 - 192
  <2>1. Need(c0) = 2 /\ c0 % 32 = c0 - 192
    BY DEF Need, Lowest
  <2> QED
    BY <2>1 DEF Payload
<1>3. ASSUME NEW c0 \in 224 .. 239 PROVE Need(c0) = 3 /\ Payload(c0) = c0 - 224
  <2>1. Need(c0) = 3 /\ c0 % 16 = c0 - 224
    BY DEF Need, Lowest
  <2> QED
    BY <2>1 DEF Payload
<1>4. ASSUME NEW c0 \in 240 .. 244 PROVE Need(c0) = 4 /\ Payload(c0) = c0 - 240
  <2>1. Need(c0) = 4 /\ c0 % 8 = c0 - 240
    BY DEF Need, Lowest
  <2> QED
    BY <2>1 DEF Payload
<1> QED
  BY <1>1, <1>2, <1>3, <1>4

LEMMA LowSix == \A b \in 128 .. 191 : b % 64 = b - 128
OBVIOUS

\* What decoding accepts, when the number of bytes is known.
LEMMA Accepts ==
  ASSUME NEW s, NEW need, s # <<>>, Need(s[1]) = need, need # 0, ~(need > Len(s)),
         \A i \in 2 .. need : IsContinuation(s[i]), ~Overlong(need, PointOf(s)),
         ~(PointOf(s) > LastPoint), PointOf(s) \notin Surrogates,
         ~(need > 1 /\ BadSecond(s[1], s[2]))
  PROVE DecodeOne(s) = <<PointOf(s), need>>
BY DEF DecodeOne

-----------------------------------------------------------------------------
(***************************************************************************)
(* From a scalar value to bytes and back, by the number of bytes.          *)
(***************************************************************************)
LEMMA OneByte ==
  ASSUME NEW c0 \in 0 .. 127 PROVE DecodeOne(<<c0>>) = <<c0, 1>>
<1> DEFINE s == <<c0>>
<1>1. s # <<>> /\ ~(1 > Len(s)) /\ s[1] = c0
  OBVIOUS
<1> HIDE DEF s
<1>2. Need(s[1]) = 1
  BY <1>1, FirstByte
<1>3. PointOf(s) = c0
  BY <1>1, <1>2 DEF PointOf
<1>4. ~Overlong(1, PointOf(s)) /\ ~(PointOf(s) > LastPoint) /\ PointOf(s) \notin Surrogates
  BY <1>3 DEF Overlong, LastPoint, Surrogates
<1>5. DecodeOne(s) = <<c0, 1>>
  BY <1>1, <1>2, <1>3, <1>4, Accepts
<1> QED
  BY <1>5 DEF s

LEMMA TwoBytes ==
  ASSUME NEW c0 \in 194 .. 223, NEW c1 \in 128 .. 191
  PROVE DecodeOne(<<c0, c1>>) = <<(c0 - 192) * 64 + (c1 - 128), 2>>
<1> DEFINE s == <<c0, c1>>
           cp == (c0 - 192) * 64 + (c1 - 128)
<1>1. s # <<>> /\ ~(2 > Len(s)) /\ s[1] = c0 /\ s[2] = c1
  OBVIOUS
<1> HIDE DEF s
<1>2. Need(s[1]) = 2 /\ Payload(s[1]) = c0 - 192
  <2>1. Need(c0) = 2 /\ Payload(c0) = c0 - 192
    BY FirstByte
  <2> QED
    BY <1>1, <2>1
<1>3. PointOf(s) = SixMore(Payload(s[1]), s[2])
  BY <1>2 DEF PointOf
<1>4. PointOf(s) = cp
  <2>1. PointOf(s) = SixMore(c0 - 192, c1)
    BY <1>1, <1>2, <1>3
  <2>2. SixMore(c0 - 192, c1) = cp
    BY LowSix DEF SixMore
  <2> QED
    BY <2>1, <2>2
<1>5. ~Overlong(2, PointOf(s)) /\ ~(PointOf(s) > LastPoint) /\ PointOf(s) \notin Surrogates
  BY <1>4 DEF Overlong, LastPoint, Surrogates
<1>6. \A i \in 2 .. 2 : IsContinuation(s[i])
  <2>1. IsContinuation(c1)
    BY ContinuationByte DEF Byte
  <2> QED
    BY <1>1, <2>1
<1>7. ~BadSecond(s[1], s[2])
  BY <1>1 DEF BadSecond
<1>8. DecodeOne(s) = <<cp, 2>>
  BY <1>1, <1>2, <1>4, <1>5, <1>6, <1>7, Accepts
<1> QED
  BY <1>8 DEF s

\* The lemmas on three and four bytes keep their numbers behind names: the provers
\* expand a literal range and a large numeral.
LeadOf2 == 194 .. 223
LeadOf3 == 224 .. 239
LeadOf4 == 240 .. 244
Trail == 128 .. 191
PointOf3(c0, c1, c2) == (c0 - 224) * 4096 + (c1 - 128) * 64 + (c2 - 128)
PointOf4(c0, c1, c2, c3) ==
    (c0 - 240) * 262144 + (c1 - 128) * 4096 + (c2 - 128) * 64 + (c3 - 128)

LEMMA ThreeBytes ==
  ASSUME NEW c0 \in LeadOf3, NEW c1 \in Trail, NEW c2 \in Trail, ~BadSecond(c0, c1)
  PROVE DecodeOne(<<c0, c1, c2>>) = <<PointOf3(c0, c1, c2), 3>>
<1>0. c0 \in 224 .. 239 /\ c1 \in 128 .. 191 /\ c2 \in 128 .. 191
  BY DEF LeadOf3, Trail
<1> DEFINE s == <<c0, c1, c2>>
           cp == (c0 - 224) * 4096 + (c1 - 128) * 64 + (c2 - 128)
<1>1. s # <<>> /\ ~(3 > Len(s)) /\ s[1] = c0 /\ s[2] = c1 /\ s[3] = c2
  OBVIOUS
<1> HIDE DEF s
<1>2. Need(s[1]) = 3 /\ Payload(s[1]) = c0 - 224
  <2>1. Need(c0) = 3 /\ Payload(c0) = c0 - 224
    BY <1>0, FirstByte
  <2> QED
    BY <1>1, <2>1
<1>3. PointOf(s) = SixMore(SixMore(Payload(s[1]), s[2]), s[3])
  BY <1>2 DEF PointOf
<1>4. PointOf(s) = cp
  <2> DEFINE m1 == (c0 - 224) * 64 + (c1 - 128)
  <2>1. PointOf(s) = SixMore(SixMore(c0 - 224, c1), c2)
    BY <1>1, <1>2, <1>3
  <2>2. SixMore(c0 - 224, c1) = m1
    BY <1>0, LowSix DEF SixMore
  <2>3. SixMore(m1, c2) = m1 * 64 + (c2 - 128)
    BY <1>0, LowSix DEF SixMore
  <2>4. m1 * 64 + (c2 - 128) = cp
    BY <1>0
  <2> QED
    BY <2>1, <2>2, <2>3, <2>4
<1>5. ~Overlong(3, PointOf(s)) /\ ~(PointOf(s) > LastPoint) /\ PointOf(s) \notin Surrogates
  BY <1>0, <1>4 DEF Overlong, LastPoint, Surrogates, BadSecond
<1>6. \A i \in 2 .. 3 : IsContinuation(s[i])
  <2>1. IsContinuation(c1) /\ IsContinuation(c2)
    BY <1>0, ContinuationByte DEF Byte
  <2> QED
    BY <1>1, <2>1
<1>7. ~BadSecond(s[1], s[2])
  BY <1>1
<1>8. DecodeOne(s) = <<cp, 3>>
  BY <1>1, <1>2, <1>4, <1>5, <1>6, <1>7, Accepts
<1> QED
  BY <1>8 DEF s, PointOf3

LEMMA FourBytes ==
  ASSUME NEW c0 \in LeadOf4, NEW c1 \in Trail, NEW c2 \in Trail, NEW c3 \in Trail,
         ~BadSecond(c0, c1)
  PROVE DecodeOne(<<c0, c1, c2, c3>>) = <<PointOf4(c0, c1, c2, c3), 4>>
<1>0. c0 \in 240 .. 244 /\ c1 \in 128 .. 191 /\ c2 \in 128 .. 191 /\ c3 \in 128 .. 191
  BY DEF LeadOf4, Trail
<1> DEFINE s == <<c0, c1, c2, c3>>
           cp == (c0 - 240) * 262144 + (c1 - 128) * 4096 + (c2 - 128) * 64 + (c3 - 128)
<1>1. s # <<>> /\ ~(4 > Len(s)) /\ s[1] = c0 /\ s[2] = c1 /\ s[3] = c2 /\ s[4] = c3
  OBVIOUS
<1> HIDE DEF s
<1>2. Need(s[1]) = 4 /\ Payload(s[1]) = c0 - 240
  <2>1. Need(c0) = 4 /\ Payload(c0) = c0 - 240
    BY <1>0, FirstByte
  <2> QED
    BY <1>1, <2>1
<1>3. PointOf(s) = SixMore(SixMore(SixMore(Payload(s[1]), s[2]), s[3]), s[4])
  BY <1>2 DEF PointOf
<1>4. PointOf(s) = cp
  <2> DEFINE m1 == (c0 - 240) * 64 + (c1 - 128)
             m2 == m1 * 64 + (c2 - 128)
  <2>1. PointOf(s) = SixMore(SixMore(SixMore(c0 - 240, c1), c2), c3)
    BY <1>1, <1>2, <1>3
  <2>2. SixMore(c0 - 240, c1) = m1
    BY <1>0, LowSix DEF SixMore
  <2>3. SixMore(m1, c2) = m2
    BY <1>0, LowSix DEF SixMore
  <2>4. SixMore(m2, c3) = m2 * 64 + (c3 - 128)
    BY <1>0, LowSix DEF SixMore
  <2>5. m2 * 64 + (c3 - 128) = cp
    BY <1>0
  <2> QED
    BY <2>1, <2>2, <2>3, <2>4, <2>5
<1>5. ~Overlong(4, PointOf(s)) /\ ~(PointOf(s) > LastPoint) /\ PointOf(s) \notin Surrogates
  BY <1>0, <1>4 DEF Overlong, LastPoint, Surrogates, BadSecond
<1>6. \A i \in 2 .. 4 : IsContinuation(s[i])
  <2>1. IsContinuation(c1) /\ IsContinuation(c2) /\ IsContinuation(c3)
    BY <1>0, ContinuationByte DEF Byte
  <2> QED
    BY <1>1, <2>1
<1>7. ~BadSecond(s[1], s[2])
  BY <1>1
<1>8. DecodeOne(s) = <<cp, 4>>
  BY <1>1, <1>2, <1>4, <1>5, <1>6, <1>7, Accepts
<1> QED
  BY <1>8 DEF s, PointOf4

\* A bounded number, without the range that holds it.
LEMMA InRange ==
  ASSUME NEW n \in Nat, NEW cp \in 0 .. n PROVE cp \in Nat /\ cp <= n
OBVIOUS

LEMMA ScalarBounds ==
  ASSUME NEW cp, Scalar(cp)
  PROVE cp \in Nat /\ cp <= 1114111 /\ (cp < 55296 \/ cp > 57343)
<1>1. LastPoint \in Nat /\ cp \in 0 .. LastPoint
  <2>1. LastPoint \in Nat
    BY SMT DEF LastPoint
  <2> QED
    BY <2>1 DEF Scalar
<1>2. cp \in Nat /\ cp <= LastPoint
  BY <1>1, InRange
<1>3. LastPoint = 1114111
  BY SMT DEF LastPoint
<1>4. cp < 55296 \/ cp > 57343
  BY <1>2, SMT DEF Scalar, Surrogates
<1> QED
  BY <1>2, <1>3, <1>4, SMT

\* The digits of a code point to the base 64.
LEMMA Digits ==
  ASSUME NEW cp \in Nat
  PROVE /\ (cp \div 64) * 64 + (cp % 64) = cp
        /\ (cp \div 4096) * 4096 + ((cp \div 64) % 64) * 64 + (cp % 64) = cp
        /\ (cp \div 262144) * 262144 + ((cp \div 4096) % 64) * 4096
              + ((cp \div 64) % 64) * 64 + (cp % 64) = cp
BY SMT

\* What each continuation byte of an encoding holds.
LEMMA SixDigit ==
  ASSUME NEW cp \in Nat, NEW shift \in {1, 64, 4096}
  PROVE Six(cp, shift) \in 128 .. 191 /\ Six(cp, shift) - 128 = (cp \div shift) % 64
<1>1. CASE shift = 1
  BY <1>1, SMT DEF Six
<1>2. CASE shift = 64
  BY <1>2, SMT DEF Six
<1>3. CASE shift = 4096
  BY <1>3, SMT DEF Six
<1> QED
  BY <1>1, <1>2, <1>3

\* What utf8_encode_one writes for a scalar value is what utf8_decode_one reads,
\* to its last byte.
THEOREM EncodedDecodes ==
  ASSUME NEW cp, Scalar(cp) PROVE DecodeOne(EncodeOne(cp)) = <<cp, Len(EncodeOne(cp))>>
<1>1. cp \in Nat /\ cp <= 1114111 /\ (cp < 55296 \/ cp > 57343)
  BY ScalarBounds
<1>d. /\ cp \div 1 = cp
      /\ (cp \div 64) * 64 + (cp % 64) = cp
      /\ (cp \div 4096) * 4096 + ((cp \div 64) % 64) * 64 + (cp % 64) = cp
      /\ (cp \div 262144) * 262144 + ((cp \div 4096) % 64) * 4096
            + ((cp \div 64) % 64) * 64 + (cp % 64) = cp
  BY <1>1, SMT
<1>2. CASE cp <= 127
  <2>1. EncodeOne(cp) = <<cp>>
    BY <1>1, <1>2, SMT DEF EncodeOne
  <2>2. cp \in 0 .. 127
    BY <1>1, <1>2, SMT
  <2>3. DecodeOne(<<cp>>) = <<cp, 1>>
    BY <2>2, OneByte
  <2> QED
    BY <2>1, <2>3, SMT
<1>3. CASE cp > 127 /\ cp <= 2047
  <2> DEFINE c0 == 192 + cp \div 64
             c1 == Six(cp, 1)
  <2>1. EncodeOne(cp) = <<c0, c1>>
    BY <1>1, <1>3, SMT DEF EncodeOne
  <2>2. c0 \in 194 .. 223 /\ c0 - 192 = cp \div 64
    BY <1>1, <1>3, SMT
  <2>3. c1 \in 128 .. 191 /\ c1 - 128 = cp % 64
    BY <1>1, <1>d, SixDigit, SMT
  <2> HIDE DEF c0, c1
  <2>4. (c0 - 192) * 64 + (c1 - 128) = cp
    BY <1>d, <2>2, <2>3, SMT
  <2>5. DecodeOne(<<c0, c1>>) = <<(c0 - 192) * 64 + (c1 - 128), 2>>
    <3>1. c0 \in 194 .. 223 /\ c1 \in 128 .. 191
      BY <2>2, <2>3
    <3> QED
      BY <3>1, TwoBytes, Zenon
  <2>6. Len(<<c0, c1>>) = 2
    OBVIOUS
  <2> QED
    BY <2>1, <2>4, <2>5, <2>6
<1>4. CASE cp > 2047 /\ cp <= 65535
  <2> DEFINE c0 == 224 + cp \div 4096
             c1 == Six(cp, 64)
             c2 == Six(cp, 1)
  <2>1. EncodeOne(cp) = <<c0, c1, c2>>
    BY <1>1, <1>4, SMT DEF EncodeOne
  <2>2. c0 \in 224 .. 239 /\ c0 - 224 = cp \div 4096
    BY <1>1, <1>4, SMT
  <2>3. c1 \in 128 .. 191 /\ c1 - 128 = (cp \div 64) % 64
    BY <1>1, SixDigit, SMT
  <2>4. c2 \in 128 .. 191 /\ c2 - 128 = cp % 64
    BY <1>1, <1>d, SixDigit, SMT
  <2> HIDE DEF c0, c1, c2
  <2>5. (c0 - 224) * 4096 + (c1 - 128) * 64 + (c2 - 128) = cp
    BY <1>d, <2>2, <2>3, <2>4, SMT
  <2>6. ~BadSecond(c0, c1)
    <3>1. c0 = 224 => c1 >= 160
      BY <1>4, <2>2, <2>3, <2>4, <2>5, SMT
    <3>2. c0 = 237 => c1 < 160
      BY <1>1, <2>2, <2>3, <2>4, <2>5, SMT
    <3> QED
      BY <2>2, <2>3, <3>1, <3>2, SMT DEF BadSecond
  <2>7. DecodeOne(<<c0, c1, c2>>) = <<cp, 3>>
    <3>1. c0 \in LeadOf3 /\ c1 \in Trail /\ c2 \in Trail
      BY <2>2, <2>3, <2>4, SMT DEF LeadOf3, Trail
    <3>2. PointOf3(c0, c1, c2) = cp
      BY <2>5, SMT DEF PointOf3
    <3> QED
      BY <3>1, <3>2, <2>6, ThreeBytes
  <2>8. Len(<<c0, c1, c2>>) = 3
    OBVIOUS
  <2> QED
    BY <2>1, <2>7, <2>8
<1>5. CASE cp > 65535
  <2> DEFINE c0 == 240 + cp \div 262144
             c1 == Six(cp, 4096)
             c2 == Six(cp, 64)
             c3 == Six(cp, 1)
  <2>1. EncodeOne(cp) = <<c0, c1, c2, c3>>
    BY <1>1, <1>5, SMT DEF EncodeOne
  <2>2. c0 \in 240 .. 244 /\ c0 - 240 = cp \div 262144
    BY <1>1, <1>5, SMT
  <2>3. c1 \in 128 .. 191 /\ c1 - 128 = (cp \div 4096) % 64
    BY <1>1, SixDigit, SMT
  <2>4. c2 \in 128 .. 191 /\ c2 - 128 = (cp \div 64) % 64
    BY <1>1, SixDigit, SMT
  <2>5. c3 \in 128 .. 191 /\ c3 - 128 = cp % 64
    BY <1>1, <1>d, SixDigit, SMT
  <2> HIDE DEF c0, c1, c2, c3
  <2>6. (c0 - 240) * 262144 + (c1 - 128) * 4096 + (c2 - 128) * 64 + (c3 - 128) = cp
    BY <1>d, <2>2, <2>3, <2>4, <2>5, SMT
  <2>7. ~BadSecond(c0, c1)
    <3>1. c0 = 240 => c1 >= 144
      BY <1>5, <2>2, <2>3, <2>4, <2>5, <2>6, SMT
    <3>2. c0 = 244 => c1 < 144
      BY <1>1, <2>2, <2>3, <2>4, <2>5, <2>6, SMT
    <3> QED
      BY <2>2, <2>3, <3>1, <3>2, SMT DEF BadSecond
  <2>8. DecodeOne(<<c0, c1, c2, c3>>) = <<cp, 4>>
    <3>1. c0 \in LeadOf4 /\ c1 \in Trail /\ c2 \in Trail /\ c3 \in Trail
      BY <2>2, <2>3, <2>4, <2>5, SMT DEF LeadOf4, Trail
    <3>2. PointOf4(c0, c1, c2, c3) = cp
      BY <2>6, SMT DEF PointOf4
    <3> QED
      BY <3>1, <3>2, <2>7, FourBytes
  <2>9. Len(<<c0, c1, c2, c3>>) = 4
    OBVIOUS
  <2> QED
    BY <2>1, <2>8, <2>9
<1> QED
  BY <1>1, <1>2, <1>3, <1>4, <1>5, SMT

-----------------------------------------------------------------------------
(***************************************************************************)
(* From bytes to a code point and back.                                    *)
(***************************************************************************)
\* What the decoder has found of the bytes it accepts.
LEMMA AcceptedIsEncoded ==
  ASSUME NEW s \in Seq(Byte), DecodeOne(s) # <<>>
  PROVE /\ s # <<>> /\ Need(s[1]) # 0 /\ ~(Need(s[1]) > Len(s))
        /\ \A i \in 2 .. Need(s[1]) : IsContinuation(s[i])
        /\ ~Overlong(Need(s[1]), PointOf(s)) /\ ~(PointOf(s) > LastPoint)
        /\ PointOf(s) \notin Surrogates
        /\ DecodeOne(s) = <<PointOf(s), Need(s[1])>>
BY DEF DecodeOne

\* The first bytes, by the width they announce.
LEMMA Announces ==
  ASSUME NEW c0 \in Byte, Need(c0) # 0
  PROVE \/ c0 \in 0 .. 127 /\ Need(c0) = 1
        \/ c0 \in LeadOf2 /\ Need(c0) = 2
        \/ c0 \in LeadOf3 /\ Need(c0) = 3
        \/ c0 \in LeadOf4 /\ Need(c0) = 4
BY DEF Byte, Need, Lowest, LeadOf2, LeadOf3, LeadOf4

\* A byte of a string.
LEMMA ByteAt ==
  ASSUME NEW s \in Seq(Byte), NEW i \in 1 .. Len(s), IsContinuation(s[i])
  PROVE s[i] \in Trail
<1>1. s[i] \in Byte
  BY ElementOfSeq
<1> QED
  BY <1>1, ContinuationByte DEF Trail

PointOf2(c0, c1) == (c0 - 192) * 64 + (c1 - 128)

\* What the code points of two, three and four bytes are encoded as.
LEMMA EncodesTwo ==
  ASSUME NEW c0 \in LeadOf2, NEW c1 \in Trail
  PROVE EncodeOne(PointOf2(c0, c1)) = <<c0, c1>>
<1> DEFINE cp == PointOf2(c0, c1)
<1>1. c0 \in 194 .. 223 /\ c1 \in 128 .. 191
  BY DEF Trail, LeadOf2
<1>2. cp \in Nat /\ cp > 127 /\ cp <= 2047 /\ cp \div 64 = c0 - 192 /\ (cp \div 1) % 64 = c1 - 128
  BY <1>1, SMT DEF PointOf2
<1> HIDE DEF cp
<1>3. EncodeOne(cp) = <<192 + cp \div 64, Six(cp, 1)>>
  BY <1>2, SMT DEF EncodeOne
<1>4. 192 + cp \div 64 = c0 /\ Six(cp, 1) = c1
  BY <1>1, <1>2, SMT DEF Six
<1>5. EncodeOne(cp) = <<c0, c1>>
  BY <1>3, <1>4
<1> QED
  BY <1>5 DEF cp

LEMMA EncodesThree ==
  ASSUME NEW c0 \in LeadOf3, NEW c1 \in Trail, NEW c2 \in Trail, PointOf3(c0, c1, c2) >= 2048
  PROVE EncodeOne(PointOf3(c0, c1, c2)) = <<c0, c1, c2>>
<1> DEFINE cp == PointOf3(c0, c1, c2)
<1>1. c0 \in 224 .. 239 /\ c1 \in 128 .. 191 /\ c2 \in 128 .. 191
  BY DEF Trail, LeadOf3
<1>2. /\ cp \in Nat /\ cp > 2047 /\ cp <= 65535
      /\ cp \div 4096 = c0 - 224
      /\ (cp \div 64) % 64 = c1 - 128
      /\ (cp \div 1) % 64 = c2 - 128
  BY <1>1, SMT DEF PointOf3
<1> HIDE DEF cp
<1>3. EncodeOne(cp) = <<224 + cp \div 4096, Six(cp, 64), Six(cp, 1)>>
  BY <1>2, SMT DEF EncodeOne
<1>4. 224 + cp \div 4096 = c0 /\ Six(cp, 64) = c1 /\ Six(cp, 1) = c2
  BY <1>1, <1>2, SMT DEF Six
<1>5. EncodeOne(cp) = <<c0, c1, c2>>
  BY <1>3, <1>4
<1> QED
  BY <1>5 DEF cp

LEMMA EncodesFour ==
  ASSUME NEW c0 \in LeadOf4, NEW c1 \in Trail, NEW c2 \in Trail, NEW c3 \in Trail,
         PointOf4(c0, c1, c2, c3) >= 65536
  PROVE EncodeOne(PointOf4(c0, c1, c2, c3)) = <<c0, c1, c2, c3>>
<1> DEFINE cp == PointOf4(c0, c1, c2, c3)
<1>1. c0 \in 240 .. 244 /\ c1 \in 128 .. 191 /\ c2 \in 128 .. 191 /\ c3 \in 128 .. 191
  BY DEF Trail, LeadOf4
<1>2. /\ cp \in Nat /\ cp > 65535
      /\ cp \div 262144 = c0 - 240
      /\ (cp \div 4096) % 64 = c1 - 128
      /\ (cp \div 64) % 64 = c2 - 128
      /\ (cp \div 1) % 64 = c3 - 128
  <2> DEFINE a == c0 - 240   b == c1 - 128   c == c2 - 128   d == c3 - 128
  <2>1. a \in Nat /\ b \in 0 .. 63 /\ c \in 0 .. 63 /\ d \in 0 .. 63
    BY <1>1, SMT
  <2>2. cp = a * 262144 + b * 4096 + c * 64 + d
    BY SMT DEF PointOf4
  <2> HIDE DEF a, b, c, d
  <2>4. cp \in Nat
    BY <2>1, <2>2, SMT
  <2>3. cp > 65535
    BY <2>4, SMT
  <2> HIDE DEF cp
  <2>5. cp \div 262144 = a
    BY <2>1, <2>2, SMT
  <2>6. cp \div 4096 = a * 64 + b
    BY <2>1, <2>2, SMT
  <2>7. cp \div 64 = a * 4096 + b * 64 + c
    BY <2>1, <2>2, SMT
  <2>8. (cp \div 4096) % 64 = b /\ (cp \div 64) % 64 = c /\ (cp \div 1) % 64 = d
    BY <2>1, <2>2, <2>4, <2>6, <2>7, SMT
  <2> QED
    BY <2>3, <2>4, <2>5, <2>8, SMT DEF a, b, c, d
<1> HIDE DEF cp
<1>3. EncodeOne(cp) = <<240 + cp \div 262144, Six(cp, 4096), Six(cp, 64), Six(cp, 1)>>
  BY <1>2, SMT DEF EncodeOne
<1>4. 240 + cp \div 262144 = c0 /\ Six(cp, 4096) = c1 /\ Six(cp, 64) = c2 /\ Six(cp, 1) = c3
  BY <1>1, <1>2, SMT DEF Six
<1>5. EncodeOne(cp) = <<c0, c1, c2, c3>>
  BY <1>3, <1>4, SMT
<1> QED
  BY <1>5 DEF cp

\* A prefix of a string, byte by byte.
LEMMA FirstBytesOf ==
  ASSUME NEW s \in Seq(Byte), NEW n \in 1 .. 4, n <= Len(s)
  PROVE /\ n = 1 => SubSeq(s, 1, n) = <<s[1]>>
        /\ n = 2 => SubSeq(s, 1, n) = <<s[1], s[2]>>
        /\ n = 3 => SubSeq(s, 1, n) = <<s[1], s[2], s[3]>>
        /\ n = 4 => SubSeq(s, 1, n) = <<s[1], s[2], s[3], s[4]>>
<1> DEFINE t == SubSeq(s, 1, n)
<1>1. /\ t \in Seq(Byte) /\ Len(t) = n
      /\ \A i \in 1 .. n : t[i] = s[i]
  OBVIOUS
<1> HIDE DEF t
<1>2. /\ n = 1 => t = <<t[1]>>
      /\ n = 2 => t = <<t[1], t[2]>>
      /\ n = 3 => t = <<t[1], t[2], t[3]>>
      /\ n = 4 => t = <<t[1], t[2], t[3], t[4]>>
  BY <1>1
<1>3. /\ n = 1 => t = <<s[1]>>
      /\ n = 2 => t = <<s[1], s[2]>>
      /\ n = 3 => t = <<s[1], s[2], s[3]>>
      /\ n = 4 => t = <<s[1], s[2], s[3], s[4]>>
  BY <1>1, <1>2
<1> QED
  BY <1>3 DEF t

\* The code point in the first bytes, by their number.
LEMMA PointsByWidth ==
  ASSUME NEW s
  PROVE /\ Need(s[1]) = 1 => PointOf(s) = s[1]
        /\ Need(s[1]) = 2 => PointOf(s) = SixMore(Payload(s[1]), s[2])
        /\ Need(s[1]) = 3 => PointOf(s) = SixMore(SixMore(Payload(s[1]), s[2]), s[3])
        /\ Need(s[1]) = 4 => PointOf(s) = SixMore(SixMore(SixMore(Payload(s[1]), s[2]), s[3]), s[4])
BY DEF PointOf

LEMMA Leads ==
  /\ \A c0 \in LeadOf2 : Payload(c0) = c0 - 192
  /\ \A c0 \in LeadOf3 : Payload(c0) = c0 - 224
  /\ \A c0 \in LeadOf4 : Payload(c0) = c0 - 240
BY FirstByte DEF LeadOf2, LeadOf3, LeadOf4

LEMMA EncodesOneByte == \A c0 \in 0 .. 127 : c0 \in Nat /\ EncodeOne(c0) = <<c0>>
BY SMT DEF EncodeOne

\* What utf8_decode_one accepts is what utf8_encode_one writes for the scalar value
\* that was read: there is one spelling of each character.
THEOREM DecodedEncodes ==
  ASSUME NEW s \in Seq(Byte), DecodeOne(s) # <<>>
  PROVE /\ Scalar(DecodeOne(s)[1])
        /\ DecodeOne(s)[2] \in 1 .. Len(s)
        /\ EncodeOne(DecodeOne(s)[1]) = SubSeq(s, 1, DecodeOne(s)[2])
<1> DEFINE need == Need(s[1])
           cp == PointOf(s)
<1>1. /\ s # <<>> /\ need # 0 /\ ~(need > Len(s))
      /\ \A i \in 2 .. need : IsContinuation(s[i])
      /\ ~Overlong(need, cp) /\ ~(cp > LastPoint) /\ cp \notin Surrogates
      /\ DecodeOne(s) = <<cp, need>>
  BY AcceptedIsEncoded
<1>w. need = Need(s[1]) /\ cp = PointOf(s)
  OBVIOUS
<1> HIDE DEF need, cp
<1>2. Len(s) \in Nat /\ 1 \in 1 .. Len(s) /\ s[1] \in Byte
  <2>1. Len(s) \in Nat /\ Len(s) # 0
    BY <1>1
  <2>2. 1 \in 1 .. Len(s)
    BY <2>1
  <2> QED
    BY <2>1, <2>2, ElementOfSeq
<1>3. SUFFICES cp \in Nat /\ need \in 1 .. 4 /\ EncodeOne(cp) = SubSeq(s, 1, need)
  <2>1. ASSUME cp \in Nat PROVE Scalar(cp)
    <3>1. LastPoint \in Nat
      BY SMT DEF LastPoint
    <3>2. cp \in 0 .. LastPoint
      BY <1>1, <2>1, <3>1
    <3> QED
      BY <1>1, <3>2 DEF Scalar
  <2>2. ASSUME need \in 1 .. 4 PROVE need \in 1 .. Len(s)
    BY <1>1, <1>2, <2>2
  <2>3. DecodeOne(s)[1] = cp /\ DecodeOne(s)[2] = need
    BY <1>1
  <2> QED
    BY <2>1, <2>2, <2>3
<1>4. CASE s[1] \in 0 .. 127 /\ need = 1
  <2>1. cp = s[1]
    BY <1>4, <1>w, PointsByWidth
  <2>2. s[1] \in Nat /\ EncodeOne(s[1]) = <<s[1]>>
    BY <1>4, EncodesOneByte, Zenon
  <2>3. SubSeq(s, 1, 1) = <<s[1]>>
    BY <1>2, <1>4, FirstBytesOf
  <2> QED
    <3>1. EncodeOne(cp) = <<s[1]>>
      BY <2>1, <2>2, Zenon
    <3>2. SubSeq(s, 1, need) = <<s[1]>>
      BY <1>4, <2>3, Zenon
    <3>3. cp \in Nat
      BY <2>1, <2>2, Zenon
    <3>4. need \in 1 .. 4
      BY <1>4
    <3> QED
      BY <3>1, <3>2, <3>3, <3>4, Zenon
<1>5. CASE s[1] \in LeadOf2 /\ need = 2
  <2> DEFINE c0 == s[1]   c1 == s[2]
  <2>1. 2 \in 1 .. Len(s)
    BY <1>1, <1>2, <1>5
  <2>2. c1 \in Trail
    BY <1>1, <1>5, <2>1, ByteAt
  <2>3. cp = SixMore(Payload(c0), c1)
    BY <1>5, <1>w, PointsByWidth
  <2>4. SubSeq(s, 1, 2) = <<c0, c1>>
    BY <1>1, <1>2, <1>5, <2>1, FirstBytesOf
  <2> HIDE DEF c0, c1
  <2>5. c0 \in LeadOf2
    BY <1>5 DEF c0
  <2>p. Payload(c0) = c0 - 192
    BY <2>5, Leads
  <2>6. cp = PointOf2(c0, c1) /\ PointOf2(c0, c1) \in Nat
    <3>1. c0 \in 194 .. 223 /\ c1 \in 128 .. 191
      BY <2>2, <2>5 DEF Trail, LeadOf2
    <3>2. SixMore(c0 - 192, c1) = PointOf2(c0, c1)
      BY <3>1, LowSix DEF PointOf2, SixMore
    <3>3. PointOf2(c0, c1) \in Nat
      BY <3>1, SMT DEF PointOf2
    <3> QED
      BY <2>3, <2>p, <3>2, <3>3
  <2>7. EncodeOne(PointOf2(c0, c1)) = <<c0, c1>>
    BY <2>2, <2>5, EncodesTwo
  <2> QED
    <3>1. EncodeOne(cp) = <<c0, c1>>
      BY <2>6, <2>7, Zenon
    <3>2. SubSeq(s, 1, need) = <<c0, c1>>
      BY <1>5, <2>4, Zenon
    <3>3. cp \in Nat
      BY <2>6
    <3>4. need \in 1 .. 4
      BY <1>5
    <3> QED
      BY <3>1, <3>2, <3>3, <3>4, Zenon
<1>6. CASE s[1] \in LeadOf3 /\ need = 3
  <2> DEFINE c0 == s[1]   c1 == s[2]   c2 == s[3]
  <2>1. 2 \in 1 .. Len(s) /\ 3 \in 1 .. Len(s)
    BY <1>1, <1>2, <1>6
  <2>2. c1 \in Trail /\ c2 \in Trail
    BY <1>1, <1>6, <2>1, ByteAt
  <2>3. cp = SixMore(SixMore(Payload(c0), c1), c2)
    BY <1>6, <1>w, PointsByWidth
  <2>4. SubSeq(s, 1, 3) = <<c0, c1, c2>>
    BY <1>1, <1>2, <1>6, <2>1, FirstBytesOf
  <2>5. c0 \in LeadOf3
    BY <1>6
  <2> HIDE DEF c0, c1, c2
  <2>p. Payload(c0) = c0 - 224
    BY <2>5, Leads
  <2>6. cp = PointOf3(c0, c1, c2) /\ PointOf3(c0, c1, c2) \in Nat
    <3> DEFINE m1 == (c0 - 224) * 64 + (c1 - 128)
    <3>1. c0 \in 224 .. 239 /\ c1 \in 128 .. 191 /\ c2 \in 128 .. 191
      BY <2>2, <2>5 DEF Trail, LeadOf3
    <3>2. SixMore(c0 - 224, c1) = m1
      BY <3>1, LowSix DEF SixMore
    <3>3. SixMore(m1, c2) = m1 * 64 + (c2 - 128)
      BY <3>1, LowSix DEF SixMore
    <3>4. m1 * 64 + (c2 - 128) = PointOf3(c0, c1, c2) /\ PointOf3(c0, c1, c2) \in Nat
      BY <3>1, SMT DEF PointOf3
    <3> HIDE DEF m1
    <3> QED
      BY <2>3, <2>p, <3>2, <3>3, <3>4
  <2>7. PointOf3(c0, c1, c2) >= 2048
    BY <1>1, <1>6, <2>6, SMT DEF Overlong
  <2>8. EncodeOne(PointOf3(c0, c1, c2)) = <<c0, c1, c2>>
    BY <2>2, <2>5, <2>7, EncodesThree
  <2> QED
    <3>1. EncodeOne(cp) = <<c0, c1, c2>>
      BY <2>6, <2>8, Zenon
    <3>2. SubSeq(s, 1, need) = <<c0, c1, c2>>
      BY <1>6, <2>4, Zenon
    <3>3. cp \in Nat
      BY <2>6
    <3>4. need \in 1 .. 4
      BY <1>6
    <3> QED
      BY <3>1, <3>2, <3>3, <3>4, Zenon
<1>7. CASE s[1] \in LeadOf4 /\ need = 4
  <2> DEFINE c0 == s[1]   c1 == s[2]   c2 == s[3]   c3 == s[4]
  <2>1. 2 \in 1 .. Len(s) /\ 3 \in 1 .. Len(s) /\ 4 \in 1 .. Len(s)
    BY <1>1, <1>2, <1>7
  <2>2. c1 \in Trail /\ c2 \in Trail /\ c3 \in Trail
    BY <1>1, <1>7, <2>1, ByteAt
  <2>3. cp = SixMore(SixMore(SixMore(Payload(c0), c1), c2), c3)
    BY <1>7, <1>w, PointsByWidth
  <2>4. SubSeq(s, 1, 4) = <<c0, c1, c2, c3>>
    BY <1>1, <1>2, <1>7, <2>1, FirstBytesOf
  <2>5. c0 \in LeadOf4
    BY <1>7
  <2> HIDE DEF c0, c1, c2, c3
  <2>p. Payload(c0) = c0 - 240
    BY <2>5, Leads
  <2>6. cp = PointOf4(c0, c1, c2, c3) /\ PointOf4(c0, c1, c2, c3) \in Nat
    <3> DEFINE m1 == (c0 - 240) * 64 + (c1 - 128)
               m2 == m1 * 64 + (c2 - 128)
    <3>1. c0 \in 240 .. 244 /\ c1 \in 128 .. 191 /\ c2 \in 128 .. 191 /\ c3 \in 128 .. 191
      BY <2>2, <2>5 DEF Trail, LeadOf4
    <3>2. SixMore(c0 - 240, c1) = m1
      BY <3>1, LowSix DEF SixMore
    <3>3. SixMore(m1, c2) = m2
      BY <3>1, LowSix DEF SixMore
    <3>4. SixMore(m2, c3) = m2 * 64 + (c3 - 128)
      BY <3>1, LowSix DEF SixMore
    <3>5. m2 * 64 + (c3 - 128) = PointOf4(c0, c1, c2, c3) /\ PointOf4(c0, c1, c2, c3) \in Nat
      BY <3>1, SMT DEF PointOf4
    <3> HIDE DEF m1, m2
    <3> QED
      BY <2>3, <2>p, <3>2, <3>3, <3>4, <3>5
  <2>7. PointOf4(c0, c1, c2, c3) >= 65536
    BY <1>1, <1>7, <2>6, SMT DEF Overlong
  <2>8. EncodeOne(PointOf4(c0, c1, c2, c3)) = <<c0, c1, c2, c3>>
    BY <2>2, <2>5, <2>7, EncodesFour
  <2> QED
    <3>1. EncodeOne(cp) = <<c0, c1, c2, c3>>
      BY <2>6, <2>8, Zenon
    <3>2. SubSeq(s, 1, need) = <<c0, c1, c2, c3>>
      BY <1>7, <2>4, Zenon
    <3>3. cp \in Nat
      BY <2>6
    <3>4. need \in 1 .. 4
      BY <1>7
    <3> QED
      BY <3>1, <3>2, <3>3, <3>4, Zenon
<1> QED
  BY <1>1, <1>2, <1>4, <1>5, <1>6, <1>7, <1>w, Announces

-----------------------------------------------------------------------------
(***************************************************************************)
(* What is accepted is what Unicode's table lists.                         *)
(***************************************************************************)
\* The decoder looks at no byte behind those the first one announces.
LEMMA PrefixDecodes ==
  ASSUME NEW s \in Seq(Byte), NEW n \in 1 .. Len(s), NEW t, t = SubSeq(s, 1, n),
         DecodeOne(t) # <<>>
  PROVE DecodeOne(s) = DecodeOne(t)
<1>1. n \in 0 .. Len(s) /\ Len(s) \in Nat
  OBVIOUS
<1>2. t \in Seq(Byte) /\ Len(t) = n /\ \A i \in 1 .. n : t[i] = s[i]
  BY <1>1, PrefixFacts
<1>3. PICK need, cp : need = Need(t[1]) /\ cp = PointOf(t)
  OBVIOUS
<1>4. /\ need # 0 /\ ~(need > n)
      /\ \A i \in 2 .. need : IsContinuation(t[i])
      /\ ~Overlong(need, cp) /\ ~(cp > LastPoint)
      /\ cp \notin Surrogates /\ DecodeOne(t) = <<cp, need>>
      /\ ~(need > 1 /\ BadSecond(t[1], t[2]))
  BY <1>2, <1>3 DEF DecodeOne
<1>5. s # <<>> /\ t[1] = s[1] /\ t[1] \in Byte
  BY <1>1, <1>2
<1>6. need \in 1 .. 4
  BY <1>3, <1>4, <1>5, Announces
<1>7. \A i \in 1 .. need : t[i] = s[i]
  BY <1>1, <1>2, <1>4, <1>6
<1>8. PointOf(s) = cp
  <2>1. CASE need = 1
    BY <1>3, <1>5, <2>1, PointsByWidth
  <2>2. CASE need = 2
    <3>1. 2 \in 1 .. need
      BY <2>2
    <3>2. t[2] = s[2]
      BY <1>7, <3>1
    <3> QED
      BY <1>3, <1>5, <2>2, <3>2, PointsByWidth
  <2>3. CASE need = 3
    <3>1. 2 \in 1 .. need /\ 3 \in 1 .. need
      BY <2>3
    <3>2. t[2] = s[2] /\ t[3] = s[3]
      BY <1>7, <3>1
    <3> QED
      BY <1>3, <1>5, <2>3, <3>2, PointsByWidth
  <2>4. CASE need = 4
    <3>1. 2 \in 1 .. need /\ 3 \in 1 .. need /\ 4 \in 1 .. need
      BY <2>4
    <3>2. t[2] = s[2] /\ t[3] = s[3] /\ t[4] = s[4]
      BY <1>7, <3>1
    <3> QED
      BY <1>3, <1>5, <2>4, <3>2, PointsByWidth
  <2> QED
    BY <1>6, <2>1, <2>2, <2>3, <2>4
<1>9. ~(need > 1 /\ BadSecond(s[1], s[2]))
  <2>1. need > 1 => 2 \in 1 .. need
    BY <1>6
  <2>2. need > 1 => t[2] = s[2]
    BY <1>7, <2>1
  <2> QED
    BY <1>4, <1>5, <2>2
<1>10. \A i \in 2 .. need : IsContinuation(s[i])
  <2>1. \A i \in 2 .. need : i \in 1 .. need
    BY <1>6
  <2> QED
    BY <1>4, <1>7, <2>1
<1>11. ~(need > Len(s)) /\ Need(s[1]) = need
  BY <1>1, <1>3, <1>4, <1>5, <1>6
<1>12. DecodeOne(s) = <<cp, need>>
  BY <1>4, <1>5, <1>8, <1>9, <1>10, <1>11, Accepts
<1> QED
  BY <1>4, <1>12

\* The table, by the number of bytes.
LowOf(c0) == IF c0 = 224 THEN 160 ELSE IF c0 = 240 THEN 144 ELSE 128
HighOf(c0) == IF c0 = 237 THEN 159 ELSE IF c0 = 244 THEN 143 ELSE 191

LEMMA TableRows ==
  ASSUME NEW s
  PROVE /\ Len(s) = 1 => (WellFormed(s) <=> s[1] \in 0 .. 127)
        /\ Len(s) = 2 =>
               (WellFormed(s) <=> s[1] \in LeadOf2 /\ s[2] \in LowOf(s[1]) .. HighOf(s[1]))
        /\ Len(s) = 3 =>
               (WellFormed(s) <=> /\ s[1] \in LeadOf3 /\ s[2] \in LowOf(s[1]) .. HighOf(s[1])
                                  /\ s[3] \in Trail)
        /\ Len(s) = 4 =>
               (WellFormed(s) <=> /\ s[1] \in LeadOf4 /\ s[2] \in LowOf(s[1]) .. HighOf(s[1])
                                  /\ s[3] \in Trail /\ s[4] \in Trail)
<1>1. /\ 3 .. 2 = {} /\ 3 .. 3 = {3} /\ 3 .. 4 = {3, 4}
  OBVIOUS
<1>2. CASE Len(s) = 1
  BY <1>2 DEF WellFormed
<1>3. CASE Len(s) = 2
  BY <1>1, <1>3 DEF WellFormed, LowOf, HighOf, LeadOf2
<1>4. CASE Len(s) = 3
  BY <1>1, <1>4 DEF WellFormed, LowOf, HighOf, LeadOf3, Trail
<1>5. CASE Len(s) = 4
  BY <1>1, <1>5 DEF WellFormed, LowOf, HighOf, LeadOf4, Trail
<1> QED
  BY <1>2, <1>3, <1>4, <1>5

\* The second bytes of the table are those the decoder does not refuse.
LEMMA SecondBytes ==
  /\ \A c0 \in LeadOf2 : \A c1 : c1 \in LowOf(c0) .. HighOf(c0) <=> c1 \in Trail
  /\ \A c0 \in LeadOf2 : \A c1 \in Trail : ~BadSecond(c0, c1)
  /\ \A c0 \in LeadOf3 \cup LeadOf4 : \A c1 :
         c1 \in LowOf(c0) .. HighOf(c0) <=> c1 \in Trail /\ ~BadSecond(c0, c1)
<1>1. /\ \A c0 \in LeadOf2 : \A c1 : c1 \in LowOf(c0) .. HighOf(c0) <=> c1 \in Trail
      /\ \A c0 \in LeadOf2 : \A c1 \in Trail : ~BadSecond(c0, c1)
  BY DEF LeadOf2, LowOf, HighOf, Trail, BadSecond
<1>2. ASSUME NEW c0 \in LeadOf3, NEW c1
      PROVE c1 \in LowOf(c0) .. HighOf(c0) <=> c1 \in Trail /\ ~BadSecond(c0, c1)
  BY DEF LeadOf3, LowOf, HighOf, Trail, BadSecond
<1>3. ASSUME NEW c0 \in LeadOf4, NEW c1
      PROVE c1 \in LowOf(c0) .. HighOf(c0) <=> c1 \in Trail /\ ~BadSecond(c0, c1)
  BY DEF LeadOf4, LowOf, HighOf, Trail, BadSecond
<1> QED
  BY <1>1, <1>2, <1>3

\* The first n bytes are one character by the table.
Begins(s, n) == n \in 1 .. 4 /\ n <= Len(s) /\ WellFormed(SubSeq(s, 1, n))

LEMMA BeginsDecodes ==
  ASSUME NEW s \in Seq(Byte), NEW n, Begins(s, n)
  PROVE DecodeOne(s) # <<>> /\ DecodeOne(s)[2] = n
<1>1. n \in 1 .. 4 /\ n <= Len(s) /\ Len(s) \in Nat /\ n \in 1 .. Len(s) /\ n \in 0 .. Len(s)
  BY DEF Begins
<1>2. PICK t : t = SubSeq(s, 1, n)
  OBVIOUS
<1>3. WellFormed(t) /\ Len(t) = n
  BY <1>1, <1>2, PrefixFacts DEF Begins
<1>4. SUFFICES \E cp : DecodeOne(t) = <<cp, n>>
  <2>1. PICK cp : DecodeOne(t) = <<cp, n>>
    BY <1>4
  <2>2. DecodeOne(t) # <<>> /\ DecodeOne(t)[2] = n
    BY <2>1
  <2>3. DecodeOne(s) = DecodeOne(t)
    BY <1>1, <1>2, <2>2, PrefixDecodes
  <2> QED
    BY <2>2, <2>3
<1>5. CASE n = 1
  <2>1. PICK a : a = s[1]
    OBVIOUS
  <2>2. t = <<a>>
    BY <1>1, <1>2, <1>5, <2>1, FirstBytesOf
  <2>3. t[1] = a
    BY <2>2
  <2>4. a \in 0 .. 127
    BY <1>3, <1>5, <2>3, TableRows
  <2> QED
    BY <1>5, <2>2, <2>4, OneByte
<1>6. CASE n = 2
  <2>1. PICK a, b : a = s[1] /\ b = s[2]
    OBVIOUS
  <2>2. t = <<a, b>>
    BY <1>1, <1>2, <1>6, <2>1, FirstBytesOf
  <2>3. t[1] = a /\ t[2] = b
    BY <2>2
  <2>4. a \in LeadOf2 /\ b \in Trail
    BY <1>3, <1>6, <2>3, TableRows, SecondBytes
  <2>5. a \in 194 .. 223 /\ b \in 128 .. 191
    BY <2>4 DEF LeadOf2, Trail
  <2>6. DecodeOne(<<a, b>>) = <<(a - 192) * 64 + (b - 128), 2>>
    BY <2>5, TwoBytes
  <2> QED
    BY <1>6, <2>2, <2>6
<1>7. CASE n = 3
  <2>1. PICK a, b, c : a = s[1] /\ b = s[2] /\ c = s[3]
    OBVIOUS
  <2>2. t = <<a, b, c>>
    BY <1>1, <1>2, <1>7, <2>1, FirstBytesOf
  <2>3. t[1] = a /\ t[2] = b /\ t[3] = c
    BY <2>2
  <2>4. a \in LeadOf3 /\ b \in Trail /\ c \in Trail /\ ~BadSecond(a, b)
    BY <1>3, <1>7, <2>3, TableRows, SecondBytes
  <2>5. DecodeOne(<<a, b, c>>) = <<PointOf3(a, b, c), 3>>
    BY <2>4, ThreeBytes
  <2> QED
    BY <1>7, <2>2, <2>5
<1>8. CASE n = 4
  <2>1. PICK a, b, c, d : a = s[1] /\ b = s[2] /\ c = s[3] /\ d = s[4]
    OBVIOUS
  <2>2. t = <<a, b, c, d>>
    BY <1>1, <1>2, <1>8, <2>1, FirstBytesOf
  <2>3. t[1] = a /\ t[2] = b /\ t[3] = c /\ t[4] = d
    BY <2>2
  <2>4. a \in LeadOf4 /\ b \in Trail /\ c \in Trail /\ d \in Trail /\ ~BadSecond(a, b)
    BY <1>3, <1>8, <2>3, TableRows, SecondBytes
  <2>5. DecodeOne(<<a, b, c, d>>) = <<PointOf4(a, b, c, d), 4>>
    BY <2>4, FourBytes
  <2> QED
    BY <1>8, <2>2, <2>5
<1> QED
  BY <1>1, <1>5, <1>6, <1>7, <1>8

LEMMA DecodesBegins ==
  ASSUME NEW s \in Seq(Byte), DecodeOne(s) # <<>>
  PROVE Begins(s, DecodeOne(s)[2])
<1>1. PICK n, cp : n = Need(s[1]) /\ cp = PointOf(s)
  OBVIOUS
<1>2. /\ s # <<>> /\ n # 0 /\ ~(n > Len(s))
      /\ \A i \in 2 .. n : IsContinuation(s[i])
      /\ DecodeOne(s) = <<cp, n>> /\ ~(n > 1 /\ BadSecond(s[1], s[2]))
  BY <1>1 DEF DecodeOne
<1>3. Len(s) \in Nat /\ s[1] \in Byte
  BY <1>2
<1>4. /\ n \in 1 .. 4
      /\ n = 1 => s[1] \in 0 .. 127
      /\ n = 2 => s[1] \in LeadOf2
      /\ n = 3 => s[1] \in LeadOf3
      /\ n = 4 => s[1] \in LeadOf4
  <2>1. PICK a : a = s[1]
    OBVIOUS
  <2>2. a \in Byte /\ Need(a) # 0 /\ Need(a) = n
    BY <1>1, <1>2, <1>3, <2>1
  <2>3. \/ a \in 0 .. 127 /\ n = 1
        \/ a \in LeadOf2 /\ n = 2
        \/ a \in LeadOf3 /\ n = 3
        \/ a \in LeadOf4 /\ n = 4
    BY <2>2, Announces
  <2> QED
    BY <2>1, <2>3
<1>5. n \in 1 .. Len(s) /\ n \in 0 .. Len(s) /\ n <= Len(s)
  BY <1>2, <1>3, <1>4
<1>6. PICK t : t = SubSeq(s, 1, n)
  OBVIOUS
<1>7. Len(t) = n /\ \A i \in 1 .. n : t[i] = s[i]
  BY <1>5, <1>6, PrefixFacts
<1>8. \A i \in 2 .. n : t[i] \in Trail
  <2> SUFFICES ASSUME NEW i \in 2 .. n PROVE t[i] \in Trail
    OBVIOUS
  <2>1. i \in 1 .. Len(s) /\ i \in 1 .. n /\ IsContinuation(s[i])
    BY <1>2, <1>3, <1>5
  <2> QED
    BY <1>7, <2>1, ByteAt
<1>9. 1 \in 1 .. n /\ t[1] = s[1]
  BY <1>4, <1>7
<1>10. WellFormed(t)
  <2>1. CASE n = 1
    <3>1. t[1] \in 0 .. 127
      BY <1>4, <1>9, <2>1
    <3> QED
      BY <1>7, <2>1, <3>1, TableRows
  <2>2. CASE n = 2
    <3>1. t[1] \in LeadOf2
      BY <1>4, <1>9, <2>2
    <3>2. 2 \in 2 .. n
      BY <2>2
    <3>3. t[2] \in Trail
      BY <1>8, <3>2
    <3> QED
      BY <1>7, <2>2, <3>1, <3>3, TableRows, SecondBytes
  <2>3. CASE n = 3
    <3>1. t[1] \in LeadOf3
      BY <1>4, <1>9, <2>3
    <3>2. 2 \in 2 .. n /\ 3 \in 2 .. n /\ 2 \in 1 .. n /\ n > 1
      BY <2>3
    <3>3. t[2] \in Trail /\ t[3] \in Trail
      BY <1>8, <3>2
    <3>4. ~BadSecond(t[1], t[2])
      BY <1>2, <1>7, <1>9, <3>2
    <3> QED
      BY <1>7, <2>3, <3>1, <3>3, <3>4, TableRows, SecondBytes
  <2>4. CASE n = 4
    <3>1. t[1] \in LeadOf4
      BY <1>4, <1>9, <2>4
    <3>2. 2 \in 2 .. n /\ 3 \in 2 .. n /\ 4 \in 2 .. n /\ 2 \in 1 .. n /\ n > 1
      BY <2>4
    <3>3. t[2] \in Trail /\ t[3] \in Trail /\ t[4] \in Trail
      BY <1>8, <3>2
    <3>4. ~BadSecond(t[1], t[2])
      BY <1>2, <1>7, <1>9, <3>2
    <3> QED
      BY <1>7, <2>4, <3>1, <3>3, <3>4, TableRows, SecondBytes
  <2> QED
    BY <1>4, <2>1, <2>2, <2>3, <2>4
<1>11. DecodeOne(s)[2] = n
  BY <1>2
<1> QED
  BY <1>4, <1>5, <1>6, <1>10, <1>11 DEF Begins

\* What the bytes from place i on are.
From(s, i) == SubSeq(s, i + 1, Len(s))

LEMMA FromFacts ==
  ASSUME NEW s \in Seq(Byte), NEW i \in 0 .. Len(s)
  PROVE /\ From(s, i) \in Seq(Byte) /\ Len(From(s, i)) = Len(s) - i
        /\ \A n \in 0 .. Len(s) - i : SubSeq(From(s, i), 1, n) = SubSeq(s, i + 1, i + n)
<1>1. PICK r : r = From(s, i)
  OBVIOUS
<1>2. /\ r \in Seq(Byte) /\ Len(r) = Len(s) - i
      /\ \A j \in 1 .. Len(s) - i : r[j] = s[i + j]
  BY <1>1, SuffixFacts DEF From
<1>3. ASSUME NEW n \in 0 .. Len(s) - i PROVE SubSeq(r, 1, n) = SubSeq(s, i + 1, i + n)
  <2>1. PICK m, k : m = i + 1 /\ k = i + n
    OBVIOUS
  <2>2. Len(s) \in Nat /\ n \in 0 .. Len(r) /\ \A j \in m .. k : j \in 1 .. Len(s)
    BY <1>2, <2>1
  <2>3. \A j \in m .. k : s[j] \in Byte
    BY <2>2, ElementOfSeq
  <2>4. PICK t, u : t = SubSeq(r, 1, n) /\ u = SubSeq(s, m, k)
    OBVIOUS
  <2>5. t \in Seq(Byte) /\ Len(t) = n /\ \A j \in 1 .. n : t[j] = r[j]
    BY <1>2, <2>2, <2>4, PrefixFacts
  <2>6. /\ u \in Seq(Byte) /\ Len(u) = IF m <= k THEN k - m + 1 ELSE 0
        /\ \A j \in 1 .. k - m + 1 : u[j] = s[m + j - 1]
    BY <2>1, <2>2, <2>3, <2>4, SubSeqProperties
  <2>7. Len(u) = n /\ \A j \in 1 .. n : u[j] = s[i + j]
    BY <2>1, <2>2, <2>6
  <2>8. \A j \in 1 .. n : r[j] = s[i + j]
    BY <1>2, <2>2
  <2>9. \A j \in 1 .. n : t[j] = u[j]
    BY <2>5, <2>7, <2>8
  <2>10. t = u
    BY <2>5, <2>6, <2>7, <2>9, SeqEqual
  <2> QED
    BY <2>1, <2>4, <2>10
<1> QED
  BY <1>1, <1>2, <1>3

\* The characters that begin at a place are the one that is decoded there, or none.
LEMMA CharactersAt ==
  ASSUME NEW s \in Seq(Byte), NEW i \in 0 .. Len(s)
  PROVE /\ DecodeOne(From(s, i)) = <<>> => WellFormedFrom(s, i) = {}
        /\ DecodeOne(From(s, i)) # <<>> => WellFormedFrom(s, i) = {DecodeOne(From(s, i))[2]}
<1>1. PICK r, d : r = From(s, i) /\ d = DecodeOne(r)
  OBVIOUS
<1>2. /\ r \in Seq(Byte) /\ Len(r) = Len(s) - i
      /\ \A n \in 0 .. Len(s) - i : SubSeq(r, 1, n) = SubSeq(s, i + 1, i + n)
  BY <1>1, FromFacts
<1>3. \A n : n \in WellFormedFrom(s, i) <=> Begins(r, n)
  <2> SUFFICES ASSUME NEW n \in 1 .. 4
               PROVE n \in WellFormedFrom(s, i) <=> Begins(r, n)
    BY DEF WellFormedFrom, Begins
  <2>1. i + n <= Len(s) <=> n <= Len(r)
    BY <1>2
  <2>2. n <= Len(r) => n \in 0 .. Len(s) - i
    BY <1>2
  <2> QED
    BY <1>2, <2>1, <2>2 DEF WellFormedFrom, Begins
<1>4. \A n : Begins(r, n) => d # <<>> /\ d[2] = n
  BY <1>1, <1>2, BeginsDecodes
<1>5. d # <<>> => Begins(r, d[2])
  BY <1>1, <1>2, DecodesBegins
<1>6. d = <<>> => WellFormedFrom(s, i) = {}
  BY <1>3, <1>4
<1>7. d # <<>> => WellFormedFrom(s, i) = {d[2]}
  BY <1>3, <1>4, <1>5
<1> QED
  BY <1>1, <1>6, <1>7

\* w is the width of the character at each place, 0 where none is.
WidthsOf(w, s) ==
  /\ w \in [0 .. Len(s) -> 0 .. 4]
  /\ \A i \in 0 .. Len(s) :
         /\ w[i] <= Len(s) - i
         /\ w[i] = 0 <=> DecodeOne(From(s, i)) = <<>>
         /\ w[i] # 0 => DecodeOne(From(s, i))[2] = w[i]
         /\ \A n : n \in WellFormedFrom(s, i) <=> n = w[i] /\ n # 0

LEMMA Widths ==
  ASSUME NEW s \in Seq(Byte) PROVE \E w : WidthsOf(w, s)
<1> DEFINE W(i) == IF DecodeOne(From(s, i)) = <<>> THEN 0 ELSE DecodeOne(From(s, i))[2]
           w == [i \in 0 .. Len(s) |-> W(i)]
<1>1. Len(s) \in Nat
  OBVIOUS
<1>2. ASSUME NEW i \in 0 .. Len(s)
      PROVE /\ W(i) \in 0 .. 4 /\ W(i) <= Len(s) - i
            /\ W(i) = 0 <=> DecodeOne(From(s, i)) = <<>>
            /\ W(i) # 0 => DecodeOne(From(s, i))[2] = W(i)
            /\ \A n : n \in WellFormedFrom(s, i) <=> n = W(i) /\ n # 0
  <2>1. PICK r, d, v : r = From(s, i) /\ d = DecodeOne(r) /\ v = W(i)
    OBVIOUS
  <2>2. r \in Seq(Byte) /\ Len(r) = Len(s) - i
    BY <2>1, FromFacts
  <2>3. v = IF d = <<>> THEN 0 ELSE d[2]
    BY <2>1
  <2>4. d # <<>> => d[2] \in 1 .. 4 /\ d[2] <= Len(r)
    BY <2>1, <2>2, DecodesBegins DEF Begins
  <2>5. /\ d = <<>> => WellFormedFrom(s, i) = {}
        /\ d # <<>> => WellFormedFrom(s, i) = {d[2]}
    BY <2>1, CharactersAt
  <2> HIDE DEF W
  <2>6. /\ v \in 0 .. 4 /\ v <= Len(s) - i
        /\ v = 0 <=> d = <<>>
        /\ v # 0 => d[2] = v
    BY <1>1, <2>2, <2>3, <2>4
  <2>7. \A n : n \in WellFormedFrom(s, i) <=> n = v /\ n # 0
    BY <2>3, <2>4, <2>5, <2>6
  <2> QED
    BY <2>1, <2>6, <2>7
<1> HIDE DEF W
<1>3. w \in [0 .. Len(s) -> 0 .. 4] /\ \A i \in 0 .. Len(s) : w[i] = W(i)
  BY <1>2
<1> HIDE DEF w
<1>4. WidthsOf(w, s)
  BY <1>2, <1>3 DEF WidthsOf
<1> QED
  BY <1>4

\* f says where the first place is at which w is 0, if not behind N.
Scans(f, w, N) ==
  \A i \in Nat : f[i] = IF i >= N THEN <<>> ELSE IF w[i] = 0 THEN <<i>> ELSE f[i + w[i]]

LEMMA ScanExists ==
  ASSUME NEW N \in Nat, NEW w \in [0 .. N -> 0 .. 4], \A i \in 0 .. N : w[i] <= N - i
  PROVE \E f : DOMAIN f = Nat /\ Scans(f, w, N) /\ f = [i \in Nat |-> f[i]]
<1> DEFINE S == Seq(Nat)
           H == [0 .. N -> S]
           Value(k, h) == IF k = 0 THEN <<>> ELSE IF w[N - k] = 0 THEN <<N - k>> ELSE h[k - w[N - k]]
           rule == [k \in 0 .. N |-> [h \in H |-> Value(k, h)]]
<1>1. \A k \in 0 .. N : N - k \in 0 .. N /\ w[N - k] \in 0 .. 4 /\ w[N - k] <= k
  <2> SUFFICES ASSUME NEW k \in 0 .. N
               PROVE N - k \in 0 .. N /\ w[N - k] \in 0 .. 4 /\ w[N - k] <= k
    OBVIOUS
  <2>1. PICK i : i = N - k
    OBVIOUS
  <2>2. i \in 0 .. N
    BY <2>1
  <2>3. w[i] \in 0 .. 4 /\ w[i] <= N - i
    BY <2>2
  <2>4. N - i = k
    BY <2>1
  <2> QED
    BY <2>1, <2>2, <2>3, <2>4
<1>2. \A k \in 1 .. N : w[N - k] # 0 => k - w[N - k] \in 0 .. k - 1
  <2> SUFFICES ASSUME NEW k \in 1 .. N, w[N - k] # 0 PROVE k - w[N - k] \in 0 .. k - 1
    OBVIOUS
  <2>1. PICK v : v = w[N - k]
    OBVIOUS
  <2>2. v \in 0 .. 4 /\ v <= k /\ v # 0
    BY <1>1, <2>1
  <2>3. k - v \in 0 .. k - 1
    BY <2>2
  <2> QED
    BY <2>1, <2>3
<1>3. <<>> \in S /\ \A k \in 0 .. N : <<N - k>> \in S
  OBVIOUS
<1>4. ASSUME NEW k \in 0 .. N, NEW h \in H PROVE Value(k, h) \in S
  <2>1. CASE k = 0
    BY <1>3, <2>1
  <2>2. CASE k # 0
    <3>1. k \in 1 .. N
      BY <2>2
    <3>2. w[N - k] # 0 => k - w[N - k] \in 0 .. N
      BY <1>2, <3>1
    <3>3. w[N - k] # 0 => h[k - w[N - k]] \in S
      BY <3>2
    <3> HIDE DEF S
    <3> QED
      BY <1>3, <2>2, <3>3
  <2> QED
    BY <2>1, <2>2
<1>5. ASSUME NEW k \in 0 .. N, NEW f \in H, NEW g \in H, \A j \in 0 .. k - 1 : f[j] = g[j]
      PROVE Value(k, f) = Value(k, g)
  <2>1. CASE k = 0
    BY <2>1
  <2>2. CASE k # 0
    <3>1. k \in 1 .. N
      BY <2>2
    <3>2. w[N - k] # 0 => k - w[N - k] \in 0 .. k - 1
      BY <1>2, <3>1
    <3>3. w[N - k] # 0 => f[k - w[N - k]] = g[k - w[N - k]]
      BY <1>5, <3>2
    <3> QED
      BY <2>2, <3>3
  <2> QED
    BY <2>1, <2>2
<1> HIDE DEF Value
<1>6. rule \in [0 .. N -> [H -> S]] /\ \A k \in 0 .. N : \A h \in H : rule[k][h] = Value(k, h)
  <2> HIDE DEF H, S
  <2> QED
    BY <1>4
<1> HIDE DEF rule
<1>7. LooksBack(rule, N, S)
  <2>1. \A k \in 0 .. N : \A f, g \in H :
            (\A j \in 0 .. k - 1 : f[j] = g[j]) => rule[k][f] = rule[k][g]
    <3> HIDE DEF H, S
    <3> QED
      BY <1>5, <1>6
  <2> QED
    BY <1>6, <2>1 DEF LooksBack
<1> HIDE DEF S
<1>8. PICK h \in [0 .. N -> S] : \A k \in 0 .. N : h[k] = rule[k][h]
  BY <1>3, <1>7, CourseOfValues
<1>9. \A k \in 0 .. N : h[k] = Value(k, h)
  BY <1>6, <1>8
<1> DEFINE f == [i \in Nat |-> IF i >= N THEN <<>> ELSE h[N - i]]
<1>10. DOMAIN f = Nat /\ f = [i \in Nat |-> f[i]]
       /\ \A i \in Nat : f[i] = IF i >= N THEN <<>> ELSE h[N - i]
  OBVIOUS
<1> HIDE DEF f
<1>11. h[0] = <<>>
  BY <1>9 DEF Value
<1>12. ASSUME NEW i \in Nat
       PROVE f[i] = IF i >= N THEN <<>> ELSE IF w[i] = 0 THEN <<i>> ELSE f[i + w[i]]
  <2>1. CASE i >= N
    BY <1>10, <2>1
  <2>2. CASE ~(i >= N)
    <3>1. PICK k : k = N - i
      OBVIOUS
    <3>2. k \in 0 .. N /\ k # 0 /\ N - k = i /\ i \in 0 .. N
      BY <2>2, <3>1
    <3>3. f[i] = h[k]
      BY <1>10, <2>2, <3>1
    <3>4. h[k] = IF w[i] = 0 THEN <<i>> ELSE h[k - w[i]]
      BY <1>9, <3>2 DEF Value
    <3>5. ASSUME w[i] # 0 PROVE h[k - w[i]] = f[i + w[i]]
      <4>1. PICK v : v = w[i]
        OBVIOUS
      <4>2. v \in 0 .. 4 /\ v <= N - i
        BY <3>2, <4>1
      <4>3. CASE i + v >= N
        <5>1. k - v = 0
          BY <3>1, <4>2, <4>3
        <5>2. f[i + v] = <<>>
          BY <1>10, <4>2, <4>3
        <5> QED
          BY <1>11, <4>1, <5>1, <5>2
      <4>4. CASE ~(i + v >= N)
        <5>1. i + v \in Nat /\ N - (i + v) = k - v
          BY <3>1, <4>2
        <5>2. f[i + v] = h[k - v]
          BY <1>10, <4>4, <5>1
        <5> QED
          BY <4>1, <5>2
      <4> QED
        BY <4>3, <4>4
    <3> QED
      BY <2>2, <3>3, <3>4, <3>5
  <2> QED
    BY <2>1, <2>2
<1>13. Scans(f, w, N)
  BY <1>12 DEF Scans
<1> QED
  BY <1>10, <1>13

\* The offset utf8_validate reports is found by such a scan.
LEMMA OffsetScans ==
  ASSUME NEW s \in Seq(Byte), NEW w, WidthsOf(w, s)
  PROVE \E f : Scans(f, w, Len(s)) /\ ErrorOffset(s) = f[0]
<1> DEFINE N == Len(s)
           Def(f) == f = [i \in Nat |->
                             IF i >= Len(s) THEN <<>>
                             ELSE LET d == DecodeOne(SubSeq(s, i + 1, Len(s)))
                                  IN  IF d = <<>> THEN <<i>> ELSE f[i + d[2]]]
           at == CHOOSE f : Def(f)
<1>1. ErrorOffset(s) = at[0]
  BY Zenon DEF ErrorOffset
<1>2. /\ N \in Nat /\ w \in [0 .. N -> 0 .. 4]
      /\ \A i \in 0 .. N : w[i] <= N - i
      /\ \A i \in 0 .. N : w[i] = 0 <=> DecodeOne(From(s, i)) = <<>>
      /\ \A i \in 0 .. N : w[i] # 0 => DecodeOne(From(s, i))[2] = w[i]
  BY DEF WidthsOf
<1>3. PICK f : DOMAIN f = Nat /\ Scans(f, w, N) /\ f = [i \in Nat |-> f[i]]
  <2> HIDE DEF N
  <2> QED
    BY <1>2, ScanExists
<1>4. ASSUME NEW g, NEW i \in Nat
      PROVE (IF i >= Len(s) THEN <<>>
             ELSE LET d == DecodeOne(SubSeq(s, i + 1, Len(s)))
                  IN  IF d = <<>> THEN <<i>> ELSE g[i + d[2]])
            = (IF i >= N THEN <<>> ELSE IF w[i] = 0 THEN <<i>> ELSE g[i + w[i]])
  <2>1. CASE i >= N
    BY <2>1
  <2>2. CASE ~(i >= N)
    <3>1. i \in 0 .. N
      BY <1>2, <2>2
    <3>2. PICK d : d = DecodeOne(From(s, i))
      OBVIOUS
    <3>3. (w[i] = 0 <=> d = <<>>) /\ (w[i] # 0 => d[2] = w[i])
      BY <1>2, <3>1, <3>2
    <3>4. DecodeOne(SubSeq(s, i + 1, Len(s))) = d
      BY <3>2 DEF From
    <3>5. (IF d = <<>> THEN <<i>> ELSE g[i + d[2]]) = (IF w[i] = 0 THEN <<i>> ELSE g[i + w[i]])
      BY <3>3
    <3> QED
      BY <2>2, <3>4, <3>5
  <2> QED
    BY <2>1, <2>2
<1>5. Def(f)
  <2>1. \A i \in Nat : f[i] = IF i >= N THEN <<>> ELSE IF w[i] = 0 THEN <<i>> ELSE f[i + w[i]]
    BY <1>3 DEF Scans
  <2>2. ASSUME NEW i \in Nat
        PROVE f[i] = IF i >= Len(s) THEN <<>>
                     ELSE LET d == DecodeOne(SubSeq(s, i + 1, Len(s)))
                          IN  IF d = <<>> THEN <<i>> ELSE f[i + d[2]]
    <3>1. f[i] = IF i >= N THEN <<>> ELSE IF w[i] = 0 THEN <<i>> ELSE f[i + w[i]]
      BY <2>1
    <3> QED
      BY <3>1, <1>4, Zenon
  <2> QED
    BY <1>3, <2>2, Zenon
<1> HIDE DEF Def
<1>6. Def(at)
  BY <1>5, Zenon
<1>7. PICK g : g = at
  OBVIOUS
<1> HIDE DEF at
<1>8. g = [i \in Nat |->
              IF i >= Len(s) THEN <<>>
              ELSE LET d == DecodeOne(SubSeq(s, i + 1, Len(s)))
                   IN  IF d = <<>> THEN <<i>> ELSE g[i + d[2]]]
  BY <1>6, <1>7, Zenon DEF Def
<1>9. \A i \in Nat : g[i] = IF i >= N THEN <<>> ELSE IF w[i] = 0 THEN <<i>> ELSE g[i + w[i]]
  <2> SUFFICES ASSUME NEW i \in Nat
               PROVE g[i] = IF i >= N THEN <<>> ELSE IF w[i] = 0 THEN <<i>> ELSE g[i + w[i]]
    OBVIOUS
  <2>1. g[i] = IF i >= Len(s) THEN <<>>
               ELSE LET d == DecodeOne(SubSeq(s, i + 1, Len(s)))
                    IN  IF d = <<>> THEN <<i>> ELSE g[i + d[2]]
    BY <1>8, Zenon
  <2> QED
    BY <1>4, <2>1, Zenon
<1>10. Scans(g, w, Len(s))
  BY <1>9 DEF Scans
<1> QED
  BY <1>1, <1>7, <1>10

\* st holds at 0 and moves on over characters.
MovesOn(st, w, N) == st[0] /\ \A i \in 0 .. N : st[i] /\ w[i] # 0 => st[i + w[i]]

Sound(x, st, w, N) ==
  \/ x = <<>> /\ st[N]
  \/ \E e \in 0 .. N : x = <<e>> /\ st[e] /\ w[e] = 0

\* Whatever moves on over characters holds where the scan ends.
LEMMA ScanSound ==
  ASSUME NEW N \in Nat, NEW w \in [0 .. N -> 0 .. 4], \A i \in 0 .. N : w[i] <= N - i,
         NEW f, Scans(f, w, N), NEW st, MovesOn(st, w, N)
  PROVE Sound(f[0], st, w, N)
<1> DEFINE Good(i) == st[i] => Sound(f[i], st, w, N)
           T == {k \in 0 .. N : \A i \in N - k .. N : Good(i)}
<1>1. Good(N)
  <2>1. N >= N
    OBVIOUS
  <2>2. f[N] = IF N >= N THEN <<>> ELSE IF w[N] = 0 THEN <<N>> ELSE f[N + w[N]]
    BY DEF Scans
  <2>3. f[N] = <<>>
    BY <2>1, <2>2
  <2> QED
    BY <2>3 DEF Sound
<1>2. ASSUME NEW i \in 0 .. N - 1, \A j \in i + 1 .. N : Good(j) PROVE Good(i)
  <2>1. i \in 0 .. N /\ i \in Nat /\ ~(i >= N)
    OBVIOUS
  <2>2. f[i] = IF w[i] = 0 THEN <<i>> ELSE f[i + w[i]]
    BY <2>1 DEF Scans
  <2>3. CASE w[i] = 0
    BY <2>1, <2>2, <2>3 DEF Sound
  <2>4. CASE w[i] # 0
    <3>1. PICK j : j = i + w[i]
      OBVIOUS
    <3>2. w[i] \in 0 .. 4 /\ w[i] <= N - i
      BY <2>1
    <3>3. j \in i + 1 .. N
      BY <2>4, <3>1, <3>2
    <3>4. st[i] => st[j]
      BY <2>1, <2>4, <3>1 DEF MovesOn
    <3>5. f[i] = f[j]
      BY <2>2, <2>4, <3>1
    <3>6. Good(j)
      BY <1>2, <3>3
    <3> QED
      BY <3>4, <3>5, <3>6
  <2> QED
    BY <2>3, <2>4
<1> HIDE DEF Good
<1>3. 0 \in T
  BY <1>1
<1>4. ASSUME NEW n \in 1 .. N, n - 1 \in T PROVE n \in T
  <2>1. PICK i : i = N - n
    OBVIOUS
  <2>2. i \in 0 .. N - 1 /\ n \in 0 .. N /\ i + 1 = N - (n - 1)
    BY <2>1
  <2>3. \A j \in i + 1 .. N : Good(j)
    BY <1>4, <2>2
  <2>4. Good(i)
    BY <1>2, <2>2, <2>3
  <2>5. \A j \in i .. N : j = i \/ j \in i + 1 .. N
    BY <2>2
  <2>6. \A j \in i .. N : Good(j)
    BY <2>3, <2>4, <2>5
  <2> QED
    BY <2>1, <2>2, <2>6
<1> HIDE DEF T
<1>5. \A n \in 0 .. N : n \in T
  BY <1>3, <1>4, UpTo
<1>6. N \in T /\ 0 \in N - N .. N
  BY <1>5
<1>7. Good(0)
  BY <1>6 DEF T
<1> QED
  BY <1>7 DEF Good, MovesOn

\* A Boolean for each place may be defined from those before.
LEMMA TruthsFromBefore ==
  ASSUME NEW N \in Nat, NEW rule, LooksBack(rule, N, BOOLEAN)
  PROVE \E f \in [0 .. N -> BOOLEAN] : \A i \in 0 .. N : f[i] = rule[i][f]
<1>1. PICK B, e : B = BOOLEAN /\ e = TRUE
  OBVIOUS
<1>2. LooksBack(rule, N, B) /\ e \in B
  BY <1>1, Zenon
<1>3. \E f \in [0 .. N -> B] : \A i \in 0 .. N : f[i] = rule[i][f]
  BY <1>2, CourseOfValues
<1> QED
  BY <1>1, <1>3, Zenon

LEMMA StartsMoveOn ==
  ASSUME NEW s \in Seq(Byte), NEW w, WidthsOf(w, s)
  PROVE MovesOn(StartsIn(s), w, Len(s))
<1> DEFINE N == Len(s)
           H == [0 .. N -> BOOLEAN]
           Value(i, h) == i = 0 \/ \E n \in 1 .. 4 : i >= n /\ h[i - n] /\ WellFormed(SubSeq(s, i - n + 1, i))
           rule == [i \in 0 .. N |-> [h \in H |-> Value(i, h)]]
           Def(f) == f = [i \in 0 .. Len(s) |->
                             i = 0 \/ \E n \in 1 .. 4 : i >= n /\ f[i - n] /\ WellFormed(SubSeq(s, i - n + 1, i))]
           chosen == CHOOSE f : Def(f)
<1>1. StartsIn(s) = chosen
  BY Zenon DEF StartsIn
<1>2. N \in Nat
  OBVIOUS
<1>3. ASSUME NEW i \in 0 .. N, NEW f \in H, NEW g \in H, \A j \in 0 .. i - 1 : f[j] = g[j]
      PROVE Value(i, f) = Value(i, g)
  <2>1. \A n \in 1 .. 4 : i >= n => i - n \in 0 .. i - 1
    BY <1>2
  <2>2. \A n \in 1 .. 4 : i >= n => f[i - n] = g[i - n]
    BY <1>3, <2>1
  <2> HIDE DEF H
  <2> QED
    BY <2>2, Zenon
<1>4. rule \in [0 .. N -> [H -> BOOLEAN]] /\ \A i \in 0 .. N : \A h \in H : rule[i][h] = Value(i, h)
  <2>1. \A i \in 0 .. N : \A h \in H : Value(i, h) \in BOOLEAN
    OBVIOUS
  <2> HIDE DEF Value, H
  <2> QED
    BY <2>1
<1> HIDE DEF rule, Value
<1>5. LooksBack(rule, N, BOOLEAN)
  <2>1. \A i \in 0 .. N : \A f, g \in H :
            (\A j \in 0 .. i - 1 : f[j] = g[j]) => rule[i][f] = rule[i][g]
    <3> HIDE DEF H
    <3> QED
      BY <1>3, <1>4
  <2> QED
    BY <1>4, <2>1 DEF LooksBack
<1>6. PICK h \in H : \A i \in 0 .. N : h[i] = rule[i][h]
  <2> HIDE DEF Def, chosen
  <2> QED
    BY <1>2, <1>5, TruthsFromBefore
<1>7. \A i \in 0 .. N : h[i] = Value(i, h)
  BY <1>4, <1>6
<1>8. Def(h)
  <2>1. h = [i \in 0 .. N |-> Value(i, h)]
    <3>1. DOMAIN h = 0 .. N
      OBVIOUS
    <3>2. h = [i \in 0 .. N |-> h[i]]
      OBVIOUS
    <3> HIDE DEF H
    <3> QED
      BY <1>7, <3>2, Zenon
  <2> QED
    BY <2>1, Zenon DEF Value
<1> HIDE DEF Def
<1>9. Def(chosen)
  BY <1>8, Zenon
<1>10. PICK g : g = chosen
  OBVIOUS
<1> HIDE DEF chosen
<1>11. g = [i \in 0 .. N |-> Value(i, g)]
  BY <1>9, <1>10, Zenon DEF Def, Value
<1>12. \A i \in 0 .. N : g[i] = Value(i, g)
  BY <1>11, Zenon
<1>13. g[0]
  <2>1. 0 \in 0 .. N /\ Value(0, g)
    BY <1>2 DEF Value
  <2>2. g[0] = Value(0, g)
    BY <1>12, <2>1
  <2> QED
    BY <2>1, <2>2, Zenon
<1>14. ASSUME NEW i \in 0 .. N, g[i], w[i] # 0 PROVE g[i + w[i]]
  <2>1. PICK n, j : n = w[i] /\ j = i + n
    OBVIOUS
  <2>2. n \in WellFormedFrom(s, i)
    BY <1>14, <2>1 DEF WidthsOf
  <2>3. n \in 1 .. 4 /\ j <= N /\ WellFormed(SubSeq(s, i + 1, j))
    BY <2>1, <2>2 DEF WellFormedFrom
  <2>4. j \in 0 .. N /\ j >= n /\ j - n = i
    BY <1>2, <2>1, <2>3
  <2>5. n \in 1 .. 4 /\ j >= n /\ g[j - n] /\ WellFormed(SubSeq(s, j - n + 1, j))
    BY <1>14, <2>3, <2>4
  <2>6. Value(j, g)
    BY <2>5, Zenon DEF Value
  <2>7. g[j] = Value(j, g)
    BY <1>12, <2>4
  <2> QED
    BY <2>1, <2>6, <2>7, Zenon
<1> QED
  BY <1>1, <1>10, <1>13, <1>14 DEF MovesOn

-----------------------------------------------------------------------------
(***************************************************************************)
(* The calls.                                                              *)
(***************************************************************************)
LEMMA LastIsNat == LastPoint \in Nat
BY SMT DEF LastPoint

\* A surrogate is encoded in three bytes of which the second is refused.
LEMMA SurrogateRefused ==
  ASSUME NEW cp, cp \in Surrogates
  PROVE EncodeOne(cp) # <<>> /\ DecodeOne(EncodeOne(cp)) = <<>>
<1>1. cp \in Nat /\ cp > 2047 /\ cp <= 65535 /\ cp >= 55296 /\ cp <= 57343
  BY SMT DEF Surrogates
<1>2. EncodeOne(cp) = <<224 + cp \div 4096, Six(cp, 64), Six(cp, 1)>>
  BY <1>1, SMT DEF EncodeOne
<1>3. PICK c0, c1, c2 : c0 = 224 + cp \div 4096 /\ c1 = Six(cp, 64) /\ c2 = Six(cp, 1)
  OBVIOUS
<1>4. c0 = 237
  BY <1>1, <1>3
<1>5. (cp \div 64) % 64 >= 32
  BY <1>1, SMT
<1>6. c1 >= 160
  BY <1>1, <1>3, <1>5 DEF Six
<1>7. PICK s : s = <<c0, c1, c2>>
  OBVIOUS
<1>8. s # <<>> /\ s[1] = c0 /\ s[2] = c1
  BY <1>7
<1>9. Need(s[1]) > 1 /\ BadSecond(s[1], s[2])
  <2>1. Need(237) = 3
    BY FirstByte
  <2> QED
    BY <1>4, <1>6, <1>8, <2>1 DEF BadSecond
<1>10. DecodeOne(s) = <<>>
  BY <1>9, Zenon DEF DecodeOne
<1> QED
  BY <1>2, <1>3, <1>7, <1>8, <1>10

LEMMA EncodingIsWritten ==
  ASSUME NEW cp, cp \in 0 .. LastPoint PROVE EncodeOne(cp) # <<>>
<1>1. cp \in Nat
  BY LastIsNat
<1>2. /\ cp <= 127 => EncodeOne(cp) = <<cp>>
      /\ cp > 127 /\ cp <= 2047 => EncodeOne(cp) = <<192 + cp \div 64, Six(cp, 1)>>
      /\ cp > 2047 /\ cp <= 65535 =>
             EncodeOne(cp) = <<224 + cp \div 4096, Six(cp, 64), Six(cp, 1)>>
      /\ cp > 65535 =>
             EncodeOne(cp) = <<240 + cp \div 262144, Six(cp, 4096), Six(cp, 64), Six(cp, 1)>>
  BY <1>1, SMT DEF EncodeOne
<1> QED
  BY <1>1, <1>2

\* What encoding a code point and decoding the result give.
LEMMA RoundTrip ==
  ASSUME NEW cp, cp \in 0 .. LastPoint
  PROVE DecodeOne(EncodeOne(cp)) = IF Scalar(cp) THEN <<cp, Len(EncodeOne(cp))>> ELSE <<>>
<1>1. CASE Scalar(cp)
  BY <1>1, EncodedDecodes, Zenon
<1>2. CASE ~Scalar(cp)
  <2>1. cp \in Surrogates
    BY <1>2 DEF Scalar
  <2> QED
    BY <1>2, <2>1, SurrogateRefused, Zenon
<1> QED
  BY <1>1, <1>2

LEMMA ChrRight ==
  ASSUME NEW cp \in Int
  PROVE /\ Chr(cp) = <<>> <=> cp \notin 0 .. LastPoint
        /\ DecodeOne(Chr(cp)) = IF Scalar(cp) THEN <<cp, Len(Chr(cp))>> ELSE <<>>
<1>1. LastPoint \in Nat
  BY LastIsNat
<1>2. CASE cp \in 0 .. LastPoint
  <2>1. Chr(cp) = EncodeOne(cp)
    BY <1>1, <1>2 DEF Chr
  <2> QED
    BY <1>2, <2>1, EncodingIsWritten, RoundTrip, Zenon
<1>3. CASE cp \notin 0 .. LastPoint
  <2>1. Chr(cp) = <<>>
    BY <1>1, <1>3 DEF Chr
  <2>2. ~Scalar(cp)
    BY <1>3, Zenon DEF Scalar
  <2>3. DecodeOne(<<>>) = <<>>
    BY Zenon DEF DecodeOne
  <2> QED
    BY <1>3, <2>1, <2>2, <2>3, Zenon
<1> QED
  BY <1>2, <1>3

\* What decoding the first character and validating the whole string give.
LEMMA DecodingRight ==
  ASSUME NEW s \in Seq(Byte)
  PROVE /\ DecodeOne(s) = <<>> <=> WellFormedFrom(s, 0) = {}
        /\ DecodeOne(s) # <<>> =>
               /\ Scalar(DecodeOne(s)[1]) /\ WellFormedFrom(s, 0) = {DecodeOne(s)[2]}
               /\ EncodeOne(DecodeOne(s)[1]) = SubSeq(s, 1, DecodeOne(s)[2])
        /\ ErrorOffset(s) = <<>> => StartsIn(s)[Len(s)]
        /\ ErrorOffset(s) # <<>> =>
               StartsIn(s)[ErrorOffset(s)[1]] /\ WellFormedFrom(s, ErrorOffset(s)[1]) = {}
<1>1. Len(s) \in Nat /\ 0 \in 0 .. Len(s)
  OBVIOUS
<1>2. From(s, 0) = s
  <2>1. PICK r : r = From(s, 0)
    OBVIOUS
  <2>2. r \in Seq(Byte) /\ Len(r) = Len(s) - 0
    BY <1>1, <2>1, FromFacts
  <2>3. \A j \in 1 .. Len(s) - 0 : r[j] = s[0 + j]
    BY <1>1, <2>1, SuffixFacts DEF From
  <2>4. Len(r) = Len(s) /\ \A j \in 1 .. Len(r) : r[j] = s[j]
    BY <1>1, <2>2, <2>3
  <2>5. r = s
    BY <2>2, <2>4, SeqEqual
  <2> QED
    BY <2>1, <2>5
<1>3. /\ DecodeOne(s) = <<>> => WellFormedFrom(s, 0) = {}
      /\ DecodeOne(s) # <<>> => WellFormedFrom(s, 0) = {DecodeOne(s)[2]}
  <2>1. /\ DecodeOne(From(s, 0)) = <<>> => WellFormedFrom(s, 0) = {}
        /\ DecodeOne(From(s, 0)) # <<>> => WellFormedFrom(s, 0) = {DecodeOne(From(s, 0))[2]}
    BY <1>1, CharactersAt
  <2> QED
    BY <1>2, <2>1, Zenon
<1>4. DecodeOne(s) # <<>> =>
          Scalar(DecodeOne(s)[1]) /\ EncodeOne(DecodeOne(s)[1]) = SubSeq(s, 1, DecodeOne(s)[2])
  BY DecodedEncodes
<1>5. PICK w : WidthsOf(w, s)
  BY Widths
<1>6. PICK f : Scans(f, w, Len(s)) /\ ErrorOffset(s) = f[0]
  BY <1>5, OffsetScans
<1>7. PICK st, N, x : st = StartsIn(s) /\ N = Len(s) /\ x = f[0]
  OBVIOUS
<1>8. MovesOn(st, w, N)
  BY <1>5, <1>7, StartsMoveOn, Zenon
<1>9. N \in Nat /\ w \in [0 .. N -> 0 .. 4] /\ (\A i \in 0 .. N : w[i] <= N - i) /\ Scans(f, w, N)
  BY <1>1, <1>5, <1>6, <1>7 DEF WidthsOf
<1>10. Sound(f[0], st, w, N)
  BY <1>8, <1>9, ScanSound
<1>11. /\ x = <<>> => st[N]
       /\ x # <<>> => st[x[1]] /\ WellFormedFrom(s, x[1]) = {}
  <2>1. CASE x = <<>>
    BY <1>7, <1>10, <2>1 DEF Sound
  <2>2. CASE x # <<>>
    <3>1. PICK e \in 0 .. N : x = <<e>> /\ st[e] /\ w[e] = 0
      BY <1>7, <1>10, <2>2 DEF Sound
    <3>2. \A n : n \in WellFormedFrom(s, e) <=> n = w[e] /\ n # 0
      BY <1>5, <1>7, <3>1 DEF WidthsOf
    <3>3. WellFormedFrom(s, e) = {}
      BY <3>1, <3>2
    <3>4. x[1] = e
      BY <3>1
    <3> QED
      BY <2>2, <3>1, <3>3, <3>4
  <2> QED
    BY <2>1, <2>2
<1>12. WellFormedFrom(s, 0) = {} => DecodeOne(s) = <<>>
  BY <1>3
<1> QED
  BY <1>3, <1>4, <1>6, <1>7, <1>11, <1>12, Zenon

LEMMA SamplesAreBytes == Samples \subseteq Seq(Byte)
<1> SUFFICES ASSUME NEW s \in Samples PROVE s \in Seq(Byte)
  OBVIOUS
<1>1. PICK c0 \in LeadBytes, rest \in BoundedSeq(NextBytes, 3) : s = <<c0>> \o rest
  BY DEF Samples
<1>2. c0 \in Byte /\ NextBytes \subseteq Byte
  BY CodePointsAssumption DEF Byte
<1>3. rest \in Seq(Byte)
  <2>1. rest \in Seq(NextBytes)
    BY Bounded
  <2>2. Len(rest) \in Nat /\ rest \in [1 .. Len(rest) -> NextBytes]
    BY <2>1
  <2>3. rest \in [1 .. Len(rest) -> Byte]
    BY <1>2, <2>2
  <2> QED
    BY <2>2, <2>3
<1>4. <<c0>> \in Seq(Byte)
  BY <1>2
<1> QED
  BY <1>1, <1>3, <1>4

\* Each call that is made is answered as CodingExact says.
LEMMA CallsExact == CodePointCall => CodingExact'
<1> SUFFICES ASSUME CodePointCall PROVE CodingExact'
  OBVIOUS
<1>1. CASE \E s \in Samples :
               Make([op |-> "decode", s |-> s, res |-> DecodeOne(s), error |-> ErrorOffset(s)])
  <2>1. PICK s \in Samples :
            Make([op |-> "decode", s |-> s, res |-> DecodeOne(s), error |-> ErrorOffset(s)])
    BY <1>1
  <2>2. PICK d, x : d = DecodeOne(s) /\ x = ErrorOffset(s)
    OBVIOUS
  <2>3. call' = [op |-> "decode", s |-> s, res |-> d, error |-> x]
    BY <2>1, <2>2, Zenon DEF Make
  <2>4. /\ call'.op = "decode" /\ call'.s = s
        /\ call'.res = d /\ call'.error = x
    BY <2>3
  <2>5. s \in Seq(Byte)
    BY SamplesAreBytes
  <2>6. /\ d = <<>> <=> WellFormedFrom(s, 0) = {}
        /\ d # <<>> =>
               /\ Scalar(d[1]) /\ WellFormedFrom(s, 0) = {d[2]}
               /\ EncodeOne(d[1]) = SubSeq(s, 1, d[2])
        /\ x = <<>> => StartsIn(s)[Len(s)]
        /\ x # <<>> => StartsIn(s)[x[1]] /\ WellFormedFrom(s, x[1]) = {}
    BY <2>2, <2>5, DecodingRight, Zenon
  <2>7. IF x = <<>> THEN StartsIn(s)[Len(s)]
        ELSE StartsIn(s)[x[1]] /\ WellFormedFrom(s, x[1]) = {}
    BY <2>6, Zenon
  <2>8. (d = <<>>) = (WellFormedFrom(s, 0) = {})
    BY <2>6, Zenon
  <2>9. PICK c : c = call'
    OBVIOUS
  <2>10. DecodedExactly(c)
    BY <2>4, <2>6, <2>7, <2>8, <2>9, Zenon DEF DecodedExactly
  <2>11. DecodedExactly(call)'
    BY <2>9, <2>10, Zenon DEF DecodedExactly
  <2> QED
    BY <2>4, <2>11, Zenon DEF CodingExact
<1>2. CASE \E cp \in Points :
               /\ cp >= 0 /\ cp <= LastPoint
               /\ Make([op |-> "encode", cp |-> cp, enc |-> EncodeOne(cp),
                        res |-> DecodeOne(EncodeOne(cp))])
  <2>1. PICK cp \in Points :
            /\ cp >= 0 /\ cp <= LastPoint
            /\ Make([op |-> "encode", cp |-> cp, enc |-> EncodeOne(cp),
                     res |-> DecodeOne(EncodeOne(cp))])
    BY <1>2
  <2>2. PICK e, d : e = EncodeOne(cp) /\ d = DecodeOne(e)
    OBVIOUS
  <2>3. call' = [op |-> "encode", cp |-> cp, enc |-> e, res |-> d]
    BY <2>1, <2>2, Zenon DEF Make
  <2>4. call'.op = "encode" /\ call'.cp = cp /\ call'.enc = e /\ call'.res = d
    BY <2>3
  <2>5. cp \in 0 .. LastPoint
    BY <2>1, CodePointsAssumption, LastIsNat
  <2>6. d = IF Scalar(cp) THEN <<cp, Len(e)>> ELSE <<>>
    BY <2>2, <2>5, RoundTrip, Zenon
  <2>7. IF Scalar(cp) THEN d = <<cp, Len(e)>> ELSE d = <<>>
    BY <2>6, Zenon
  <2> QED
    BY <2>4, <2>7, Zenon DEF CodingExact
<1>3. CASE \E cp \in Points :
               Make([op |-> "chr", cp |-> cp, enc |-> Chr(cp), res |-> DecodeOne(Chr(cp))])
  <2>1. PICK cp \in Points :
            Make([op |-> "chr", cp |-> cp, enc |-> Chr(cp), res |-> DecodeOne(Chr(cp))])
    BY <1>3
  <2>2. PICK e, d : e = Chr(cp) /\ d = DecodeOne(e)
    OBVIOUS
  <2>3. call' = [op |-> "chr", cp |-> cp, enc |-> e, res |-> d]
    BY <2>1, <2>2, Zenon DEF Make
  <2>4. call'.op = "chr" /\ call'.cp = cp /\ call'.enc = e /\ call'.res = d
    BY <2>3
  <2>5. cp \in Int
    BY CodePointsAssumption
  <2>6. /\ e = <<>> <=> cp \notin 0 .. LastPoint
        /\ d = IF Scalar(cp) THEN <<cp, Len(e)>> ELSE <<>>
    BY <2>2, <2>5, ChrRight, Zenon
  <2>7. (e = <<>>) = (cp \notin 0 .. LastPoint)
    BY <2>6, Zenon
  <2> QED
    BY <2>4, <2>6, <2>7, Zenon DEF CodingExact
<1> QED
  BY <1>1, <1>2, <1>3, Zenon DEF CodePointCall

LEMMA IdleExact == NoCall => CodingExact
<1> SUFFICES ASSUME NoCall PROVE CodingExact
  OBVIOUS
<1>1. call.op = "idle"
  BY DEF NoCall, Idle
<1> QED
  BY <1>1, Zenon DEF CodingExact

\* utf8.c codes exactly, whatever is decoded, encoded or made with chr: a string
\* decodes if and only if it begins as Unicode's table says, encoding what was read
\* gives the bytes back, the offset utf8_validate reports has characters up to it
\* and none at it, and only scalar values survive being encoded.
THEOREM CodingCorrect == CodePointSpec => []CodingExact
<1>1. NoCall => CodingExact
  BY IdleExact
<1>2. CodingExact /\ [CodePointCall \/ Back]_call => CodingExact'
  <2> SUFFICES ASSUME CodingExact, [CodePointCall \/ Back]_call PROVE CodingExact'
    OBVIOUS
  <2>1. CASE CodePointCall
    BY <2>1, CallsExact
  <2>2. CASE Back
    <3>1. call'.op = "idle"
      BY <2>2 DEF Back, Idle
    <3> QED
      BY <3>1, Zenon DEF CodingExact
  <2>3. CASE UNCHANGED call
    BY <2>3, Zenon DEF CodingExact, DecodedExactly
  <2> QED
    BY <2>1, <2>2, <2>3
<1> QED
  BY <1>1, <1>2, PTL DEF CodePointSpec
=============================================================================
