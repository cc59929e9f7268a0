------------------------------ MODULE Streams -------------------------------
(***************************************************************************)
(* File objects over one file: open, the readers, write, seek and close,   *)
(* and the blocks of File.open and each_line (eval_dispatch_objects.c).    *)
(*                                                                         *)
(* A File holds a FILE* of the C library.  The library is external and     *)
(* modelled by what the code sees of it: it keeps written bytes in a       *)
(* buffer until the stream is flushed, reads ahead to the end of the file, *)
(* remembers that it met the end, and drops its buffer when the device is  *)
(* full.                                                                   *)
(***************************************************************************)
EXTENDS Integers, FiniteSets, SequencesExt

CONSTANTS
    Writer,     \* the File that may be opened for writing
    Reader,     \* a File that is opened for reading only
    Modes,      \* the modes Writer is opened with
    Contents,   \* what the file may hold at first
    Pieces,     \* what one write writes
    MaxBytes,   \* bound: the length of the file
    MaxWithin   \* bound: how deep blocks nest

Files == {Writer, Reader}

\* The bytes: a letter, a newline, the two bytes of a wide character, and the zero
\* that fills a hole.
X == "x"
NL == "n"
Lead == "L"
Cont == "C"
Zero == "0"
Chars == {X, NL, Lead, Cont, Zero}

ASSUME FilesAssumption == Writer # Reader
ASSUME BytesAssumption == Contents \subseteq Seq(Chars) /\ Pieces \subseteq Seq(Chars) \ {<<>>}
ASSUME ModesAssumption == Modes \subseteq {"r", "rb", "r+", "w", "w+", "a", "a+"}

\* mode_is_read, mode_is_write, mode_is_append, mode_is_binary
Plus(m) == m \in {"r+", "w+", "a+"}
IsAppend(m) == m \in {"a", "a+"}
AllowsRead(m) == m \in {"r", "rb"} \/ Plus(m)
AllowsWrite(m) == m = "w" \/ Plus(m) \/ IsAppend(m)
IsBinary(m) == m = "rb"

VARIABLES
    disk,      \* the bytes of the file
    full,      \* does the device refuse to store bytes?
    files,     \* each File: its instance variables and its FILE*
    within,    \* the blocks being run, outermost first
    ideal,     \* what the file would hold had each write that returned stored its bytes at once
    others,    \* the Files since whose opening another one changed the file
    last       \* the last call, for the properties

vars == <<disk, full, files, within, ideal, others, last>>

\* A File that is not open yet.  `fp` is whether it has its FILE*, `ahead` what the
\* library has read ahead, `pend` what it has not stored, `eof` its end-of-file flag.
NoFile == [mode |-> "", fp |-> FALSE, closed |-> FALSE,
           pos |-> 0, ahead |-> <<>>, pend |-> <<>>, eof |-> FALSE]

IsOpened(f) == f.mode # ""
Quiet == [op |-> "none", h |-> Writer, is |-> "ok", s |-> <<>>]

Init ==
    /\ disk \in Contents
    /\ full = FALSE
    /\ files = [h \in Files |-> NoFile]
    /\ within = <<>>
    /\ ideal = disk
    /\ others = {}
    /\ last = Quiet

-----------------------------------------------------------------------------
(***************************************************************************)
(* The C library                                                           *)
(***************************************************************************)
\* d with s stored at offset `at`.
Placed(d, at, s) ==
    LET end == at + Len(s)
    IN  [i \in 1 .. (IF Len(d) > end THEN Len(d) ELSE end) |->
            IF i > at /\ i <= end THEN s[i - at] ELSE IF i <= Len(d) THEN d[i] ELSE Zero]

\* Where the bytes of f that wait are to go in d.
Waiting(f, d) == IF IsAppend(f.mode) THEN Len(d) ELSE f.pos - Len(f.pend)

\* fflush: [ok, f, d].  When it fails the bytes are gone.
Stored(f, d) ==
    LET at == Waiting(f, d)
    IN  IF f.pend = <<>> THEN [ok |-> TRUE, f |-> f, d |-> d]
        ELSE IF full THEN [ok |-> FALSE, f |-> [f EXCEPT !.pend = <<>>, !.pos = at], d |-> d]
        ELSE [ok |-> TRUE, d |-> Placed(d, at, f.pend),
              f |-> [f EXCEPT !.pend = <<>>, !.pos = at + Len(f.pend)]]

\* The bytes that reading can still give, and f after n of them were asked for
\* (more: the end was met, which is remembered).
Ahead(f, d) == f.ahead \o (IF f.eof THEN <<>> ELSE SubSeq(d, f.pos + Len(f.ahead) + 1, Len(d)))
Took(f, d, n) ==
    LET all == Ahead(f, d)
        k == IF n > Len(all) THEN Len(all) ELSE n
    IN  [f EXCEPT !.pos = f.pos + k,
                  !.ahead = SubSeq(IF k > Len(f.ahead) THEN all ELSE f.ahead, k + 1,
                                   IF k > Len(f.ahead) THEN Len(all) ELSE Len(f.ahead)),
                  !.eof = f.eof \/ n > Len(all)]
Sought(f, pos) == [f EXCEPT !.pos = pos, !.ahead = <<>>, !.eof = FALSE]

Text(s) == [is |-> "str", s |-> s]
Answer(is) == [is |-> is, s |-> <<>>]   \* "nil", "ok", "true", "false", "eof" (EOFError), "raise"

\* utf8_validate
Valid(s) == \A i \in DOMAIN s : /\ s[i] = Lead => i < Len(s) /\ s[i + 1] = Cont
                                /\ s[i] = Cont => i > 1 /\ s[i - 1] = Lead

-----------------------------------------------------------------------------
(***************************************************************************)
(* The readers: what they return, and how many bytes they take.  Text that *)
(* is not UTF-8 raises EncodingError after it was taken.                   *)
(***************************************************************************)
Checked(mode, s) == IF ~IsBinary(mode) /\ ~Valid(s) THEN Answer("raise") ELSE Text(s)

Least(S) == CHOOSE k \in S : \A j \in S : k <= j

\* file_gets_stream: a line; everything (nil); at most `limit` bytes of a line; or
\* a paragraph (""), which is nil when it has newlines only.
Gets(mode, s, how, limit) ==
    LET stops == {k \in DOMAIN s : \/ how # "all" /\ how # "para" /\ s[k] = NL
                                   \/ how = "limit" /\ k >= limit
                                   \/ how = "para" /\ k >= 2 /\ s[k] = NL /\ s[k - 1] = NL}
        n == IF stops = {} THEN Len(s) + 1 ELSE Least(stops)
        line == IF stops = {} THEN s ELSE SubSeq(s, 1, n)
    IN  [n |-> n, res |-> IF line = <<>> \/ (how = "para" /\ ToSet(line) = {NL}) THEN Answer("nil")
                          ELSE Checked(mode, line)]

\* file_read_stream and file_read_stream_with_length
ReadAll(mode, s) == [n |-> Len(s) + 1, res |-> Checked(mode, s)]
ReadLength(mode, s, want) ==
    LET got == IF want > Len(s) THEN s ELSE SubSeq(s, 1, want)
    IN  IF want = 0 THEN [n |-> 0, res |-> Text(<<>>)]
        ELSE [n |-> want, res |-> IF got = <<>> THEN Answer("nil") ELSE Checked(mode, got)]

\* file_getc_stream
Getc(mode, s) ==
    IF s = <<>> THEN [n |-> 1, res |-> Answer("nil")]
    ELSE IF IsBinary(mode) \/ s[1] \notin {Lead, Cont} THEN [n |-> 1, res |-> Text(<<s[1]>>)]
    ELSE IF s[1] = Cont THEN [n |-> 1, res |-> Answer("raise")]
    ELSE [n |-> 2, res |-> IF Len(s) >= 2 /\ s[2] = Cont THEN Text(SubSeq(s, 1, 2)) ELSE Answer("raise")]

\* file_getbyte_stream
Getbyte(s) == [n |-> 1, res |-> IF s = <<>> THEN Answer("nil") ELSE Text(<<s[1]>>)]

\* eof? that does not put the byte back.
AtEndTaken(s) == [n |-> 1, res |-> Answer(IF s = <<>> THEN "true" ELSE "false")]

\* file_eof_stream, with ungetc
AtEnd(s) == [n |-> IF s = <<>> THEN 1 ELSE 0, res |-> Answer(IF s = <<>> THEN "true" ELSE "false")]

\* file_readline_stream, file_readchar_stream, file_readbyte_stream
OrEOFError(r) == IF r.res.is = "nil" THEN [r EXCEPT !.res = Answer("eof")] ELSE r

\* file_readlines_stream: lines until nil, or until one raises.
Readlines(mode, s) ==
    LET ends == {k \in 1 .. Len(s) + 1 : k = Len(s) + 1 \/ s[k] = NL}
        bad == {k \in ends : ~Valid(SubSeq(s, 1, IF k > Len(s) THEN Len(s) ELSE k))}
    IN  IF IsBinary(mode) \/ bad = {} THEN [n |-> Len(s) + 1, res |-> Text(s)]
        ELSE [n |-> Least(bad), res |-> Answer("raise")]

Reading(mode, s, op) ==
    CASE op = "gets" -> Gets(mode, s, "line", 0)
      [] op = "gets_nil" -> Gets(mode, s, "all", 0)
      [] op = "gets_limit" -> Gets(mode, s, "limit", 2)
      [] op = "gets_paragraph" -> Gets(mode, s, "para", 0)
      [] op = "readline" -> OrEOFError(Gets(mode, s, "line", 0))
      [] op = "read" -> ReadAll(mode, s)
      [] op = "read_1" -> ReadLength(mode, s, 1)
      [] op = "read_2" -> ReadLength(mode, s, 2)
      [] op = "getc" -> Getc(mode, s)
      [] op = "readchar" -> OrEOFError(Getc(mode, s))
      [] op = "getbyte" -> Getbyte(s)
      [] op = "readbyte" -> OrEOFError(Getbyte(s))
      [] op = "readlines" -> Readlines(mode, s)
      [] op = "eof" -> AtEnd(s)

Readers == {"gets", "gets_nil", "gets_limit", "gets_paragraph", "readline", "read", "read_1", "read_2",
            "getc", "readchar", "getbyte", "readbyte", "readlines"}

-----------------------------------------------------------------------------
(***************************************************************************)
(* Methods of a File                                                       *)
(***************************************************************************)
\* The call op on h ends with res, leaving its File at f and the file at d.
Return(h, op, f, d, res) ==
    /\ files' = [files EXCEPT ![h] = f]
    /\ disk' = d
    /\ others' = IF d = disk THEN others ELSE others \cup {g \in Files \ {h} : IsOpened(files[g])}
    /\ last' = [op |-> op, h |-> h, is |-> res.is, s |-> res.s]

\* It raises and does nothing.
Refuse(h, op) ==
    /\ last' = [op |-> op, h |-> h, is |-> "raise", s |-> <<>>]
    /\ UNCHANGED <<disk, files, ideal, others>>

\* The bytes that waited are not stored, and the program is told so, or not.
Told == ideal' = disk'
PassedOver == ideal' = disk'
Kept == UNCHANGED ideal

\* A method of an open File; of a closed one it raises IOError.
Callable(h) == IsOpened(files[h])
Refused(h, op) == Callable(h) /\ files[h].closed /\ Refuse(h, op)
Usable(h) == Callable(h) /\ ~files[h].closed

\* A reader first stores what waits.  n |-> 0 leaves the end-of-file flag alone.
ReadWith(h, op) ==
    LET f == files[h]  st == Stored(f, disk)
        got == Reading(f.mode, Ahead(st.f, st.d), op)
    IN  IF ~st.ok THEN Return(h, op, [st.f EXCEPT !.eof = FALSE], st.d, Answer("raise")) /\ Told
        ELSE Return(h, op, Took(st.f, st.d, got.n), st.d, got.res) /\ Kept

Read(h, op) ==
    /\ Usable(h)
    /\ IF AllowsRead(files[h].mode) /\ files[h].fp
       THEN ReadWith(h, op) ELSE Refuse(h, op)
    /\ UNCHANGED <<full, within>>

\* eof? does not look at the mode; the library refuses to read then.
Eof(h) ==
    /\ Usable(h)
    /\ IF AllowsRead(files[h].mode) /\ files[h].fp
       THEN ReadWith(h, "eof") ELSE Refuse(h, "eof")
    /\ UNCHANGED <<full, within>>

\* file_write_stream; the buffer may be full before or after, so that bytes are
\* stored at once.
Accepted(f, s) == [f EXCEPT !.ahead = <<>>, !.pend = f.pend \o s,
                            !.pos = Waiting(f, disk) + Len(f.pend) + Len(s)]
Write(h, s) ==
    /\ Usable(h)
    /\ LET f == files[h]  g == Accepted(f, s)
           at == IF IsAppend(f.mode) THEN Len(ideal) ELSE f.pos
       IN  IF ~AllowsWrite(f.mode) \/ ~f.fp THEN Refuse(h, "write")
           ELSE /\ Len(Placed(ideal, at, s)) <= MaxBytes
                /\ \E buffered \in BOOLEAN :
                       LET st == IF buffered THEN [ok |-> TRUE, f |-> g, d |-> disk]
                                 ELSE Stored(g, disk)
                       IN  /\ Return(h, "write", st.f, st.d, Answer(IF st.ok THEN "ok" ELSE "raise"))
                           /\ IF st.ok THEN ideal' = Placed(ideal, at, s) ELSE Told
    /\ UNCHANGED <<full, within>>

\* flush does not look at what fflush says.
Flush(h) ==
    /\ Usable(h)
    /\ LET st == Stored(files[h], disk)
       IN  IF ~files[h].fp THEN Refuse(h, "flush")
           ELSE /\ Return(h, "flush", st.f, st.d, Answer("ok"))
                /\ IF st.ok THEN Kept ELSE PassedOver
    /\ UNCHANGED <<full, within>>

\* file_seek_stream, with the offset from the beginning, from here or from the end.
Seek(h, offset, whence) ==
    /\ Usable(h)
    /\ LET st == Stored(files[h], disk)
           to == offset + CASE whence = 0 -> 0 [] whence = 1 -> st.f.pos [] whence = 2 -> Len(st.d)
       IN  IF ~files[h].fp THEN Refuse(h, "seek")
           ELSE IF ~st.ok THEN Return(h, "seek", [st.f EXCEPT !.eof = FALSE], st.d, Answer("raise")) /\ Told
           ELSE /\ to <= MaxBytes
                /\ IF to < 0 THEN Return(h, "seek", [st.f EXCEPT !.eof = FALSE], st.d, Answer("raise"))
                             ELSE Return(h, "seek", Sought(st.f, to), st.d, Answer("ok"))
                /\ Kept
    /\ UNCHANGED <<full, within>>

\* rewind() of the C library says nothing of a failure.
Rewind(h) ==
    /\ Usable(h)
    /\ LET st == Stored(files[h], disk)
       IN  IF ~files[h].fp THEN Refuse(h, "rewind")
           ELSE /\ Return(h, "rewind", Sought(st.f, 0), st.d, Answer("ok"))
                /\ IF st.ok THEN Kept ELSE PassedOver
    /\ UNCHANGED <<full, within>>

-----------------------------------------------------------------------------
(***************************************************************************)
(* Opening, closing, and blocks                                            *)
(***************************************************************************)
\* file_open_stream; a mode with w empties the file.
Open(h, mode, block) ==
    /\ ~IsOpened(files[h])
    /\ block => Len(within) < MaxWithin
    /\ LET d == IF mode \in {"w", "w+"} THEN <<>> ELSE disk
           f == [NoFile EXCEPT !.mode = mode, !.fp = TRUE, !.pos = IF IsAppend(mode) THEN Len(disk) ELSE 0]
       IN  /\ Return(h, "open", f, d, Answer("ok"))
           /\ ideal' = IF d = disk THEN ideal ELSE d
    /\ within' = IF block THEN Append(within, [kind |-> "open", h |-> h, how |-> ""]) ELSE within
    /\ UNCHANGED full

Shut(f) == [NoFile EXCEPT !.mode = f.mode, !.closed = TRUE]

\* A close that loses what waits.
CloseStreamUnstored(h) ==
    LET f == files[h]
    IN  Return(h, "close", Shut(f), disk, Answer("nil")) /\ Kept

\* file_close_stream, and the closed flag: nil, or IOError when bytes are lost.
CloseStream(h) ==
    LET f == files[h]  st == Stored(f, disk)
    IN  IF ~f.fp THEN Return(h, "close", f, disk, Answer("nil")) /\ Kept
        ELSE IF st.ok THEN Return(h, "close", Shut(f), st.d, Answer("nil")) /\ Kept
        ELSE Return(h, "close", Shut(f), st.d, Answer("raise")) /\ Told

Close(h) == Callable(h) /\ CloseStream(h) /\ UNCHANGED <<full, within>>

\* each_line and each_char: read, then run the block with it, again and again.  The
\* closed flag is looked at once; later the missing FILE* is what raises.
Each == {"gets", "gets_paragraph", "getc", "getbyte"}
StartEach(h, how) ==
    /\ Usable(h) /\ Len(within) < MaxWithin
    /\ IF AllowsRead(files[h].mode) /\ files[h].fp
       THEN ReadWith(h, how) ELSE Refuse(h, how)
    /\ within' = IF last'.is = "str" THEN Append(within, [kind |-> "each", h |-> h, how |-> how]) ELSE within
    /\ UNCHANGED full

Innermost == within[Len(within)]
NextEach ==
    /\ within # <<>> /\ Innermost.kind = "each"
    /\ LET h == Innermost.h  how == Innermost.how
       IN  IF files[h].fp THEN ReadWith(h, how) ELSE Refuse(h, how)
    /\ within' = IF last'.is = "str" THEN within ELSE Front(within)
    /\ UNCHANGED full

\* A block left without closing the File.
LeaveBlockOpen ==
    /\ within # <<>>
    /\ last' = [Quiet EXCEPT !.op = "leave"]
    /\ within' = Front(within)
    /\ UNCHANGED <<disk, full, files, ideal, others>>

\* The block ends, by break or by an exception, or, that of open, normally.  The
\* File of an open block is closed in all these ways.
LeaveBlock ==
    /\ within # <<>>
    /\ IF Innermost.kind = "open" THEN CloseStream(Innermost.h)
       ELSE last' = [Quiet EXCEPT !.op = "leave"] /\ UNCHANGED <<disk, files, ideal, others>>
    /\ within' = Front(within)
    /\ UNCHANGED full

\* The environment: the device fills up, or has room again.
Device ==
    /\ full' = ~full
    /\ last' = [Quiet EXCEPT !.op = "device"]
    /\ UNCHANGED <<disk, files, within, ideal, others>>

Next ==
    \/ \E h \in Files :
           \/ \E mode \in (IF h = Writer THEN Modes ELSE {"r"}), block \in BOOLEAN : Open(h, mode, block)
           \/ \E op \in Readers : Read(h, op)
           \/ \E how \in Each : StartEach(h, how)
           \/ Eof(h) \/ Rewind(h) \/ Close(h)
           \/ Refused(h, "any") /\ UNCHANGED <<full, within>>
           \/ \E whence \in 0 .. 2, offset \in {-1, 0, 1} : Seek(h, offset, whence)
    \/ \E s \in Pieces : Write(Writer, s)
    \/ Flush(Writer)
    \/ NextEach \/ LeaveBlock \/ Device

Spec == Init /\ [][Next]_vars

-----------------------------------------------------------------------------
(***************************************************************************)
(* Properties                                                              *)
(***************************************************************************)
\* What the file holds once everything that waits is stored.
Settled == LET f == files[Writer]
           IN  IF f.pend = <<>> THEN disk ELSE Placed(disk, Waiting(f, disk), f.pend)

\* Every byte a write has taken is in the file, or on its way there, at the place
\* and in the order of the writes, through seeks, reads in between, appending and
\* closing, but for those of which the program was told that they are not stored,
\* and those whose loss flush and rewind pass over (eval_dispatch_objects.c:6056,
\* 1050).
NothingLost == Settled = ideal

\* A block's File is closed when the block has been left, however it was left; a
\* File says it is closed exactly when its FILE* is gone; and what a File does
\* after that is to raise, without reading, writing or opening again.
BlocksClose ==
    [][ \A h \in Files :
          /\ files'[h].closed <=> IsOpened(files'[h]) /\ ~files'[h].fp
          /\ files[h].closed => files'[h] = files[h]
          /\ files[h].closed /\ last'.h = h /\ last'.op \in Readers \cup {"write", "seek", "any"} =>
                 last'.is = "raise" /\ disk' = disk
          /\ (\E i \in DOMAIN within : within[i].kind = "open" /\ within[i].h = h)
               /\ ~(\E i \in DOMAIN within' : within'[i].kind = "open" /\ within'[i].h = h) =>
                 files'[h].closed ]_vars

\* What a reader returns is what the file holds between the positions before and
\* after, when no other File has changed it: no byte is given twice or left out.
\* A line ends with its newline and has no other, unless the limit or the end cut
\* it; text is whole characters; nil and EOFError come at the end only, or for an
\* empty paragraph; eof? moves nothing and tells whether the next byte is nil.  An
\* invalid text raises, and its bytes are gone.
ReadsDeliver ==
    [][ LET h == last'.h  op == last'.op  f == files[h]  g == files'[h]  s == last'.s
            file == IF h = Writer THEN Settled ELSE disk
            atEnd == g.pos >= Len(file)
        IN  op \in Readers \cup {"eof"} /\ h \notin others /\ Usable(h) /\ AllowsRead(f.mode) =>
            CASE last'.is = "str" ->
                   /\ g.pos = f.pos + Len(s) /\ s = SubSeq(file, f.pos + 1, g.pos)
                   /\ IsBinary(f.mode) \/ op \in {"getbyte", "readbyte"} \/ Valid(s)
                   /\ op \in {"gets", "readline"} =>
                          (\A i \in 1 .. Len(s) - 1 : s[i] # NL) /\ (s[Len(s)] = NL \/ atEnd)
                   /\ op \in {"read", "gets_nil", "readlines"} => atEnd
              [] last'.is \in {"nil", "eof"} ->
                   IF op = "gets_paragraph" THEN ToSet(SubSeq(file, f.pos + 1, g.pos)) \subseteq {NL}
                   ELSE atEnd /\ g.pos = f.pos
              [] last'.is \in {"true", "false"} -> g.pos = f.pos /\ (last'.is = "true") = atEnd
              [] last'.is = "raise" -> (g.pos > f.pos /\ ~IsBinary(f.mode)) \/ (full /\ f.pend # <<>>)
              [] OTHER -> FALSE ]_vars
=============================================================================
