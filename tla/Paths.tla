------------------------------- MODULE Paths --------------------------------
(***************************************************************************)
(* The path functions: how require finds a file's name (eval_support.c)    *)
(* and the path methods of File (eval_dispatch_objects.c).  A path is a    *)
(* sequence of characters; Suffix stands for ".rb".                        *)
(***************************************************************************)
EXTENDS Calls, Integers, FiniteSets, SequencesExt

CONSTANTS
    Letters,   \* the characters other than / . ~
    MaxPath    \* how long the paths of the calls are

Slash == "/"
Dot == "."
Chars == Letters \cup {Slash, Dot}
PathsUpTo(n) == UNION {[1 .. k -> Chars] : k \in 0 .. n}

Suffix == <<Dot, CHOOSE c \in Letters : TRUE>>
Cwd == <<Slash, "w", Slash, "v">>   \* where the process runs
HomeDir == <<Slash, "h">>

\* The character at i, "" past the end: the byte that ends a C string.
CharAt(p, i) == IF i \in DOMAIN p THEN p[i] ELSE ""
IsAbsolute(p) == CharAt(p, 1) = Slash
DropFirst(p, n) == SubSeq(p, n + 1, Len(p))

\* The parts between slashes, without the empty ones.
PathParts(p) ==
    LET cut(s, c) == IF c = Slash THEN Append(s, <<>>) ELSE Append(Front(s), Append(s[Len(s)], c))
    IN  SelectSeq(FoldLeft(cut, <<<<>>>>, p), LAMBDA part : part # <<>>)

JoinParts(parts) ==
    FlattenSeq([k \in DOMAIN parts |-> IF k = 1 THEN parts[k] ELSE <<Slash>> \o parts[k]])

Here == <<Dot>>
Up == <<Dot, Dot>>

-----------------------------------------------------------------------------
(***************************************************************************)
(* require                                                                 *)
(***************************************************************************)
\* A .. that also takes back a .. that was kept.
NormalizePathGreedy(p) ==
    LET abs == IsAbsolute(p)
        take(segs, part) ==
            IF part = Here THEN segs
            ELSE IF part # Up THEN Append(segs, part)
            ELSE IF segs # <<>> THEN Front(segs)
            ELSE IF abs THEN segs ELSE Append(segs, part)
        segs == FoldLeft(take, <<>>, PathParts(p))
    IN  IF abs THEN <<Slash>> \o JoinParts(segs)
        ELSE IF segs = <<>> THEN Here ELSE JoinParts(segs)

\* normalize_path: a leading .. of a relative path is kept.
NormalizePath(p) ==
    LET abs == IsAbsolute(p)
        take(segs, part) ==
            IF part = Here THEN segs
            ELSE IF part # Up THEN Append(segs, part)
            ELSE IF segs # <<>> /\ segs[Len(segs)] # Up THEN Front(segs)
            ELSE IF abs THEN segs ELSE Append(segs, part)
        segs == FoldLeft(take, <<>>, PathParts(p))
    IN  IF abs THEN <<Slash>> \o JoinParts(segs)
        ELSE IF segs = <<>> THEN Here ELSE JoinParts(segs)

EndsWith(p, s) == Len(p) >= Len(s) /\ SubSeq(p, Len(p) - Len(s) + 1, Len(p)) = s
WithSuffix(p) == IF EndsWith(p, Suffix) THEN p ELSE p \o Suffix
NormalizeTarget(p) == NormalizePath(WithSuffix(p))

LastSlash(p) == LET S == {i \in DOMAIN p : p[i] = Slash}
                IN  IF S = {} THEN 0 ELSE CHOOSE i \in S : \A j \in S : j <= i

\* resolve_relative_path: beside base.  The slash of a file in the root directory
\* is its first character, and counts as none.
ResolveBeside(base, rel) ==
    IF IsAbsolute(rel) THEN NormalizeTarget(rel)
    ELSE LET dir == SubSeq(base, 1, LastSlash(base) - 1)
         IN  NormalizePath(WithSuffix(IF dir = <<>> THEN rel ELSE dir \o <<Slash>> \o rel))

\* resolve_from_dir: along the load path.
ResolveFromDir(dir, rel) ==
    IF IsAbsolute(rel) THEN NormalizeTarget(rel)
    ELSE NormalizePath(WithSuffix(IF dir = <<>> THEN rel ELSE dir \o <<Slash>> \o rel))

-----------------------------------------------------------------------------
(***************************************************************************)
(* File                                                                    *)
(***************************************************************************)
\* p without the slashes it ends with; a path of slashes keeps the first.
Trimmed(p) ==
    LET keep == {n \in 1 .. Len(p) : n = 1 \/ p[n] # Slash}
    IN  IF p = <<>> THEN <<>> ELSE SubSeq(p, 1, CHOOSE n \in keep : \A m \in keep : m <= n)

LastName(p) == LET t == Trimmed(p) IN DropFirst(t, LastSlash(t))

\* Where the dots of a name are, but for one it begins with.
Dots(name) == {i \in 2 .. Len(name) : name[i] = Dot}

\* basename; with ".*" the loop over the dots shortens the name it runs over, and
\* so stops at the first.
Basename(p) == IF p # <<>> /\ LastName(p) = <<>> THEN <<Slash>> ELSE LastName(p)
BasenameAny(p) ==
    LET name == LastName(p)  D == Dots(name)
    IN  IF name = <<>> THEN Basename(p)
        ELSE IF D = {} THEN name
        ELSE SubSeq(name, 1, (CHOOSE i \in D : \A j \in D : i <= j) - 1)
BasenameWithout(p, ext) ==
    LET name == LastName(p)
    IN  IF name = <<>> THEN Basename(p)
        ELSE IF Len(name) > Len(ext) /\ EndsWith(name, ext)
             THEN SubSeq(name, 1, Len(name) - Len(ext)) ELSE name

Dirname(p) ==
    LET t == Trimmed(p)  s == LastSlash(t)
    IN  IF s = 0 THEN Here
        ELSE IF s = 1 THEN <<Slash>>
        ELSE Trimmed(SubSeq(t, 1, s - 1))

Extname(p) ==
    LET name == LastName(p)  D == Dots(name)
    IN  IF D = {} THEN <<>> ELSE DropFirst(name, (CHOOSE i \in D : \A j \in D : j <= i) - 1)

\* split works its own parts out: a path of slashes has the empty base.
SplitPath(p) == <<Dirname(p), LastName(p)>>

\* join: one slash between two parts, whatever they end and begin with.
JoinPaths(ps) ==
    LET from(s) == LET S == {i \in 0 .. Len(s) : i = Len(s) \/ s[i + 1] # Slash}
                   IN  CHOOSE i \in S : \A j \in S : i <= j
        upTo(s) == LET S == {i \in 0 .. Len(s) : i = 0 \/ s[i] # Slash}
                   IN  CHOOSE i \in S : \A j \in S : j <= i
    IN  IF ps = <<>> THEN <<>>
        ELSE FoldLeft(LAMBDA buf, s : SubSeq(buf, 1, upTo(buf)) \o <<Slash>> \o DropFirst(s, from(s)),
                      ps[1], DropFirst(ps, 1))

\* path_expand_tilde, build_absolute_path, lexical_normalize_path
ExpandTilde(p) == IF CharAt(p, 1) = "~" /\ CharAt(p, 2) \in {Slash, ""} THEN HomeDir \o DropFirst(p, 1) ELSE p

BuildAbsolute(path, base, tilde) ==
    LET p == IF tilde THEN ExpandTilde(path) ELSE path
        b == IF tilde THEN ExpandTilde(base) ELSE base
        from == IF b = <<>> THEN Cwd ELSE IF IsAbsolute(b) THEN b ELSE Cwd \o <<Slash>> \o b
    IN  IF IsAbsolute(p) THEN p ELSE from \o <<Slash>> \o p

LexicalNormalize(p) ==
    LET take(comps, part) ==
            IF part = Here THEN comps
            ELSE IF part # Up THEN Append(comps, part)
            ELSE IF comps = <<>> THEN comps ELSE Front(comps)
        comps == FoldLeft(take, <<>>, PathParts(p))
    IN  (IF IsAbsolute(p) \/ comps = <<>> THEN <<Slash>> ELSE <<>>) \o JoinParts(comps)

\* expand_path and absolute_path; no base is the empty one.
ExpandPath(p, base) == LexicalNormalize(BuildAbsolute(p, base, TRUE))
AbsolutePath(p, base) == LexicalNormalize(BuildAbsolute(p, base, FALSE))

-----------------------------------------------------------------------------
(***************************************************************************)
(* The calls                                                               *)
(***************************************************************************)
Tildes == {<<"~">> \o p : p \in PathsUpTo(2)}
Shorter == PathsUpTo(MaxPath - 2)

PathCall ==
    /\ NoCall
    /\ \/ \E p \in PathsUpTo(MaxPath) :
              Make([op |-> "path", p |-> p, norm |-> NormalizePath(p), again |-> NormalizePath(NormalizePath(p)),
                    target |-> NormalizeTarget(p), base |-> Basename(p), dir |-> Dirname(p),
                    ext |-> Extname(p), split |-> SplitPath(p), any |-> BasenameAny(p),
                    stem |-> BasenameWithout(p, Suffix)])
       \/ \E p, q \in Shorter :
              Make([op |-> "beside", p |-> p, q |-> q, beside |-> ResolveBeside(p, q),
                    from |-> ResolveFromDir(p, q), joined |-> JoinPaths(<<p, q>>),
                    three |-> <<JoinPaths(<<p, q, p>>), JoinPaths(<<JoinPaths(<<p, q>>), p>>)>>])
       \/ \E p \in Shorter \cup Tildes, q \in PathsUpTo(2) \cup Tildes :
              Make([op |-> "expand_path", p |-> p, q |-> q, expand |-> ExpandPath(p, q),
                    absolute |-> AbsolutePath(p, q)])

-----------------------------------------------------------------------------
(***************************************************************************)
(* What the calls return                                                   *)
(***************************************************************************)
\* The directory one reaches from the directory d (a sequence of names), taking
\* the steps that p names; the root's parent is the root.
Reached(d, p) ==
    LET step(at, part) == IF part = Here THEN at
                          ELSE IF part = Up THEN IF at = <<>> THEN at ELSE Front(at)
                          ELSE Append(at, part)
    IN  FoldLeft(step, IF IsAbsolute(p) THEN <<>> ELSE d, PathParts(p))

\* Somewhere with more parents than a path can climb.
DeepDir == [k \in 1 .. 2 * MaxPath |-> <<"d", "e">>]
Same(p, q) == IsAbsolute(p) = IsAbsolute(q) /\ Reached(DeepDir, p) = Reached(DeepDir, q)

\* Nothing in p can be left out: no empty part, no ".", and .. only to begin with.
Minimal(p) ==
    \/ p \in {Here, <<Slash>>}
    \/ LET parts == PathParts(p)
       IN  /\ p = (IF IsAbsolute(p) THEN <<Slash>> ELSE <<>>) \o JoinParts(parts)
           /\ \A k \in DOMAIN parts :
                  parts[k] # Here /\ (parts[k] = Up => ~IsAbsolute(p) /\ (k = 1 \/ parts[k - 1] = Up))

\* The file that a name without its suffix also stands for.
Directory(p) == Reached(DeepDir, SubSeq(p, 1, LastSlash(p)))
Doubled(p) == \E i \in 1 .. Len(p) - 1 : p[i] = Slash /\ p[i + 1] = Slash
RelativeTo(d, rel) == Reached(d, WithSuffix(rel))

\* Every path function leads to the same file as the path it was given:
\* normalizing, once or twice, leaves a shortest path to it; require_relative
\* looks beside the requiring file unless that is in the root directory, require
\* in the directory of the load path; dirname and basename take apart what join
\* puts together, and split agrees with them, paths of slashes excepted;
\* basename and extname share the name between them (".*" takes every extension);
\* join of three is join of two, twice, and doubles no slash; expand_path ends
\* where base, ~ and the working directory say.
PathsAgree ==
    CASE call.op = "path" ->
             LET p == call.p  name == LastName(p)
             IN  /\ Same(call.norm, p) /\ Minimal(call.norm) /\ call.again = call.norm
                 /\ Same(call.target, WithSuffix(p)) /\ Minimal(call.target)
                 /\ p # <<>> => Same(JoinPaths(<<call.dir, call.base>>), p)
                 /\ call.split = <<call.dir, IF ToSet(p) = {Slash} THEN <<>> ELSE call.base>>
                 /\ \A c \in {call.dir, call.base} : Len(c) > 1 => c[Len(c)] # Slash
                 /\ call.dir # <<>> /\ (call.stem = <<>> => call.base = <<>>)
                 /\ call.ext # <<>> => /\ call.ext[1] = Dot /\ Dot \notin ToSet(DropFirst(call.ext, 1))
                                       /\ EndsWith(call.base, call.ext) /\ call.base # call.ext
                 /\ Dot \notin ToSet(DropFirst(call.any, 1))
                 /\ call.ext = <<>> => call.any = call.base
                 /\ Cardinality(Dots(name)) = 1 => call.any \o call.ext = call.base
                 /\ call.base \in {call.stem, call.stem \o Suffix}
                 /\ call.ext = Suffix => call.stem \o Suffix = call.base
      [] call.op = "beside" ->
             /\ IF IsAbsolute(call.q) THEN Same(call.beside, WithSuffix(call.q))
                ELSE LastSlash(call.p) # 1 =>
                         /\ Reached(DeepDir, call.beside) = RelativeTo(Directory(call.p), call.q)
                         /\ IsAbsolute(call.beside) = IsAbsolute(call.p)
             /\ IF IsAbsolute(call.q) THEN Same(call.from, WithSuffix(call.q))
                ELSE Reached(DeepDir, call.from) = RelativeTo(Reached(DeepDir, call.p), call.q)
             /\ Minimal(call.beside) /\ Minimal(call.from)
             /\ call.p # <<>> =>
                    /\ PathParts(call.joined) = PathParts(call.p) \o PathParts(call.q)
                    /\ IsAbsolute(call.joined) = IsAbsolute(call.p)
                    /\ ~Doubled(call.p) /\ ~Doubled(call.q) => ~Doubled(call.joined)
             /\ call.three[1] = call.three[2]
      [] call.op = "expand_path" ->
             LET from(tilde, p) ==
                     IF tilde /\ CharAt(p, 1) = "~" /\ PathParts(p)[1] = <<"~">>
                     THEN HomeDir \o DropFirst(p, 1) ELSE p
                 cwd == PathParts(Cwd)
                 goal(tilde) == Reached(Reached(cwd, from(tilde, call.q)), from(tilde, call.p))
             IN  /\ IsAbsolute(call.expand) /\ Minimal(call.expand)
                 /\ IsAbsolute(call.absolute) /\ Minimal(call.absolute)
                 /\ PathParts(call.expand) = goal(TRUE)
                 /\ PathParts(call.absolute) = goal(FALSE)
      [] OTHER -> TRUE
=============================================================================
