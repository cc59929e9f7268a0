------------------------------ MODULE Constants -------------------------------
(***************************************************************************)
(* Constants: bodies of classes and modules, assignments to constants, and *)
(* what a name or a path of names finds (eval.c), against the rule of the  *)
(* language: the bodies around the name first, then the ancestors of the   *)
(* innermost one, then the top level.                                      *)
(*                                                                         *)
(* A class has an environment of its own, which stands in that of the class*)
(* it was created in, and is entered at the top level under its full name, *)
(* too.  A name that has "::" in it is a sequence here.                    *)
(***************************************************************************)
EXTENDS Integers, SequencesExt, Calls

CONSTANT MaxStatements   \* bound on the statements of a program, ends not counted

ASSUME StatementsAssumption == MaxStatements \in Nat

\* A value: a class, by its number, or another one, by the time it was made.
Missing == [class |-> 0, time |-> 0]
ClassRef(c) == [class |-> c, time |-> 0]
IsClass(v) == v.class # 0
FirstFound(values) ==
    LET found == {i \in DOMAIN values : values[i] # Missing}
    IN  IF found = {} THEN Missing ELSE values[Min(found)]

-----------------------------------------------------------------------------
(***************************************************************************)
(* st.classes are the classes and modules in the order of their creation,  *)
(* each with the classes whose environments its own one stands in (env) and*)
(* those it inherits from (supers), from itself on.  st.top is the list of *)
(* the top level's entries, the latest first.  st.bodies are the classes   *)
(* whose bodies are open; class 0 is the top level.  st.reads is what the  *)
(* last statement found, st.ended whether it raised an error.              *)
(***************************************************************************)
TopGet(st, name) ==
    FirstFound([i \in DOMAIN st.top |-> IF st.top[i].name = name THEN st.top[i].v ELSE Missing])

Own(st, c, n) == IF n \in DOMAIN st.classes[c].vars THEN st.classes[c].vars[n] ELSE Missing

\* env_get, from a class's environment outwards.
\* Mutant of ConstGet: what is around a class's environment is not looked at.
ConstGetOwn(st, c, n) == IF c = 0 THEN TopGet(st, <<n>>) ELSE Own(st, c, n)
ConstGet(st, c, n) ==
    FirstFound([i \in DOMAIN st.classes[c].env |-> Own(st, st.classes[c].env[i], n)] \o <<TopGet(st, <<n>>)>>)

\* lookup_const_on_class: a class and its superclasses, with what is around each.
InClass(st, c, n) ==
    LET supers == st.classes[c].supers IN FirstFound([i \in DOMAIN supers |-> ConstGet(st, supers[i], n)])

\* A class, and the classes that its name says it stands in, as long as there are any.
NamedScopes(st, c) ==
    LET name == st.classes[c].name
        scope(i) == TopGet(st, SubSeq(name, 1, i))
        gaps == {i \in 1 .. Len(name) - 1 : ~IsClass(scope(i))}
    IN  <<c>> \o [i \in 1 .. Len(name) - 1 - Max(gaps \cup {0}) |-> scope(Len(name) - i).class]

InScopes(st, c, n) ==
    IF c = 0 THEN Missing
    ELSE LET scopes == NamedScopes(st, c) IN FirstFound([i \in DOMAIN scopes |-> InClass(st, scopes[i], n)])

\* The last resort: an entry of the top level whose name begins with that of the
\* class (no name in the programs is the beginning of another).
LastResort(st, c, n) ==
    LET fits(e) == /\ Len(e.name) > Len(st.classes[c].name)
                   /\ IsPrefix(st.classes[c].name, e.name) /\ Last(e.name) = n
    IN  IF c = 0 THEN Missing
        ELSE FirstFound([i \in DOMAIN st.top |-> IF fits(st.top[i]) THEN st.top[i].v ELSE Missing])

LookupHead(st, c, n) == FirstFound(<<InScopes(st, c, n), TopGet(st, <<n>>), LastResort(st, c, n)>>)

\* lookup_const_path, in the body of c: what each name of the path finds in what
\* the one before it found, up to the first that finds nothing.
LookupPath(st, c, path) ==
    LET next(seen, n) ==
            IF seen = <<>> THEN <<LookupHead(st, c, n)>>
            ELSE IF Last(seen) = Missing THEN seen
            ELSE Append(seen, IF IsClass(Last(seen)) THEN InClass(st, Last(seen).class, n) ELSE Missing)
    IN  FoldLeft(next, <<>>, path)

Seen(st, found) == [st EXCEPT !.reads = @ \o found]

\* env_define
TopSet(st, name, v) ==
    IF TopGet(st, name) = Missing THEN [st EXCEPT !.top = <<[name |-> name, v |-> v]>> \o @]
    ELSE [st EXCEPT !.top = [i \in DOMAIN @ |-> IF @[i].name = name THEN [@[i] EXCEPT !.v = v] ELSE @[i]]]
SetOwn(st, c, n, v) ==
    [st EXCEPT !.classes[c].vars = [m \in DOMAIN @ \cup {n} |-> IF m = n THEN v ELSE @[m]]]
DefineConst(st, c, n, v) == IF c = 0 THEN TopSet(st, <<n>>, v) ELSE SetOwn(st, c, n, v)

Qualified(st, c, name) == IF c = 0 THEN name ELSE st.classes[c].name \o name

-----------------------------------------------------------------------------
(***************************************************************************)
(* Statements of a program, executed in the body of c.  A set assigns to a *)
(* path, in a block if inBlock; a const_set is sent to the class a path    *)
(* finds; open is the first line of a class or module, end its last one.   *)
(***************************************************************************)
Ticked(st) == [st EXCEPT !.time = @ + 1, !.reads = <<>>]
Stopped(st) == [st EXCEPT !.ended = TRUE]
Made(st) == [class |-> 0, time |-> st.time]

\* assign_target: a block's environment is not that of the class around it.  A path
\* whose first part is no class is taken for a name.
AssignConst(st, c, s) ==
    LET found == LookupPath(st, c, Front(s.path))
        in == IF s.inBlock THEN 0 ELSE c
    IN  IF Len(s.path) = 1
        THEN LET own == DefineConst(st, in, s.path[1], Made(st))
             IN  IF in = 0 THEN own ELSE TopSet(own, Qualified(st, c, s.path), Made(st))
        ELSE IF IsClass(Last(found))
        THEN TopSet(Seen(SetOwn(st, Last(found).class, Last(s.path), Made(st)), found), s.path, Made(st))
        ELSE TopSet(Seen(st, found), Qualified(st, in, s.path), Made(st))

\* Module#const_set
SetConst(st, c, s) ==
    LET found == LookupPath(st, c, s.path)  k == Last(found).class
    IN  IF k = 0 THEN Stopped(Seen(st, found))
        ELSE TopSet(SetOwn(Seen(st, found), k, s.n, Made(st)), Qualified(st, k, <<s.n>>), Made(st))

\* A class or module statement: the class of that name in that place and of that
\* kind is opened again, anything else replaced.
NewClass(st, s, target, fullName, super) ==
    LET id == Len(st.classes) + 1
        around == IF target = 0 THEN <<>> ELSE st.classes[target].env
        above == IF super = 0 THEN <<>> ELSE st.classes[super].supers
        made == [st EXCEPT !.classes = Append(@, [name |-> fullName, vars |-> <<>>, module |-> s.module,
                                                  env |-> <<id>> \o around, supers |-> <<id>> \o above])]
    IN  TopSet(DefineConst(made, target, Last(s.path), ClassRef(id)), fullName, ClassRef(id))

OpenBody(st, c, s) ==
    LET outer == LookupPath(st, c, Front(s.path))
        target == IF Len(s.path) = 1 THEN c ELSE Last(outer).class
        fullName == IF Len(s.path) = 1 THEN Qualified(st, c, s.path) ELSE s.path
        looked == Seen(st, outer)
        old == IF target = 0 THEN TopGet(st, <<Last(s.path)>>) ELSE Own(st, target, Last(s.path))
        super == LookupPath(st, c, s.super)
        enter(t, k) == [t EXCEPT !.bodies = Append(@, k)]
    IN  CASE Len(s.path) > 1 /\ target = 0 -> Stopped(looked)
          [] IsClass(old) /\ st.classes[old.class].module = s.module -> enter(looked, old.class)
          [] s.super # <<>> /\ ~IsClass(Last(super)) -> Stopped(Seen(looked, super))
          [] OTHER -> enter(NewClass(Seen(looked, super), s, target, fullName,
                                     IF s.super = <<>> THEN 0 ELSE Last(super).class),
                            Len(st.classes) + 1)

Execute(st, s) ==
    LET c == Last(st.bodies)
    IN  CASE s.k = "set" -> AssignConst(st, c, s)
          [] s.k = "const_set" -> SetConst(st, c, s)
          [] s.k = "open" -> OpenBody(st, c, s)
          [] s.k = "end" -> [st EXCEPT !.bodies = Front(@)]

-----------------------------------------------------------------------------
(***************************************************************************)
(* The same by the rule of the language.  A class has its own constants, a *)
(* its ancestors and namespaces (both from itself on), and the bodies      *)
(* around it where it was created (cref, from the top level on).  What it  *)
(* finds has to be exact, or can be hidden by what the name is in the      *)
(* namespaces of the class and of its ancestors (outer), or is left open.  *)
(***************************************************************************)
Of(w, c, n) ==
    LET own == IF c = 0 THEN w.consts ELSE w.classes[c].vars IN IF n \in DOMAIN own THEN own[n] ELSE Missing
OuterValues(w, c, n) == {Of(w, o, n) : o \in {0} \cup UNION {ToSet(w.classes[a].homes) : a \in ToSet(w.classes[c].supers)}}

\* What the first of the classes that has n has under it.
Among(w, classes, n) == FirstFound([i \in DOMAIN classes |-> Of(w, classes[i], n)])
Exactly(v) == [v |-> v, how |-> "exact", outer |-> {}]
Hideable(v, outer) == [v |-> v, how |-> "hideable", outer |-> outer]
MemberMeans(w, c, n) ==
    IF Of(w, c, n) # Missing THEN Exactly(Of(w, c, n))
    ELSE Hideable(Among(w, w.classes[c].supers, n), OuterValues(w, c, n))

\* The bodies around the text are the namespaces of the class.
Natural(w, cref) == cref = <<0>> \o Reverse(w.classes[Last(cref)].homes)
NameMeans(w, cref, n) ==
    LET c == Last(cref)
        lexical == Among(w, Reverse(Tail(cref)), n)
        inherited == Among(w, w.classes[c].supers \o <<0>>, n)
    IN  IF c = 0 THEN Exactly(Of(w, 0, n))
        ELSE IF lexical = Missing THEN Hideable(inherited, OuterValues(w, c, n))
        ELSE IF Natural(w, cref) \/ Of(w, c, n) # Missing THEN Exactly(lexical)
        ELSE [v |-> lexical, how |-> "open", outer |-> {}]
PathMeans(w, cref, path) ==
    LET next(seen, n) ==
            IF seen = <<>> THEN <<NameMeans(w, cref, n)>>
            ELSE IF Last(seen).v = Missing THEN seen
            ELSE Append(seen, IF IsClass(Last(seen).v) THEN MemberMeans(w, Last(seen).v.class, n)
                              ELSE Exactly(Missing))
    IN  FoldLeft(next, <<>>, path)

GivenIn(w, c, n, v) ==
    LET with(own) == [m \in DOMAIN own \cup {n} |-> IF m = n THEN v ELSE own[m]]
    IN  IF c = 0 THEN [w EXCEPT !.consts = with(@)] ELSE [w EXCEPT !.classes[c].vars = with(@)]

\* An assignment in a block is left out of the rule: the code makes it one of the top
\* level's, whatever is around it.
AssignedTo(w, cref, s) ==
    LET found == PathMeans(w, cref, Front(s.path))
        target == IF Len(s.path) = 1 THEN (IF s.inBlock THEN 0 ELSE Last(cref)) ELSE Last(found).v.class
    IN  IF Len(s.path) > 1 /\ target = 0 THEN Stopped(Seen(w, found))
        ELSE GivenIn(Seen(w, found), target, Last(s.path), Made(w))

SetIn(w, cref, s) ==
    LET found == PathMeans(w, cref, s.path)
    IN  IF IsClass(Last(found).v) THEN GivenIn(Seen(w, found), Last(found).v.class, s.n, Made(w))
        ELSE Stopped(Seen(w, found))

\* A class that is there already keeps its kind and its superclass.
OpenedAs(w, cref, s) ==
    LET outer == PathMeans(w, cref, Front(s.path))
        home == IF Len(s.path) = 1 THEN Last(cref) ELSE Last(outer).v.class
        looked == Seen(w, outer)
        old == Of(w, home, Last(s.path))
        supers == PathMeans(w, cref, s.super)
        super == IF s.super = <<>> THEN 0 ELSE Last(supers).v.class
        id == Len(w.classes) + 1
        made == [Seen(looked, supers) EXCEPT !.classes = Append(@,
                    [vars |-> <<>>, module |-> s.module, cref |-> Append(cref, id),
                     supers |-> <<id>> \o IF super = 0 THEN <<>> ELSE w.classes[super].supers,
                     homes |-> <<id>> \o IF home = 0 THEN <<>> ELSE w.classes[home].homes])]
        fits(k) == k.module = s.module /\ (s.super # <<>> => Len(k.supers) > 1 /\ k.supers[2] = super)
        enter(v, k) == [v EXCEPT !.bodies = Append(@, k)]
    IN  IF Len(s.path) > 1 /\ home = 0 THEN Stopped(looked)
        ELSE IF IsClass(old)
        THEN IF fits(w.classes[old.class]) THEN enter(looked, old.class) ELSE Stopped(looked)
        ELSE IF s.super # <<>> /\ (super = 0 \/ w.classes[super].module) THEN Stopped(Seen(looked, supers))
        ELSE enter(GivenIn(made, home, Last(s.path), ClassRef(id)), id)

Meant(w, s) ==
    CASE s.k = "set" -> AssignedTo(w, w.bodies, s)
      [] s.k = "const_set" -> SetIn(w, w.bodies, s)
      [] s.k = "open" -> OpenedAs(w, w.bodies, s)
      [] s.k = "end" -> [w EXCEPT !.bodies = Front(@)]

-----------------------------------------------------------------------------
(***************************************************************************)
(* A program runs by both, one statement after another, as long as they    *)
(* find the same and there is no error.                                    *)
(***************************************************************************)
ReadableNames == {"A", "B", "X"}
ReadablePaths == {<<"A", "X">>, <<"B", "X">>, <<"A", "B">>, <<"A", "B", "X">>}
Heads == {[k |-> "open", path |-> h[1], super |-> h[2], module |-> h[3]] :
             h \in {<< <<"A">>, <<>>, FALSE>>, << <<"A">>, <<>>, TRUE>>, << <<"B">>, <<>>, FALSE>>, << <<"B">>, <<"A">>, FALSE>>,
                     << <<"A", "B">>, <<>>, FALSE>>, << <<"B">>, <<"A", "B">>, FALSE>>}}
Sets == {[k |-> "set", path |-> p, inBlock |-> FALSE] : p \in {<<"X">>, <<"A", "X">>, <<"B", "X">>}}
SetInBlock == [k |-> "set", path |-> <<"X">>, inBlock |-> TRUE]

Unset == [classes |-> <<>>, time |-> 0, reads |-> <<>>, ended |-> FALSE, bodies |-> <<0>>]
StartProgram == Make([op |-> "constants", st |-> Unset @@ [top |-> <<>>], w |-> Unset @@ [consts |-> <<>>]])

SameReads(found, meant) == Len(found) = Len(meant) /\ \A i \in DOMAIN meant : found[i] = meant[i].v
GoesOn == call.op = "constants" /\ ~call.st.ended /\ ~call.w.ended /\ SameReads(call.st.reads, call.w.reads)

Do(s) == call' = [call EXCEPT !.st = Execute(Ticked(@), s), !.w = Meant(Ticked(@), s)]
NextStatement ==
    /\ GoesOn
    /\ \/ call.st.time < MaxStatements /\ \E s \in Sets \cup Heads : Do(s)
       \/ call.st.time < MaxStatements /\ Do([k |-> "const_set", path |-> <<"A">>, n |-> "X"])
       \/ call.st.time < MaxStatements /\ Last(call.st.bodies) # 0 /\ Do(SetInBlock)
       \/ Last(call.st.bodies) # 0 /\ call' = [call EXCEPT !.st = Execute(@, [k |-> "end"]), !.w = Meant(@, [k |-> "end"])]

ConstantCall == StartProgram \/ NextStatement

\* What a read finds is what it should.
ReadRight(got, want) ==
    \/ got = want.v \/ want.v = Missing \/ want.how = "open"
    \/ want.how = "hideable" /\ got \in want.outer \ {Missing}
ReadsRight(found, meant) ==
    LET differing == {i \in DOMAIN meant : i \notin DOMAIN found \/ found[i] # meant[i].v}
        i == Min(differing)
    IN  differing # {} => IF i \in DOMAIN found THEN ReadRight(found[i], meant[i]) ELSE FALSE

\* A constant of the bodies around a name, or of the class a path leads to, is the
\* one that is found, however it was made and last assigned to.  One that is inherited
\* or found at the top level can be hidden by another of that name around the class or
\* an ancestor.  What the language does not find at all is left open, and so is what
\* a body that is opened by a path inside another one finds in that one.
ConstantsAgree ==
    call.op = "constants" =>
        LET st == call.st  w == call.w
        IN  /\ ReadsRight(st.reads, w.reads)
            /\ SameReads(st.reads, w.reads) /\ ~w.ended =>
                   /\ ~st.ended
                   /\ \A c \in DOMAIN w.classes, n \in ReadableNames :
                          ReadRight(LookupHead(st, c, n), NameMeans(w, w.classes[c].cref, n))
                   /\ \A p \in ReadablePaths : ReadsRight(LookupPath(st, 0, p), PathMeans(w, <<0>>, p))
=============================================================================
