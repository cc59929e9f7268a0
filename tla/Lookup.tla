------------------------------- MODULE Lookup -------------------------------
(***************************************************************************)
(* Classes, modules and method lookup.                                     *)
(*                                                                         *)
(* A class keeps its methods in its environment (class_env), instance      *)
(* methods under their name and class methods under "self.<name>", and     *)
(* three lists of modules, the latest first: prepended, included and       *)
(* extended.  Class bodies run with that environment as their scope; where *)
(* a def goes and with what visibility is read from two variables kept in  *)
(* it, __singleton_target__ and __visibility__, which `class << self`      *)
(* saves and restores and every (re)opening of the class resets.           *)
(*                                                                         *)
(* Dispatch, respond_to?, super, ancestors, is_a? and include? each walk   *)
(* this structure with a loop of their own; the properties relate them.    *)
(***************************************************************************)
EXTENDS Naturals, Sequences, FiniteSets, FiniteSetsExt, SequencesExt

CONSTANTS Classes,      \* classes with fixed superclasses
          Modules,
          Superclass,   \* Superclass[c]: a class or Nil
          Outer,        \* Outer[k]: the class or module k is written in, or Nil
          ObjClass,     \* the class of the one object with a singleton
          Defined,      \* the names def is used with
          Aliases,      \* the names alias is used with
          MaxBodies,    \* bound on class bodies open at once
          MaxSize,      \* bound on methods, inclusions and open bodies together
          Nil

VARIABLES own,          \* own[k][n]: the instance method n of k
          selfs,        \* selfs[k][n]: the entry "self.n" of k
          included, prepended, extended,
          single,       \* single[n]: the object's singleton_env
          mixed,        \* included_modules of the object's __sclass__
          top,          \* names with a method in top_env
          bodies,       \* class bodies being evaluated, innermost last
          target, mode  \* __singleton_target__ set?, __visibility__, per class

\* No class is above itself and none is written inside itself.
ASSUME LookupAssumption ==
    /\ Classes \cap Modules = {} /\ ObjClass \in Classes
    /\ Nil \notin Classes \union Modules \union {"self"} /\ "self" \notin Classes \union Modules
    /\ Superclass \in [Classes -> Classes \union {Nil}]
    /\ Outer \in [Classes \union Modules -> Classes \union Modules \union {Nil}]
    /\ \A S \in SUBSET Classes : S # {} => \E c \in S : Superclass[c] \notin S
    /\ \A S \in SUBSET (Classes \union Modules) : S # {} => \E k \in S : Outer[k] \notin S

vars == <<own, selfs, included, prepended, extended, single, mixed, top, bodies, target, mode>>
lists == <<included, prepended, extended>>
bodyVars == <<bodies, target, mode>>

Kinds == Classes \union Modules
Names == Defined \union Aliases
Visibilities == {"public", "private", "protected"}
Method(entry) == entry \in Visibilities
\* Other entries: "none", "undef" (the sentinel of undef_method) and "symbol"
\* (an alias that forwards by name).
NoMethods == [n \in Names |-> "none"]
NotFound == <<"none", Nil>>
Hits == (Visibilities \union {"none", "undef"}) \X (Kinds \union {Nil})

-----------------------------------------------------------------------------
(* The walks of the code.  What a walk does at one class or module is an    *)
(* operator of what it does at the next ones; no class is above itself and  *)
(* no module reaches itself, so every walk comes to an end.                 *)

\* The first of some hits.
FirstHit(hits) ==
    LET found == {i \in DOMAIN hits : hits[i] # NotFound}
    IN  IF found = {} THEN NotFound ELSE hits[Min(found)]

\* What f, a function of a module and of what was found so far, makes of one
\* module after another.
Through(mods, f, start) ==
    LET to[i \in 0 .. Len(mods)] == IF i = 0 THEN start ELSE f[mods[i]][to[i - 1]]
    IN  to[Len(mods)]

Above(k) == IF k \in Modules THEN Nil ELSE Superclass[k]
Line(k) ==
    LET line[x \in Kinds] == IF Above(x) = Nil THEN <<x>> ELSE <<x>> \o line[Above(x)]
    IN  line[k]
InheritsFrom(k, t) == Contains(Line(k), t)

InstanceHit(k, n) == IF own[k][n] \in {"none", "symbol"} THEN NotFound ELSE <<own[k][n], k>>
FindAt(find, x, n) ==
    LET first(mods) == FirstHit([i \in DOMAIN mods |-> find[mods[i]]])
        below == FirstHit(<<first(prepended[x]), InstanceHit(x, n), first(included[x])>>)
    IN  IF below # NotFound \/ Above(x) = Nil THEN below ELSE find[Above(x)]
FindInstance(k, n) == LET find[x \in Kinds] == FindAt(find, x, n) IN find[k]
FirstOf(mods, n) == FirstHit([i \in DOMAIN mods |-> FindInstance(mods[i], n)])

\* env_get from a class environment goes on to the scopes around it.
ScopeGet(k, n) ==
    LET get[x \in Kinds] ==
            IF own[x][n] # "none" THEN own[x][n]
            ELSE IF Outer[x] # Nil THEN get[Outer[x]]
            ELSE IF n \in top THEN "public" ELSE "none"
    IN  get[k]
ScopeGetSelf(k, n) ==
    LET get[x \in Kinds] ==
            IF selfs[x][n] # "none" THEN selfs[x][n]
            ELSE IF Outer[x] # Nil THEN get[Outer[x]] ELSE "none"
    IN  get[k]

\* A walk is [seen, hit]: whether `after` was passed, and what was found.
Walks == [seen : BOOLEAN, hit : Hits]
Unseen == [seen |-> FALSE, hit |-> NotFound]
OwnHit(k, n) == IF Method(ScopeGet(k, n)) THEN <<ScopeGet(k, n), k>> ELSE NotFound
\* Mutant: the class super is called from counts as passed too early.
PassingEarly(w, k, after, n) ==
    IF w.hit # NotFound THEN w
    ELSE [seen |-> w.seen \/ k = after, hit |-> IF w.seen \/ k = after THEN OwnHit(k, n) ELSE NotFound]
Passing(w, k, after, n) ==
    IF w.hit # NotFound THEN w
    ELSE [seen |-> w.seen \/ k = after, hit |-> IF w.seen THEN OwnHit(k, n) ELSE NotFound]
SuperAt(walk, x, w, after, n) ==
    LET here == Passing(Through(prepended[x], walk, w), x, after, n)
        below == Through(included[x], walk, here)
    IN  IF w.hit # NotFound THEN w
        ELSE IF below.hit # NotFound \/ Above(x) = Nil THEN below ELSE walk[Above(x)][below]
SuperWalk(k, after, n) ==
    LET walk[x \in Kinds] == [w \in Walks |-> SuperAt(walk, x, w, after, n)]
    IN  walk[k][Unseen]
FindSuper(k, after, n) == SuperWalk(k, after, n).hit

DirectSelf(k, n) == IF Method(selfs[k][n]) THEN <<selfs[k][n], k>> ELSE NotFound
FindClassMethod(k, n) ==
    FirstHit([i \in DOMAIN Line(k) |->
                 FirstHit(<<DirectSelf(Line(k)[i], n), FirstOf(extended[Line(k)[i]], n)>>)])

\* In the modules a class was extended with, super is looked for or, once `after`
\* was passed, the method.
ClassSuperAt(c, w, after, n) ==
    LET inModule == [m \in Modules |-> [v \in Walks |->
                        IF v.hit # NotFound THEN v
                        ELSE IF v.seen THEN [v EXCEPT !.hit = FindInstance(m, n)]
                        ELSE SuperWalk(m, after, n)]]
    IN  IF w.hit # NotFound THEN w
        ELSE IF w.seen /\ DirectSelf(c, n) # NotFound THEN [w EXCEPT !.hit = DirectSelf(c, n)]
        ELSE Through(extended[c], inModule, [w EXCEPT !.seen = @ \/ c = after])
FindClassSuper(k, after, n) ==
    Through(Line(k), [c \in Kinds |-> [w \in Walks |-> ClassSuperAt(c, w, after, n)]], Unseen).hit

\* collect_class_ancestors: every class and module once, at its first place.
Collections == [list : Seq(Kinds), visited : SUBSET Kinds]
CollectAt(collect, x, acc) ==
    LET early == Through(prepended[x], collect, [acc EXCEPT !.visited = @ \union {x}])
        late == Through(included[x], collect, [early EXCEPT !.list = Append(@, x)])
    IN  IF x \in acc.visited THEN acc
        ELSE IF Above(x) = Nil THEN late ELSE collect[Above(x)][late]
Ancestors(k) ==
    LET collect[x \in Kinds] == [acc \in Collections |-> CollectAt(collect, x, acc)]
    IN  collect[k][[list |-> <<>>, visited |-> {}]].list

\* val_is_a, Class#include? and included_modules look less deep than Ancestors.
DirectlyIn(k, m) == Contains(included[k] \o prepended[k], m)
IsA(m) == \/ Contains(mixed, m)
          \/ \E i \in DOMAIN Line(ObjClass) : DirectlyIn(Line(ObjClass)[i], m)
ThroughIncludes(ms) ==
    {m \in Modules : \A S \in SUBSET Modules :
        ms \subseteq S /\ (\A x \in S : ToSet(included[x]) \subseteq S) => m \in S}
IncludeP(k, m) ==
    m \in ThroughIncludes(UNION {ToSet(included[c] \o prepended[c]) : c \in ToSet(Line(k))})
IncludedModules(k) == ThroughIncludes(UNION {ToSet(included[c]) : c \in ToSet(Line(k))})

-----------------------------------------------------------------------------
(* Calls.  A caller is the object itself, another object of class c, or    *)
(* Nil (the main program); how is "explicit", "public_send" or "implicit". *)

Self == "self"
\* Mutant: public_send is not told apart.
AllowsPublicSend(entry, owner, caller, how) ==
    \/ entry \in {"public", "protected"}
    \/ entry = "private" /\ caller = Self
Allows(entry, owner, caller, how) ==
    \/ entry = "public"
    \/ /\ how # "public_send"
       /\ \/ entry = "private" /\ caller = Self
          \/ /\ entry = "protected" /\ caller # Nil
             /\ InheritsFrom(IF caller = Self THEN ObjClass ELSE caller, owner)
             /\ InheritsFrom(ObjClass, owner)

NoMethodError == <<"NoMethodError", Nil>>
Dispatch(n, caller, how) ==
    LET found == FindInstance(ObjClass, n)
        s == single[n]
    IN  IF Method(s) /\ Allows(s, ObjClass, caller, how) THEN <<s, Self>>
        ELSE IF Method(s) /\ s = "protected" THEN NoMethodError
        ELSE IF found # NotFound
             THEN IF Method(found[1]) /\ Allows(found[1], found[2], caller, how)
                  THEN found ELSE NoMethodError
        ELSE NoMethodError

RespondTo(n, private) ==
    LET found == FindInstance(ObjClass, n)
        Seen(entry) == entry = "public" \/ (private /\ Method(entry))
    IN  Seen(single[n]) \/ Seen(found[1])

\* public_send looks before it dispatches.
PublicSend(n) ==
    IF ~RespondTo(n, FALSE) /\ RespondTo(n, TRUE) THEN NoMethodError
    ELSE Dispatch(n, Nil, "public_send")

\* A call without receiver: a method of the class, then one of the scopes
\* around, and only then the rest of dispatch.
Bare(n) == IF FindInstance(ObjClass, n) # NotFound THEN Dispatch(n, Self, "implicit")
           ELSE IF n \in top THEN <<"public", Nil>>
           ELSE Dispatch(n, Self, "implicit")

\* A call on a class; only the class itself may call its private methods.
DispatchClass(k, n, bySelf) ==
    LET found == FindClassMethod(k, n)
    IN  IF found[1] = "public" \/ (found[1] = "private" /\ bySelf) THEN found ELSE NoMethodError
RespondToClass(k, n) == FindClassMethod(k, n)[1] = "public"

-----------------------------------------------------------------------------
(* Changes.                                                                *)

Count(table) == Cardinality({n \in Names : table[n] # "none"})
Size == MapThenSumSet(LAMBDA k : Count(own[k]) + Count(selfs[k]) + Len(included[k])
                                     + Len(prepended[k]) + Len(extended[k]), Kinds)
        + Count(single) + Len(mixed) + Cardinality(top) + Len(bodies)
Room == Size < MaxSize

Here == bodies[Len(bodies)]
InBody == bodies # <<>>
SetTop(field, v) == [bodies EXCEPT ![Len(bodies)][field] = v]

OpenBody(k, kind, wasTarget, wasMode) ==
    bodies' = Append(bodies, [of |-> k, kind |-> kind, vis |-> "public", spoilt |-> FALSE,
                              wasTarget |-> wasTarget, wasMode |-> wasMode])

\* class K ... end, at the top level or in a file required from another body.
OpenClass(k) ==
    /\ Len(bodies) < MaxBodies /\ Room
    /\ OpenBody(k, "class", FALSE, "public")
    /\ target' = [target EXCEPT ![k] = FALSE]
    /\ mode' = [mode EXCEPT ![k] = "public"]
    /\ UNCHANGED <<own, selfs, lists, single, mixed, top>>

\* class << self ... end in the body of k.
OpenSingleton ==
    /\ InBody /\ Len(bodies) < MaxBodies /\ Room
    /\ OpenBody(Here.of, "singleton", target[Here.of], mode[Here.of])
    /\ target' = [target EXCEPT ![Here.of] = TRUE]
    /\ mode' = [mode EXCEPT ![Here.of] = "public"]
    /\ UNCHANGED <<own, selfs, lists, single, mixed, top>>

\* Bodies below one of the same class that did not put things back.
Spoil(bs, k) == [i \in DOMAIN bs |-> [bs[i] EXCEPT !.spoilt = @ \/ bs[i].of = k]]
\* Mutant: the visibility is left as the singleton body set it.
RestoreTarget(b) == target' = [target EXCEPT ![b.of] = b.wasTarget] /\ UNCHANGED mode
Restore(b) == /\ target' = [target EXCEPT ![b.of] = b.wasTarget]
              /\ mode' = [mode EXCEPT ![b.of] = b.wasMode]
CloseBody ==
    /\ InBody
    /\ IF Here.kind = "singleton"
       THEN Restore(Here) /\ bodies' = Front(bodies)
       ELSE bodies' = Spoil(Front(bodies), Here.of) /\ UNCHANGED <<target, mode>>
    /\ UNCHANGED <<own, selfs, lists, single, mixed, top>>

\* A signal leaves the innermost body before its end.
LeaveBody ==
    /\ InBody
    /\ bodies' = Spoil(Front(bodies), Here.of)
    /\ UNCHANGED <<own, selfs, lists, single, mixed, top, target, mode>>

DefIn(table, k, n, v) == table' = [table EXCEPT ![k][n] = v]

\* def n in a body.  __visibility__ = module_function makes a private
\* instance method and, in a module, a public module method.
Def(n) ==
    /\ InBody /\ Room
    /\ LET k == Here.of
           v == IF mode[k] = "module_function" THEN "private" ELSE mode[k]
       IN  IF target[k]
           THEN DefIn(selfs, k, n, v) /\ UNCHANGED own
           ELSE /\ DefIn(own, k, n, v)
                /\ IF mode[k] = "module_function" /\ k \in Modules
                   THEN DefIn(selfs, k, n, "public") ELSE UNCHANGED selfs
    /\ UNCHANGED <<lists, single, mixed, top, bodyVars>>

\* def self.n
DefSelf(k, n) ==
    /\ Room /\ DefIn(selfs, k, n, "public")
    /\ UNCHANGED <<own, lists, single, mixed, top, bodyVars>>

DefTop(n) ==
    /\ ~InBody /\ Room /\ top' = top \union {n}
    /\ UNCHANGED <<own, selfs, lists, single, mixed, bodyVars>>

\* public, private and protected without arguments, and module_function.
SetMode(v) ==
    /\ InBody
    /\ v = "module_function" => Here.of \in Modules
    /\ mode' = [mode EXCEPT ![Here.of] = v] /\ bodies' = SetTop("vis", v)
    /\ UNCHANGED <<own, selfs, lists, single, mixed, top, target>>

Renewed(table, n, v) == [table EXCEPT ![n] = IF Method(@) THEN v ELSE @]

\* private :n changes the instance and the class method of that name.
SetVisibility(n, v) ==
    /\ InBody
    /\ own' = [own EXCEPT ![Here.of] = Renewed(@, n, v)]
    /\ selfs' = [selfs EXCEPT ![Here.of] = Renewed(@, n, v)]
    /\ UNCHANGED <<lists, single, mixed, top, bodyVars>>

\* private_class_method :n
SetClassVisibility(n, v) ==
    /\ InBody
    /\ selfs' = [selfs EXCEPT ![Here.of] = Renewed(@, n, v)]
    /\ UNCHANGED <<own, lists, single, mixed, top, bodyVars>>

\* module_function :n
ModuleFunction(n) ==
    /\ InBody /\ Here.of \in Modules /\ Room
    /\ FindInstance(Here.of, n) # NotFound
    /\ selfs' = [selfs EXCEPT ![Here.of][n] = FindInstance(Here.of, n)[1]]
    /\ own' = [own EXCEPT ![Here.of] = Renewed(@, n, "private")]
    /\ UNCHANGED <<lists, single, mixed, top, bodyVars>>

\* alias new old, and alias_method.
Alias(new, old) ==
    /\ InBody /\ Room /\ ~target[Here.of]
    /\ FindInstance(Here.of, old) # NotFound
    /\ DefIn(own, Here.of, new, FindInstance(Here.of, old)[1])
    /\ UNCHANGED <<selfs, lists, single, mixed, top, bodyVars>>

\* alias in a singleton body: the old method is looked for in the class and
\* the scopes around it; one that is inherited is left a name that nothing
\* calls.
AliasClassMethod(new, old) ==
    /\ InBody /\ Size <= MaxSize /\ target[Here.of]
    /\ LET k == Here.of
       IN  IF Method(ScopeGetSelf(k, old)) THEN DefIn(selfs, k, new, ScopeGetSelf(k, old))
           ELSE Method(FindClassMethod(k, old)[1]) /\ DefIn(selfs, k, new, "symbol")
    /\ UNCHANGED <<own, lists, single, mixed, top, bodyVars>>

RemoveMethod(k, n) ==
    /\ own[k][n] \notin {"none", "undef"} /\ DefIn(own, k, n, "none")
    /\ UNCHANGED <<selfs, lists, single, mixed, top, bodyVars>>

UndefMethod(k, n) ==
    /\ Room /\ DefIn(own, k, n, "undef")
    /\ UNCHANGED <<selfs, lists, single, mixed, top, bodyVars>>

\* Modules a module reaches: none of them may be given to it again, or the
\* walks would not end (the program is then lost in a C stack overflow).
Reaches(m) ==
    {k \in Modules : \A S \in SUBSET Modules :
        m \in S /\ (\A x \in S : ToSet(included[x] \o prepended[x]) \subseteq S) => k \in S}

Include(k, m) ==
    /\ Room /\ k \notin Reaches(m)
    /\ included' = [included EXCEPT ![k] = <<m>> \o @]
    /\ UNCHANGED <<own, selfs, prepended, extended, single, mixed, top, bodyVars>>
Prepend(k, m) ==
    /\ Room /\ k \notin Reaches(m)
    /\ prepended' = [prepended EXCEPT ![k] = <<m>> \o @]
    /\ UNCHANGED <<own, selfs, included, extended, single, mixed, top, bodyVars>>
ExtendClass(k, m) ==
    /\ Room /\ k \in Classes
    /\ extended' = [extended EXCEPT ![k] = <<m>> \o @]
    /\ UNCHANGED <<own, selfs, included, prepended, single, mixed, top, bodyVars>>

\* extend on the object copies the methods the module has at this moment.
ExtendObject(m) ==
    /\ Room
    /\ mixed' = <<m>> \o mixed
    /\ single' = [n \in Names |-> IF Method(own[m][n]) THEN own[m][n] ELSE single[n]]
    /\ UNCHANGED <<own, selfs, lists, top, bodyVars>>

DefSingleton(n) ==
    /\ Room /\ single' = [single EXCEPT ![n] = "public"]
    /\ UNCHANGED <<own, selfs, lists, mixed, top, bodyVars>>

Init ==
    /\ own = [k \in Kinds |-> NoMethods] /\ selfs = own /\ single = NoMethods
    /\ included = [k \in Kinds |-> <<>>] /\ prepended = included /\ extended = included
    /\ mixed = <<>> /\ top = {}
    /\ bodies = <<>>
    /\ target = [k \in Kinds |-> FALSE] /\ mode = [k \in Kinds |-> "public"]

Next ==
    \/ \E k \in Kinds : OpenClass(k)
    \/ OpenSingleton
    \/ CloseBody
    \/ LeaveBody
    \/ \E n \in Defined : Def(n) \/ DefTop(n) \/ ModuleFunction(n) \/ DefSingleton(n)
    \/ \E k \in Kinds, n \in Defined : DefSelf(k, n) \/ RemoveMethod(k, n) \/ UndefMethod(k, n)
    \/ \E v \in Visibilities \union {"module_function"} : SetMode(v)
    \/ \E n \in Names, v \in Visibilities : SetVisibility(n, v) \/ SetClassVisibility(n, v)
    \/ \E new \in Aliases, old \in Defined : Alias(new, old) \/ AliasClassMethod(new, old)
    \/ \E k \in Kinds, m \in Modules : Include(k, m) \/ Prepend(k, m) \/ ExtendClass(k, m)
    \/ \E m \in Modules : ExtendObject(m)

Spec == Init /\ [][Next]_vars

-----------------------------------------------------------------------------
(* Properties.                                                             *)

\* A method is looked up in the order `ancestors` reports: the first of them
\* with an entry decides, an undef_method included; on the class side each
\* class is followed by the modules it was extended with.
FirstOwn(chain, n) == FirstHit([i \in DOMAIN chain |-> InstanceHit(chain[i], n)])
Tagged(s, tag) == [i \in DOMAIN s |-> <<tag, s[i]>>]
ClassChain(k) ==
    FlattenSeq([i \in DOMAIN Line(k) |->
        << <<"self", Line(k)[i]>> >>
        \o FlattenSeq([j \in DOMAIN extended[Line(k)[i]] |->
                Tagged(Ancestors(extended[Line(k)[i]][j]), "module")])])
SelfHit(k, n) == IF selfs[k][n] \in {"none", "symbol"} THEN NotFound ELSE <<selfs[k][n], k>>
FirstOnChain(chain, n) ==
    FirstHit([i \in DOMAIN chain |->
                 IF chain[i][1] = "self" THEN SelfHit(chain[i][2], n) ELSE InstanceHit(chain[i][2], n)])
LookupFollowsAncestors ==
    \A k \in Classes, n \in Names :
        /\ FindInstance(k, n) = FirstOwn(Ancestors(k), n)
        /\ FindClassMethod(k, n) = FirstOnChain(ClassChain(k), n)

\* super finds the next ancestor with the method, so every chain of supers
\* ends.  Three cases are excluded because the code fails in them: a module
\* met twice, a method of that name in a scope around the class, undef.
NoRepeats(s) == Cardinality(ToSet(s)) = Len(s)
WalkAt(walk, x) ==
    LET all(mods) == FlattenSeq([i \in DOMAIN mods |-> walk[mods[i]]])
        below == all(prepended[x]) \o <<x>> \o all(included[x])
    IN  IF Above(x) = Nil THEN below ELSE below \o walk[Above(x)]
Walk(k) == LET walk[x \in Kinds] == WalkAt(walk, x) IN walk[k]
PlainSuper(k, n) ==
    NoRepeats(Walk(k)) /\ \A x \in Kinds : own[x][n] \notin {"undef", "symbol"}
NoLeak(ks, n) == \A i \in DOMAIN ks : own[ks[i]][n] = "none" => ~Method(ScopeGet(ks[i], n))
After(chain, i) == SubSeq(chain, i + 1, Len(chain))
SuperFollowsAncestors ==
    \A k \in Classes : \A chain \in {Ancestors(k)}, n \in Names :
        PlainSuper(k, n) =>
            \A i \in DOMAIN chain :
                NoLeak(After(chain, i), n) =>
                    FindSuper(k, chain[i], n) = FirstOwn(After(chain, i), n)

\* super in a class method goes on along the chain of the class side.
ClassSuperFollowsChain ==
    \A k \in Classes, n \in Names : \A chain \in {ClassChain(k)} :
        NoRepeats(chain) /\ (\A x \in Kinds : PlainSuper(x, n)) =>
            \A i \in DOMAIN chain : chain[i][1] = "self" =>
                FindClassSuper(k, chain[i][2], n) = FirstOnChain(After(chain, i), n)

\* The same as SuperFollowsAncestors without the exclusions, as far as the end of the chain needs it:
\* super never goes back to a method it was called from.
SuperAdvances ==
    \A k \in Classes, n \in Names : \A i \in DOMAIN Ancestors(k) :
        LET hit == FindSuper(k, Ancestors(k)[i], n)
        IN  hit # NotFound => Contains(After(Ancestors(k), i), hit[2])

\* respond_to? says whether a call from outside, and a public_send, would run
\* a method, whatever was copied, hidden, undefined or overridden since.  A
\* protected method copied by extend over a public one is excluded: there
\* the call fails although respond_to? is true.
RespondToHonest ==
    \A n \in Names :
        single[n] # "protected" =>
            /\ RespondTo(n, FALSE) <=> Dispatch(n, Nil, "explicit") # NoMethodError
            /\ RespondTo(n, FALSE) <=> PublicSend(n) # NoMethodError
            /\ \A k \in Classes : RespondToClass(k, n) <=> DispatchClass(k, n, FALSE) # NoMethodError

\* A private method runs only for the object itself and a protected one only
\* for objects that have its owner among their ancestors; if the owner is a
\* class, it does run for all of these.  What others may call the object can
\* call itself, without a receiver.
HiddenMethodsStayHidden ==
    \A n \in Names, caller \in Classes \union {Nil} :
        LET run == Dispatch(n, caller, "explicit")
            found == FindInstance(ObjClass, n)
            InFamily(k) == caller # Nil /\ Contains(Ancestors(caller), k)
        IN  /\ run # NoMethodError =>
                   run[1] = "public" \/ (run[1] = "protected"
                                          /\ InFamily(IF run[2] = Self THEN ObjClass ELSE run[2]))
            /\ (single[n] = "none" /\ found[1] = "protected" /\ found[2] \in Classes
                  /\ InFamily(found[2])) => run = found
            /\ run # NoMethodError => Bare(n) # NoMethodError

\* include?, included_modules and is_a? agree with ancestors.  They miss a
\* module prepended to a module, and is_a? every module of a module.
ReflectionAgrees ==
    \A m \in Modules :
        /\ \A k \in Classes :
              (\A x \in Modules : prepended[x] = <<>>) =>
                  /\ IncludeP(k, m) <=> Contains(Ancestors(k), m)
                  /\ (\A c \in ToSet(Line(k)) : prepended[c] = <<>>) =>
                         (m \in IncludedModules(k) <=> Contains(Ancestors(k), m))
        /\ IsA(m) => Contains(mixed, m) \/ Contains(Ancestors(ObjClass), m)
        /\ (\A x \in Modules : included[x] \o prepended[x] = <<>>) /\ Contains(Ancestors(ObjClass), m)
              => IsA(m)

\* In the innermost body a def goes where the text says, with the visibility
\* the text says, also after a class << self in between.  Bodies in which the
\* class was opened again, or a class << self was left by a signal, are
\* excluded: the code does not put the two variables back there.
BodiesKeepTheirMode ==
    InBody /\ ~Here.spoilt =>
        /\ target[Here.of] = (Here.kind = "singleton")
        /\ mode[Here.of] = Here.vis

\* What a call finds, and what super finds from there on, is in the order of
\* ancestors.  This and the next property read the tables only, which every
\* body leaves as they are when a signal ends it (LeaveBody): they are asked
\* for where no body is open.
DispatchFollowsAncestors ==
    ~InBody => LookupFollowsAncestors /\ SuperFollowsAncestors /\ ClassSuperFollowsChain

\* What a program is told about its objects is what calls do.
ReflectionHonest == ~InBody => RespondToHonest /\ ReflectionAgrees

\* The visibility the text gives a method is the one its calls meet.
VisibilityKept == HiddenMethodsStayHidden /\ BodiesKeepTheirMode
=============================================================================
