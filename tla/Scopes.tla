-------------------------------- MODULE Scopes --------------------------------
(***************************************************************************)
(* Local variables: which bare names sema takes for variables and which for*)
(* calls (sema.c), and what the evaluator finds under them in its chain of *)
(* environments (env.c, eval.c), against the rule of the language: a name  *)
(* is a variable from its first assignment in the text on, within its      *)
(* program, def or class; what a block assigns first is gone after it.     *)
(*                                                                         *)
(* A program is a sequence of statements, which are records.  The leaves   *)
(* assign to a name, read it, assign to it unless it is set (opset),       *)
(* assign inside an array literal (setin) or capture it by a pattern; the  *)
(* others have a body, which runs once, at once, or, if it is that of an   *)
(* if not taken, not at all.  Each assignment gives a value of its own.    *)
(***************************************************************************)
EXTENDS Calls, Integers, Sequences, FiniteSets, TLC, SequencesExt

CONSTANTS LocalNames,   \* the names in programs
          MaxBody       \* statements of a body

SimpleStatements == [k : {"set", "read", "opset", "setin", "capture"}, n : LocalNames]

(***************************************************************************)
(* sema: the names a scope assigns to, collected before it is resolved.    *)
(***************************************************************************)
RECURSIVE CollectNames(_, _)
CollectAll(body, excl) == UNION {CollectNames(body[i], excl) : i \in DOMAIN body}

\* The names excluded are those of the innermost block around the statement.
\* for, an assignment by operator and one inside a literal are not looked into.
CollectNames(s, excl) ==
    CASE s.k = "set"               -> {s.n} \ excl
      [] s.k = "capture"           -> {s.n}
      [] s.k \in {"if", "rescue"}  -> CollectAll(s.body, excl)
      [] s.k = "block"             -> CollectAll(s.body, s.params)
      [] OTHER                     -> {}

HardScope(names) == [def |-> TRUE, names |-> names]
SoftScope(names) == [def |-> FALSE, names |-> names]

\* The places of a chain that are looked at from its end: up to the first def.
Reachable(chain) ==
    {i \in DOMAIN chain : \A j \in i + 1 .. Len(chain) : ~chain[j].def}

ScopeHas(scopes, n) == \E i \in Reachable(scopes) : n \in scopes[i].names

ScopeAdd(scopes, n) == [scopes EXCEPT ![Len(scopes)].names = @ \cup {n}]

(***************************************************************************)
(* sema: a name that is in no scope becomes a call, as a read and as the   *)
(* target of an assignment.                                                *)
(***************************************************************************)
RECURSIVE Resolve(_, _)
ResolveAll(body, scopes) == FoldLeft(Resolve, [scopes |-> scopes, out |-> <<>>], body)

Resolve(acc, s) ==
    LET inside(scopes) == ResolveAll(s.body, scopes).out
        done(t) == [acc EXCEPT !.out = Append(@, t)]
        with(scope) == Append(acc.scopes, scope)
    IN  CASE s.k \in {"set", "read", "opset", "setin"} ->
                 done([k |-> s.k, n |-> s.n, local |-> ScopeHas(acc.scopes, s.n)])
          [] s.k = "capture" -> done(s)
          [] s.k = "if" ->
                 LET r == ResolveAll(s.body, acc.scopes)
                 IN  [scopes |-> r.scopes, out |-> Append(acc.out, [s EXCEPT !.body = r.out])]
          [] s.k = "for" ->
                 LET r == ResolveAll(s.body, ScopeAdd(acc.scopes, s.n))
                 IN  [scopes |-> r.scopes, out |-> Append(acc.out, [s EXCEPT !.body = r.out])]
          [] s.k = "block" ->
                 done([s EXCEPT !.body =
                     inside(with(SoftScope(s.params \cup CollectAll(s.body, s.params))))])
          [] s.k = "rescue" ->
                 done([s EXCEPT !.body =
                     inside(with(SoftScope(s.params \cup CollectAll(s.body, {}))))])
          [] s.k \in {"def", "class"} ->
                 done([s EXCEPT !.body =
                     inside(with(HardScope(s.params \cup CollectAll(s.body, {}))))])

SemaRun(prog) == ResolveAll(prog, <<HardScope(CollectAll(prog, {}))>>).out

(***************************************************************************)
(* Environments, innermost last.                                           *)
(***************************************************************************)
EnvNew(def, vars) == [def |-> def, vars |-> vars]
Having(env, n) == {i \in DOMAIN env : n \in DOMAIN env[i].vars}

\* env_get looks in every environment there is.
EnvGet(env, n) == IF Having(env, n) = {} THEN Nil ELSE env[Max(Having(env, n))].vars[n]

\* env_update stops at the environment of a method or class.
\* Mutant: it does not.
UpdatableAnywhere(env, n) == Having(env, n)
Updatable(env, n) == Having(env, n) \cap Reachable(env)

EnvSet(env, n, v) ==
    LET at == IF Updatable(env, n) # {} THEN Max(Updatable(env, n)) ELSE Len(env)
    IN  [env EXCEPT ![at].vars = (n :> v) @@ @]

(***************************************************************************)
(* The evaluator: the environments, the values that reads gave, the number *)
(* of assignments so far, and whether an error ended the run.              *)
(***************************************************************************)
Ended(st) == st.ended # "no"
Assigned(st, n) == [st EXCEPT !.env = EnvSet(@, n, st.time + 1), !.time = @ + 1]
BoundTo(params, v) == [n \in params |-> v]

RECURSIVE Eval(_, _)
EvalAll(body, st) == FoldLeft(Eval, st, body)

\* The body in another chain, after which the first environments of it are
\* those of `back`.
RunIn(st, s, env, back(_)) ==
    LET r == EvalAll(s.body, [st EXCEPT !.env = env, !.time = @ + 1])
    IN  [r EXCEPT !.env = back(r.env)]

Eval(st, s) ==
    IF Ended(st) THEN st ELSE
    CASE "local" \in DOMAIN s /\ ~s.local -> [st EXCEPT !.ended = "NoMethodError"]
      [] s.k = "read" -> [st EXCEPT !.reads = Append(@, EnvGet(st.env, s.n))]
      [] s.k = "opset" -> IF EnvGet(st.env, s.n) = Nil THEN Assigned(st, s.n)
                          ELSE [st EXCEPT !.time = @ + 1]
      [] s.k \in {"set", "setin", "capture"} -> Assigned(st, s.n)
      [] s.k = "if" -> IF s.taken THEN EvalAll(s.body, st) ELSE st
      [] s.k = "for" -> EvalAll(s.body, Assigned(st, s.n))
      [] s.k = "block" ->
             RunIn(st, s, Append(st.env, EnvNew(FALSE, BoundTo(s.params, st.time + 1))), Front)
      \* The variable of a rescue is set from an environment of its own, which
      \* also takes what the body assigns first.
      [] s.k = "rescue" ->
             LET n == CHOOSE p \in s.params : TRUE
             IN  IF s.params = {} THEN RunIn(st, s, st.env, LAMBDA e : e)
                 ELSE RunIn(st, s, EnvSet(Append(st.env, EnvNew(FALSE, <<>>)), n, st.time + 1), Front)
      \* Methods are closed over the top environment only, and the environment
      \* of a class stands below it.
      [] s.k \in {"def", "class"} ->
             RunIn(st, s, <<st.env[1], EnvNew(TRUE, BoundTo(s.params, st.time + 1))>>,
                    LAMBDA e : [st.env EXCEPT ![1] = e[1]])

EvalProgram(prog) ==
    EvalAll(SemaRun(prog), [env |-> <<EnvNew(TRUE, <<>>)>>, reads |-> <<>>, time |-> 0, ended |-> "no"])

-----------------------------------------------------------------------------
(***************************************************************************)
(* The rule.  vars has one function for the hard scope and one for each    *)
(* block in it; odd says that a name was introduced where the code is      *)
(* known to fail: by an assignment by operator or inside a literal, in the *)
(* body of a for, by a for in a rescue clause, by a rescue clause with a   *)
(* variable or inside it.                                                  *)
(***************************************************************************)
Declared(vars, n) == \E i \in DOMAIN vars : n \in DOMAIN vars[i]

Introduced(st, n, risky) ==
    IF Declared(st.vars, n) THEN st
    ELSE [st EXCEPT !.vars[Len(st.vars)] = (n :> Nil) @@ @, !.odd = @ \/ risky \/ st.risky]

Home(vars, n) == Max({i \in DOMAIN vars : n \in DOMAIN vars[i]})
Value(st, n) == st.vars[Home(st.vars, n)][n]

ValueGiven(st, n) == [st EXCEPT !.vars[Home(st.vars, n)][n] = st.time + 1, !.time = @ + 1]

\* The names the text of an if introduces although it does not run.
RECURSIVE Mentioned(_)
Mentioned(s) ==
    CASE s.k \in {"set", "opset", "setin", "capture"} -> {s.n}
      [] s.k \in {"if", "for", "rescue"} ->
             (IF s.k = "for" THEN {s.n} ELSE IF s.k = "rescue" THEN s.params ELSE {})
               \cup UNION {Mentioned(s.body[i]) : i \in DOMAIN s.body}
      [] OTHER -> {}

RECURSIVE Mean(_, _)
MeanAll(body, st) == FoldLeft(Mean, st, body)

Scoped(st, s, vars) ==
    LET r == MeanAll(s.body, [st EXCEPT !.vars = vars, !.risky = FALSE, !.time = @ + 1])
    IN  [r EXCEPT !.vars = IF s.k = "block" THEN Front(@) ELSE st.vars, !.risky = st.risky]

RiskyBody(st, s) == [MeanAll(s.body, [st EXCEPT !.risky = TRUE]) EXCEPT !.risky = st.risky]

Mean(st, s) ==
    IF Ended(st) THEN st ELSE
    CASE s.k = "read" ->
             IF Declared(st.vars, s.n) THEN [st EXCEPT !.reads = Append(@, Value(st, s.n))]
             ELSE [st EXCEPT !.ended = "NameError"]
      [] s.k = "opset" ->
             LET t == Introduced(st, s.n, TRUE)
             IN  IF Value(t, s.n) = Nil THEN ValueGiven(t, s.n) ELSE [t EXCEPT !.time = @ + 1]
      [] s.k \in {"set", "setin", "capture"} -> ValueGiven(Introduced(st, s.n, s.k = "setin"), s.n)
      [] s.k = "if" ->
             IF s.taken THEN MeanAll(s.body, st)
             ELSE FoldSet(LAMBDA n, t : Introduced(t, n, TRUE), st, UNION {Mentioned(s.body[i]) : i \in DOMAIN s.body})
      [] s.k = "for" -> RiskyBody(ValueGiven(Introduced(st, s.n, FALSE), s.n), s)
      [] s.k = "rescue" ->
             IF s.params = {}
             THEN MeanAll(s.body, [st EXCEPT !.time = @ + 1, !.odd = @ \/ \E i \in DOMAIN s.body :
                      s.body[i].k = "for" /\ ~Declared(st.vars, s.body[i].n)])
             ELSE LET n == CHOOSE p \in s.params : TRUE
                  IN  RiskyBody(ValueGiven(Introduced(st, n, TRUE), n), s)
      [] s.k = "block" -> Scoped(st, s, Append(st.vars, BoundTo(s.params, st.time + 1)))
      [] s.k \in {"def", "class"} -> Scoped(st, s, <<BoundTo(s.params, st.time + 1)>>)

MeanProgram(prog) ==
    MeanAll(prog, [vars |-> << <<>> >>, reads |-> <<>>, time |-> 0, ended |-> "no",
                   odd |-> FALSE, risky |-> FALSE])

-----------------------------------------------------------------------------
(***************************************************************************)
(* Programs: a leaf, a statement with a body that may hold another one,    *)
(* and a leaf.                                                             *)
(***************************************************************************)
WithBody(bodies) ==
    [k : {"if"}, taken : BOOLEAN, body : bodies]
      \cup [k : {"block", "def", "rescue"}, params : {{}} \cup {{n} : n \in LocalNames}, body : bodies]
      \cup [k : {"class"}, params : {{}}, body : bodies]
      \cup [k : {"for"}, n : LocalNames, body : bodies]

Flat == WithBody(BoundedSeq(SimpleStatements, MaxBody))
Deep == WithBody({<<s>> : s \in Flat} \cup {<<l, s>> : l \in SimpleStatements, s \in Flat})
Programs ==
    {<<s, l>> : s \in Flat \cup Deep, l \in {l \in SimpleStatements : l.k \in {"read", "capture"}}}
      \cup {<<[k |-> "set", n |-> m], s, [k |-> "read", n |-> m]>> : m \in LocalNames, s \in Flat \cup Deep}

ScopeCall ==
    /\ NoCall
    /\ \E p \in Programs :
           Make([op |-> "locals", prog |-> p, res |-> EvalProgram(p), want |-> MeanProgram(p)])

\* As far as the language lets a program run, its reads give what they should.
\* The code's exceptions: where a name is introduced in one of the ways above,
\* and a name that is declared but not set may show a variable of the same
\* name outside its def or class, after which the two part.
LocalsAgree ==
    (call.op = "locals" /\ ~call.want.odd) =>
        LET got == call.res.reads  want == call.want.reads
            differing == {i \in DOMAIN got \cap DOMAIN want : got[i] # want[i]}
        IN  IF differing # {} THEN want[Min(differing)] = Nil
            ELSE Len(want) <= Len(got) /\ (~Ended(call.want) => ~Ended(call.res))
=============================================================================
