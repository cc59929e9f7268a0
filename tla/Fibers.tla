------------------------------- MODULE Fibers -------------------------------
(***************************************************************************)
(* Fibers on ucontext.  A context is Main or a fiber.  swapcontext saves    *)
(* where the running context stands and goes on where the other one stood;  *)
(* the code that follows a swapcontext is a step of its own, since it is    *)
(* where the C code reads its mailboxes and restores current_fiber.         *)
(*                                                                          *)
(* The second half is what fibers share: struct Eval has one call_depth,    *)
(* one active_defs and one rescue_context for all contexts.                 *)
(***************************************************************************)
EXTENDS Integers, Sequences, FiniteSets

CONSTANTS
  Fibers, Main, Values,
  EvalMaxDepth,   \* EVAL_MAX_DEPTH of eval.h
  MaxNest,        \* bound: methods and rescue bodies open in one context
  Programs        \* the kinds of program explored, each with its bounds

\* flat: no fiber is suspended inside a method or a rescue body; values: what
\* it passes; defs, exns: how many methods it calls and exceptions it rescues.
ProgramKinds == [flat : BOOLEAN, values : SUBSET Values, defs : Nat, exns : Nat]

ASSUME FibersAssumption ==
  /\ Main \notin Fibers /\ "lost" \notin Fibers \cup {Main}
  /\ EvalMaxDepth \in Nat \ {0} /\ MaxNest \in Nat
  /\ Programs \subseteq ProgramKinds

VARIABLES
  alive,          \* f->alive; FALSE too before the fiber is made
  current,        \* ev->current_fiber, Main for NULL
  running,        \* the context the processor is in
  point,          \* where each context stands
  caller_ctx,     \* whose context f->caller_ctx holds
  resume_args,    \* f->resume_args
  result,         \* f->result
  got,            \* what the program in each context got back last
  program,        \* the kind of this program
  frames,         \* open methods and rescue bodies of each context, innermost last
  call_depth,     \* ev->call_depth
  active_defs,    \* ev->active_defs[0 .. active_def_count - 1]
  rescue_context, \* ev->rescue_context (0: nil)
  made            \* method environments and exceptions made so far

switching == << alive, current, running, point, caller_ctx, resume_args, result, got >>
registers == << frames, call_depth, active_defs, rescue_context, made >>
vars == << switching, program, registers >>

Contexts == Fibers \cup {Main}
Lost == "lost"
Nothing == "nothing"
FiberError == "FiberError"
TopEnv == 0
Nil == 0

At(l) == [at |-> l]
\* Inside resume of f; prev is the local variable of that C frame.
Waiting(f, p) == [at |-> "resume", of |-> f, prev |-> p]

\* A context runs program code, or the C code after a swapcontext. eval_call
\* lets program code call nothing past the depth limit, built-ins included.
Coding == running # Lost /\ point[running] = At("code")
Calling == Coding /\ call_depth <= EvalMaxDepth
Landed(l) == running # Lost /\ point[running].at = l

\* The fiber's context is the one saved in f->fiber_ctx: it stands where its
\* last swapcontext, or makecontext, left it.
Standing(f) == point[f].at \in {"start", "yield"}

-----------------------------------------------------------------------------
(* Switching                                                               *)

New ==
  /\ Calling
  /\ \E f \in Fibers :
       /\ point[f] = At("unmade")
       /\ point' = [point EXCEPT ![f] = At("start")]
       /\ alive' = [alive EXCEPT ![f] = TRUE]
  /\ UNCHANGED << current, running, caller_ctx, resume_args, result, got, program, registers >>

\* resume looks at alive and at nothing else.
Resume ==
  /\ Calling
  /\ \E f \in Fibers, v \in program.values :
       /\ alive[f] /\ Standing(f)
       /\ resume_args' = [resume_args EXCEPT ![f] = v]
       /\ point' = [point EXCEPT ![running] = Waiting(f, current)]
       /\ current' = f
       /\ caller_ctx' = [caller_ctx EXCEPT ![f] = running]
       /\ running' = f
  /\ UNCHANGED << alive, result, got, program, registers >>

\* A fiber that runs or waits for another one is alive too: the context saved
\* in fiber_ctx is one whose stack is in use, and what follows is undefined.
ResumeInUse ==
  /\ Calling
  /\ \E f \in Fibers : alive[f] /\ ~Standing(f)
  /\ running' = Lost
  /\ UNCHANGED << alive, current, point, caller_ctx, resume_args, result, got, program, registers >>

\* FiberError: resume of a dead fiber, Fiber.yield with no current fiber.
Refused ==
  /\ Calling
  /\ current = Main \/ \E f \in Fibers : ~alive[f] /\ point[f] # At("unmade")
  /\ got' = [got EXCEPT ![running] = FiberError]
  /\ UNCHANGED << alive, current, running, point, caller_ctx, resume_args, result, program, registers >>

\* fiber_entry: the block gets the arguments of the first resume.
Start ==
  /\ Landed("start")
  /\ got' = [got EXCEPT ![running] = resume_args[running]]
  /\ point' = [point EXCEPT ![running] = At("code")]
  /\ UNCHANGED << alive, current, running, caller_ctx, resume_args, result, program, registers >>

\* Fiber.yield
Yield ==
  /\ Calling /\ current # Main
  /\ program.flat => frames[running] = << >>
  /\ \E v \in program.values : result' = [result EXCEPT ![current] = v]
  /\ point' = [point EXCEPT ![running] = At("yield")]
  /\ running' = caller_ctx[current]
  /\ UNCHANGED << alive, current, caller_ctx, resume_args, got, program, registers >>

\* Mutant of AfterYield: the value is read from the other mailbox.
AfterYieldFromResult ==
  /\ Landed("yield")
  /\ got' = [got EXCEPT ![running] = result[running]]
  /\ point' = [point EXCEPT ![running] = At("code")]
  /\ UNCHANGED << alive, current, running, caller_ctx, resume_args, result, program, registers >>

AfterYield ==
  /\ Landed("yield")
  /\ got' = [got EXCEPT ![running] = resume_args[running]]
  /\ point' = [point EXCEPT ![running] = At("code")]
  /\ UNCHANGED << alive, current, running, caller_ctx, resume_args, result, program, registers >>

\* Mutant of Finish: a fiber whose block has ended stays alive.
FinishAlive ==
  /\ Coding /\ running \in Fibers /\ frames[running] = << >>
  /\ \E v \in program.values : result' = [result EXCEPT ![running] = v]
  /\ point' = [point EXCEPT ![running] = At("ended")]
  /\ running' = caller_ctx[running]
  /\ UNCHANGED << alive, current, caller_ctx, resume_args, got, program, registers >>

\* The block is over, by its value or by a signal; both are just a result.
Finish ==
  /\ Coding /\ running \in Fibers /\ frames[running] = << >>
  /\ alive' = [alive EXCEPT ![running] = FALSE]
  /\ \E v \in program.values : result' = [result EXCEPT ![running] = v]
  /\ point' = [point EXCEPT ![running] = At("ended")]
  /\ running' = caller_ctx[running]
  /\ UNCHANGED << current, caller_ctx, resume_args, got, program, registers >>

\* Mutant of AfterResume: current_fiber becomes NULL, not the previous one.
AfterResumeToMain ==
  /\ Landed("resume")
  /\ current' = Main
  /\ got' = [got EXCEPT ![running] = result[point[running].of]]
  /\ point' = [point EXCEPT ![running] = At("code")]
  /\ UNCHANGED << alive, running, caller_ctx, resume_args, result, program, registers >>

AfterResume ==
  /\ Landed("resume")
  /\ current' = point[running].prev
  /\ got' = [got EXCEPT ![running] = result[point[running].of]]
  /\ point' = [point EXCEPT ![running] = At("code")]
  /\ UNCHANGED << alive, running, caller_ctx, resume_args, result, program, registers >>

-----------------------------------------------------------------------------
(* The registers of struct Eval                                            *)

Open == frames[running]
Room == Len(Open) < MaxNest
Innermost == Open[Len(Open)]
Shut(s) == SubSeq(s, 1, Len(s) - 1)

\* Mutant of PushDef: without the bound of the array.
PushDefUnbounded(d) == Append(active_defs, d)
PushDef(d) == IF Len(active_defs) < EvalMaxDepth THEN Append(active_defs, d) ELSE active_defs
PopDef == IF Len(active_defs) > 0 THEN Shut(active_defs) ELSE active_defs

\* call_method_value
Call ==
  /\ Calling /\ Room /\ made.defs < program.defs
  /\ frames' = [frames EXCEPT ![running] =
                  Append(@, [kind |-> "call", def |-> made.defs + 1])]
  /\ made' = [made EXCEPT !.defs = @ + 1]
  /\ active_defs' = PushDef(made.defs + 1)
  /\ call_depth' = call_depth + 1
  /\ UNCHANGED << switching, program, rescue_context >>

\* Mutant of Return: the depth is not counted down.
ReturnKeepsDepth ==
  /\ Coding /\ Open # << >> /\ Innermost.kind = "call"
  /\ frames' = [frames EXCEPT ![running] = Shut(@)]
  /\ active_defs' = PopDef
  /\ UNCHANGED << switching, program, call_depth, rescue_context, made >>

Return ==
  /\ Coding /\ Open # << >> /\ Innermost.kind = "call"
  /\ frames' = [frames EXCEPT ![running] = Shut(@)]
  /\ active_defs' = PopDef
  /\ call_depth' = call_depth - 1
  /\ UNCHANGED << switching, program, rescue_context, made >>

\* A begin catches a new exception and runs its rescue body.
Rescue ==
  /\ Coding /\ Room /\ made.exns < program.exns
  /\ frames' = [frames EXCEPT ![running] =
                  Append(@, [kind |-> "rescue", exn |-> made.exns + 1, prev |-> rescue_context])]
  /\ made' = [made EXCEPT !.exns = @ + 1]
  /\ rescue_context' = made.exns + 1
  /\ UNCHANGED << switching, program, call_depth, active_defs >>

\* Mutant of EndRescue: the rescue body leaves its exception behind.
EndRescueKeeps ==
  /\ Coding /\ Open # << >> /\ Innermost.kind = "rescue"
  /\ frames' = [frames EXCEPT ![running] = Shut(@)]
  /\ UNCHANGED << switching, program, call_depth, active_defs, rescue_context, made >>

EndRescue ==
  /\ Coding /\ Open # << >> /\ Innermost.kind = "rescue"
  /\ frames' = [frames EXCEPT ![running] = Shut(@)]
  /\ rescue_context' = Innermost.prev
  /\ UNCHANGED << switching, program, call_depth, active_defs, made >>

-----------------------------------------------------------------------------

Init ==
  /\ alive = [f \in Fibers |-> FALSE]
  /\ current = Main /\ running = Main
  /\ point = [c \in Contexts |-> IF c = Main THEN At("code") ELSE At("unmade")]
  /\ caller_ctx = [f \in Fibers |-> Nothing]
  /\ resume_args = [f \in Fibers |-> Nothing]
  /\ result = [f \in Fibers |-> Nothing]
  /\ got = [c \in Contexts |-> Nothing]
  /\ program \in Programs
  /\ frames = [c \in Contexts |-> << >>]
  /\ call_depth = 0 /\ active_defs = << TopEnv >> /\ rescue_context = Nil
  /\ made = [defs |-> 0, exns |-> 0]

\* The main program ends, or nothing is defined any more.
Halted ==
  /\ running \in {Main, Lost}
  /\ UNCHANGED vars

Switch ==
  \/ New \/ Resume \/ ResumeInUse \/ Refused
  \/ Start \/ Yield \/ AfterYield \/ Finish \/ AfterResume

Evaluate == Call \/ Return \/ Rescue \/ EndRescue

Next == Switch \/ Evaluate \/ Halted

Spec == Init /\ [][Next]_vars

-----------------------------------------------------------------------------
(* Properties                                                              *)

Received == Values \cup {Nothing, FiberError}

Points ==
  [at : {"unmade", "start", "code", "yield", "ended"}]
  \cup [at : {"resume"}, of : Fibers, prev : Contexts]

Frames ==
  [kind : {"call"}, def : Nat] \cup [kind : {"rescue"}, exn : Nat, prev : Nat]

\* Every variable has the shape the code gives it; active_defs stays within
\* its array.
TypeOK ==
  /\ alive \in [Fibers -> BOOLEAN]
  /\ current \in Contexts /\ running \in Contexts \cup {Lost}
  /\ point \in [Contexts -> Points]
  /\ caller_ctx \in [Fibers -> Contexts \cup {Nothing}]
  /\ resume_args \in [Fibers -> Received] /\ result \in [Fibers -> Received]
  /\ got \in [Contexts -> Received]
  /\ program \in Programs
  /\ frames \in [Contexts -> Seq(Frames)]
  /\ call_depth \in Int /\ rescue_context \in Nat
  /\ active_defs \in Seq(Nat) /\ Len(active_defs) <= EvalMaxDepth
  /\ made \in [defs : Nat, exns : Nat]

\* ev->current_fiber is the fiber whose code runs: what Fiber.current answers
\* and whose mailbox Fiber.yield uses, after any nesting of resumes.
CurrentIsRunning == Coding => current = running

\* The fiber has started, or been resumed, and has not given control back.
ActiveFiber(f) == alive[f] /\ (~Standing(f) \/ running = f)

\* Whoever resumed an active fiber still waits for it, and following the
\* resumers always ends at the main program: no fiber can be left waiting.
ResumersWait ==
  /\ \A f \in Fibers : ActiveFiber(f) =>
        point[caller_ctx[f]].at = "resume" /\ point[caller_ctx[f]].of = f
  /\ \A S \in SUBSET { f \in Fibers : ActiveFiber(f) } :
        S # {} => \E f \in S : caller_ctx[f] \notin S

\* call_depth is the number of methods open in all contexts together: those of
\* suspended fibers count against the limit of everyone.
DepthIsTotal ==
  call_depth =
    Cardinality({ p \in Contexts \X (1..MaxNest) :
                    /\ p[2] <= Len(frames[p[1]])
                    /\ frames[p[1]][p[2]].kind = "call" })

Rescues == { i \in 1..Len(Open) : Open[i].kind = "rescue" }

\* README: a proc's non-local return reaches its method, and a bare raise or
\* __cause__ takes the exception being rescued, in a fiber as elsewhere: the
\* open methods of the running context are in active_defs, and rescue_context
\* is that of its innermost rescue body.
OwnRegisters ==
  Coding =>
    /\ \A i \in 1..Len(Open) : Open[i].kind = "call" =>
          \E j \in 1..Len(active_defs) : active_defs[j] = Open[i].def
    /\ \A i \in Rescues :
          (\A j \in Rescues : j <= i) => rescue_context = Open[i].exn
    /\ Rescues = {} /\ running = Main => rescue_context = Nil

\* They are, in programs whose fibers are never suspended inside a method or a
\* rescue body, below the depth limit.
OwnRegistersWhenFlat == program.flat /\ made.defs < EvalMaxDepth => OwnRegisters

\* What the C structures say of the coroutines: a value on its way is in the
\* mailbox that the code after the swapcontext is about to read.
Status ==
  [f \in Fibers |->
     IF point[f].at \in {"unmade", "ended"} THEN point[f].at
     ELSE IF ActiveFiber(f) THEN "active" ELSE "suspended"]
Resumer == [f \in Fibers |-> IF ActiveFiber(f) THEN caller_ctx[f] ELSE Nothing]
Inbox ==
  [c \in Contexts |->
     IF c = running /\ Landed("resume") THEN result[point[c].of]
     ELSE IF c = running /\ (Landed("start") \/ Landed("yield")) THEN resume_args[c]
     ELSE got[c]]

Promise == INSTANCE Coroutines WITH
  status <- Status, resumer <- Resumer, control <- running, received <- Inbox

\* resume and Fiber.yield hand over control and values as Coroutines says.
ImplementsCoroutines == Promise!Spec
=============================================================================
