------------------------------- MODULE Unwind -------------------------------
(***************************************************************************)
(* Control flow of the tree-walking evaluator: how the result of one       *)
(* eval_node / call_method_value / call_block activation travels to the    *)
(* one below it on the C stack, and what each activation does to the       *)
(* registers of struct Eval on the way in and on the way out.              *)
(*                                                                         *)
(* The program is not fixed.  Wherever the code would evaluate the next    *)
(* statement, every statement the sema pass accepts there may be next, so  *)
(* a behaviour is a run of some program and the reachable states are those *)
(* of every program that uses the constructs in `uses` and stays within    *)
(* the bounds.  A value is just "val"; a signal keeps what its handlers    *)
(* look at.                                                                *)
(***************************************************************************)
EXTENDS Integers, Sequences, FiniteSets

CONSTANTS
  Profiles,       \* the sets of constructs the explored programs draw from
  Tags,           \* catch/throw tags
  EvalMaxDepth,   \* EVAL_MAX_DEPTH of eval.h
  MaxNest,        \* bound: activations on the C stack
  MaxCalls,       \* bound: method environments created in a run
  MaxRaises       \* bound: exception objects created in a run

Constructs ==
  { "begin", "else", "ensure", "retry", "raise", "reraise", "rope",
    "while", "for", "iter", "loop", "catch", "throw", "method", "function",
    "yield", "relay", "proc", "lambda", "escaped", "return", "break", "next" }

ASSUME ProfilesAssumption == Profiles \subseteq SUBSET Constructs
ASSUME BoundsAssumption ==
  /\ EvalMaxDepth \in Nat \ {0}
  /\ MaxNest \in Nat /\ MaxCalls \in Nat /\ MaxRaises \in Nat

VARIABLES
  uses,           \* the constructs this program uses
  stack,          \* the C stack: one record per activation, the running one last
  ret,            \* what the last evaluation returned
  exn,            \* ev->current_exception with its class and message (0: clear)
  rescue_context, \* ev->rescue_context, which $! mirrors (0: nil)
  cause,          \* __cause__ of each exception object made so far (0: nil)
  call_depth,     \* ev->call_depth
  frame_count,    \* ev->frame_count
  active_defs,    \* ev->active_defs[0 .. active_def_count - 1]
  block_arg       \* env->block_arg of each method environment made so far

registers == << call_depth, frame_count, active_defs, block_arg >>
raised == << exn, rescue_context, cause >>
vars == << uses, stack, ret, raised, registers >>

-----------------------------------------------------------------------------
(* Values. An environment or an exception object is its creation number;   *)
(* 0 is the top-level environment, respectively nil.                       *)

TopEnv == 0
Nil == 0
Jumps == {"return", "break", "next", "retry"}

Envs == 0..Len(block_arg)
Exns == 0..Len(cause)

\* A block value. obj tells is_lambda and is_proc_object apart, def is
\* env_nearest_def of the closure, jumps what sema let its text contain.
\* home is a ghost: the stack index of the call the literal was written on.
NoBlock == [obj |-> "none"]
Block(o, d, j, h) == [obj |-> o, def |-> d, jumps |-> j, home |-> h]

Val == [k |-> "val"]
Exc == [k |-> "exc"]
IsSignal(r) == r.k # "val"

Top == stack[Len(stack)]
Front(s) == SubSeq(s, 1, Len(s) - 1)
Uses(c) == c \in uses

\* The running activation is at a point where it evaluates a statement.
Running == ret = Val /\ Top.kind \notin {"native", "exited"}
Room == Len(stack) < MaxNest

InLoopBody == Top.kind \in {"while", "for"} /\ Top.phase = "body"

\* The jumps sema accepts in the code that is running: its depth counters.
Allowed ==
  Top.jumps \cup (IF InLoopBody THEN {"break", "next"} ELSE {})
            \cup (IF Top.kind = "begin" /\ Top.phase = "rescue" THEN {"retry"} ELSE {})

\* Ghost: where a break written in the running code is meant to stop.
BreakHome == IF InLoopBody THEN Len(stack) ELSE Top.home

Push(a) == stack' = Append(stack, a) /\ ret' = Val
Replace(a) == stack' = [stack EXCEPT ![Len(stack)] = a]
Pop(r) == stack' = Front(stack) /\ ret' = r

-----------------------------------------------------------------------------
(* Raising. The registers keep the first exception in flight.              *)

\* eval_raise_class on a new object: the cause is the exception being handled.
RaiseNew ==
  IF exn # Nil THEN UNCHANGED raised
  ELSE /\ Len(cause) < MaxRaises
       /\ cause' = Append(cause, rescue_context)
       /\ exn' = Len(cause) + 1
       /\ UNCHANGED rescue_context

\* eval_raise_value on an existing object: it gets a cause if it has none.
RaiseValue(e) ==
  /\ IF exn # Nil THEN UNCHANGED raised
     ELSE /\ exn' = e
          /\ cause' = IF cause[e] = Nil THEN [cause EXCEPT ![e] = rescue_context]
                      ELSE cause
          /\ UNCHANGED rescue_context
  /\ ret' = Exc

\* eval_call refuses to go deeper.
TooDeep == call_depth > EvalMaxDepth

Raise ==
  /\ Running /\ (Uses("raise") \/ TooDeep)
  /\ RaiseNew /\ ret' = Exc
  /\ UNCHANGED << uses, stack, registers >>

\* `raise e` with e held by the program; a bare `raise` passes rescue_context.
Reraise ==
  /\ Running /\ Uses("reraise") /\ ~TooDeep
  /\ \E e \in Exns \ {Nil} : RaiseValue(e)
  /\ UNCHANGED << uses, stack, registers >>

-----------------------------------------------------------------------------
(* begin / rescue / else / ensure                                          *)

BeginAct(el, en) ==
  [ kind |-> "begin", def |-> Top.def, jumps |-> Allowed, home |-> BreakHome,
    phase |-> "body", rescued |-> FALSE, else |-> el, ensure |-> en,
    handled |-> Nil, prev |-> Nil, result |-> Val, saved |-> Nil ]

EnterBegin ==
  /\ Running /\ Uses("begin") /\ Room
  /\ \E el, en \in BOOLEAN :
        /\ el => Uses("else")
        /\ en => Uses("ensure")
        /\ Push(BeginAct(el, en))
  /\ UNCHANGED << uses, raised, registers >>

\* A clause matches: the exception leaves the registers and is handled.
Rescue ==
  /\ Top.kind = "begin" /\ Top.phase = "body" /\ ret = Exc
  /\ Replace([Top EXCEPT !.phase = "rescue", !.rescued = TRUE,
                         !.handled = exn, !.prev = rescue_context])
  /\ exn' = Nil /\ rescue_context' = exn
  /\ ret' = Val
  /\ UNCHANGED << uses, cause, registers >>

\* Mutant of RestoreRescueContext: the goto of a retry skips the restore.
RestoreUnlessRetry ==
  rescue_context' = IF Top.phase = "rescue" /\ ret.k # "retry" THEN Top.prev
                    ELSE rescue_context

\* Leaving a rescue body puts back the exception handled outside it.
RestoreRescueContext ==
  rescue_context' = IF Top.phase = "rescue" THEN Top.prev ELSE rescue_context

Retry ==
  /\ Top.kind = "begin" /\ Top.phase = "rescue" /\ ret.k = "retry"
  /\ Replace([Top EXCEPT !.phase = "body", !.handled = Nil, !.prev = Nil])
  /\ RestoreRescueContext
  /\ ret' = Val
  /\ UNCHANGED << uses, exn, cause, registers >>

\* The test the evaluator makes: not an exception, and no clause has run.
TakesElse == Top.phase = "body" /\ ret.k # "exc" /\ ~Top.rescued /\ Top.else

EnterElse ==
  /\ Top.kind = "begin" /\ TakesElse
  /\ Replace([Top EXCEPT !.phase = "else"])
  /\ ret' = Val
  /\ UNCHANGED << uses, raised, registers >>

\* The protected part is over and its result is ret.
BodyOver ==
  /\ Top.kind = "begin" /\ Top.phase # "ensure"
  /\ ~TakesElse
  /\ ~(Top.phase = "rescue" /\ ret.k = "retry")

EnterEnsure ==
  /\ BodyOver /\ Top.ensure
  /\ Replace([Top EXCEPT !.phase = "ensure", !.result = ret, !.saved = exn,
                         !.handled = Nil, !.prev = Nil])
  /\ RestoreRescueContext
  /\ exn' = Nil
  /\ ret' = Val
  /\ UNCHANGED << uses, cause, registers >>

\* Mutant of LeaveBegin: a return takes the way out that skips the ensure body.
LeaveBeginOnReturn ==
  /\ BodyOver /\ (~Top.ensure \/ ret.k = "return")
  /\ Pop(ret)
  /\ RestoreRescueContext
  /\ UNCHANGED << uses, exn, cause, registers >>

LeaveBegin ==
  /\ BodyOver /\ ~Top.ensure
  /\ Pop(ret)
  /\ RestoreRescueContext
  /\ UNCHANGED << uses, exn, cause, registers >>

\* Mutant of LeaveEnsure: the saved exception comes back in any case.
LeaveEnsureRestoresFirst ==
  /\ Top.kind = "begin" /\ Top.phase = "ensure"
  /\ Pop(IF IsSignal(ret) THEN ret ELSE Top.result)
  /\ exn' = IF Top.result = Exc THEN Top.saved ELSE exn
  /\ UNCHANGED << uses, rescue_context, cause, registers >>

\* A signal out of the ensure body replaces the result it was saving.
LeaveEnsure ==
  /\ Top.kind = "begin" /\ Top.phase = "ensure"
  /\ IF IsSignal(ret) THEN Pop(ret) /\ UNCHANGED exn
     ELSE /\ Pop(Top.result)
          /\ exn' = IF Top.result = Exc THEN Top.saved ELSE exn
  /\ UNCHANGED << uses, rescue_context, cause, registers >>

-----------------------------------------------------------------------------
(* while / until, for, and interpolation                                   *)

Nested(kd, ph) ==
  [kind |-> kd, def |-> Top.def, jumps |-> Allowed, home |-> BreakHome, phase |-> ph]

\* A post-test loop starts with its body, a for with its first element.
EnterLoop ==
  /\ Running /\ Room
  /\ \/ Uses("while") /\ \E ph \in {"cond", "body"} : Push(Nested("while", ph))
     \/ Uses("for") /\ Push(Nested("for", "body"))
  /\ UNCHANGED << uses, raised, registers >>

WhileCond ==
  /\ Top.kind = "while" /\ Top.phase = "cond"
  /\ \/ Pop(ret)
     \/ /\ ~IsSignal(ret)
        /\ Replace([Top EXCEPT !.phase = "body"]) /\ UNCHANGED ret
  /\ UNCHANGED << uses, raised, registers >>

\* The signals a loop looks at; it takes every other result for a value.
LoopLeaves == ret.k \in {"break", "return", "exc"}
LoopResult == IF ret.k \in {"break", "next"} THEN Val ELSE ret

WhileBody ==
  /\ Top.kind = "while" /\ Top.phase = "body"
  /\ IF LoopLeaves THEN Pop(LoopResult)
     ELSE Replace([Top EXCEPT !.phase = "cond"]) /\ ret' = Val
  /\ UNCHANGED << uses, raised, registers >>

\* for returns the last result of its body, whatever it is.
ForBody ==
  /\ Top.kind = "for"
  /\ \/ Pop(LoopResult)
     \/ ~LoopLeaves /\ ret' = Val /\ UNCHANGED stack
  /\ UNCHANGED << uses, raised, registers >>

EnterRope ==
  /\ Running /\ Uses("rope") /\ Room
  /\ Push(Nested("rope", "body"))
  /\ UNCHANGED << uses, raised, registers >>

\* rope_collect gives up on a signal; the literal is a string all the same.
LeaveRope ==
  /\ Top.kind = "rope"
  /\ Pop(Val)
  /\ UNCHANGED << uses, raised, registers >>

-----------------------------------------------------------------------------
(* Methods and blocks                                                      *)

\* Mutants: of PushFrame, without the bound of ev->frames; of PopDef, a method
\* left by a signal stays in active_defs.
PushFrameUnbounded == frame_count + 1
PopDefOnValue ==
  IF ~IsSignal(ret) /\ Len(active_defs) > 0 THEN Front(active_defs) ELSE active_defs

PushFrame == IF frame_count < EvalMaxDepth THEN frame_count + 1 ELSE frame_count
PopFrame == IF frame_count > 0 THEN frame_count - 1 ELSE frame_count
PushDef(e) == IF Len(active_defs) < EvalMaxDepth THEN Append(active_defs, e)
              ELSE active_defs
PopDef == IF Len(active_defs) > 0 THEN Front(active_defs) ELSE active_defs

\* eval_def_target_active
Active(e) == \E i \in 1..Len(active_defs) : active_defs[i] = e

\* A block literal written at the running call site, passed to the
\* activation that is about to be pushed.
Literal == Block("block", Top.def, Allowed \cup {"break", "next"}, Len(stack) + 1)

\* Proc and lambda objects the program may hold: made in any environment.
Procs == { Block(o, d, {"return", "break", "next"}, 0) :
             o \in {"proc", "lambda"} \cap uses, d \in Envs }

BlockAct(b) ==
  [kind |-> "block", def |-> b.def, jumps |-> b.jumps, blk |-> b,
   home |-> IF b.obj = "lambda" THEN Len(stack) + 1 ELSE b.home]

\* With an exception in flight the parameters bind and the body never runs.
CallBlock(b) ==
  IF exn # Nil THEN ret' = Exc /\ UNCHANGED << stack, frame_count >>
  ELSE Push(BlockAct(b)) /\ frame_count' = PushFrame

CallProc ==
  /\ Running /\ Room /\ ~TooDeep
  /\ \E b \in Procs : CallBlock(b)
  /\ UNCHANGED << uses, raised, call_depth, active_defs, block_arg >>

OnStack(e) ==
  \/ e = TopEnv
  \/ \E i \in 1..Len(stack) : stack[i].kind = "call" /\ stack[i].def = e

\* A literal block kept by its method (&blk) and called when that is over.
CallEscaped ==
  /\ Running /\ Room /\ ~TooDeep /\ Uses("escaped")
  /\ \E d \in Envs : CallBlock(Block("block", d, {"return", "break", "next"}, 0))
  /\ UNCHANGED << uses, raised, call_depth, active_defs, block_arg >>

\* The running text is inside a block rather than directly in a method body.
InBlockText ==
  \E i \in 1..Len(stack) :
    /\ stack[i].kind = "block"
    /\ \A j \in (i + 1)..Len(stack) : stack[j].kind \notin {"call", "block"}

\* A relay is a yield written in a block the method passes on. Once the method
\* is over, its block_arg points into a dead C frame: such a yield is left out.
Yield ==
  /\ Running /\ Room /\ ~TooDeep /\ Uses("yield")
  /\ InBlockText => Uses("relay")
  /\ Top.def # TopEnv
  /\ block_arg[Top.def] # NoBlock
  /\ OnStack(Top.def)
  /\ CallBlock(block_arg[Top.def])
  /\ UNCHANGED << uses, raised, call_depth, active_defs, block_arg >>

\* A jump out of a proc object that has nowhere to go: LocalJumpError.
Orphan ==
  /\ Top.kind = "block" /\ Top.blk.obj = "proc"
  /\ ret.k \in {"return", "break"}
  /\ ret.k = "return" => ~Active(ret.target)

BlockResult ==
  IF \/ ret.k = "next"
     \/ Top.blk.obj = "lambda" /\ ret.k \in {"return", "break"}
  THEN Val ELSE ret

LeaveBlock ==
  /\ Top.kind = "block"
  /\ IF Orphan THEN RaiseNew /\ Pop(Exc)
     ELSE Pop(BlockResult) /\ UNCHANGED raised
  /\ frame_count' = PopFrame
  /\ UNCHANGED << uses, call_depth, active_defs, block_arg >>

\* A method of a class goes through call_method_value, a top-level def
\* through the call_method label of eval_call. Its def is written outside of
\* loops and blocks, whose counters sema would not reset for its body.
CallAct(via, b) ==
  [kind |-> "call", def |-> Len(block_arg) + 1, jumps |-> {"return"}, home |-> 0,
   via |-> via, blk |-> b]

\* A block matters to a call whose method may yield to it.
BlockArgs == {NoBlock} \cup (IF Uses("yield") THEN {Literal} \cup Procs ELSE {})

EnterCall ==
  /\ Running /\ Room /\ ~TooDeep /\ Len(block_arg) < MaxCalls
  /\ \E via \in {"method", "function"} \cap uses, b \in BlockArgs :
       IF exn # Nil THEN ret' = Exc /\ UNCHANGED << stack, registers >>
       ELSE /\ Push(CallAct(via, b))
            /\ block_arg' = Append(block_arg, b)
            /\ call_depth' = call_depth + 1
            /\ active_defs' = PushDef(Len(block_arg) + 1)
            /\ frame_count' = PushFrame
  /\ UNCHANGED << uses, raised >>

\* Mutants: of CallResult, any return stops at the first method; of LeaveCall,
\* the depth is not counted down when an exception passes.
AnyReturnStops ==
  IF \/ ret.k = "return"
     \/ ret.k = "break" /\ Top.blk # NoBlock /\ Top.via = "method"
  THEN Val ELSE ret

\* Only call_method_value stops a break at the call the block was given to.
CallResult ==
  IF \/ ret.k = "return" /\ ret.target = Top.def
     \/ ret.k = "break" /\ Top.blk # NoBlock /\ Top.via = "method"
  THEN Val ELSE ret

LeaveCall ==
  /\ Top.kind = "call"
  /\ Pop(CallResult)
  /\ frame_count' = PopFrame
  /\ active_defs' = PopDef
  /\ call_depth' = call_depth - 1
  /\ UNCHANGED << uses, raised, block_arg >>

-----------------------------------------------------------------------------
(* Built-ins that call a block: iterators, Kernel#loop, Kernel#catch       *)

NativeAct(op, t) ==
  [kind |-> "native", def |-> Top.def, jumps |-> Allowed, home |-> BreakHome,
   op |-> op, tag |-> t, blk |-> Literal]

Natives == { NativeAct(op, Nil) : op \in {"iter", "loop"} \cap uses } \cup
           { NativeAct(op, t) : op \in {"catch"} \cap uses, t \in Tags }

\* Each of them calls its block at least once.
EnterNative ==
  /\ Running /\ ~TooDeep /\ Len(stack) + 1 < MaxNest
  /\ \E n \in Natives :
       IF exn # Nil THEN ret' = Exc /\ UNCHANGED << stack, frame_count >>
       ELSE /\ stack' = stack \o << n, BlockAct(n.blk) >>
            /\ ret' = Val
            /\ frame_count' = PushFrame
  /\ UNCHANGED << uses, raised, call_depth, active_defs, block_arg >>

\* The results of its block after which each one carries on.
GoesOn(op) ==
  CASE op = "iter"  -> {"val", "retry"}
    [] op = "loop"  -> {"val", "retry", "throw", "next"}
    [] op = "catch" -> {}

NativeAgain ==
  /\ Top.kind = "native" /\ ret.k \in GoesOn(Top.op)
  /\ CallBlock(Top.blk)
  /\ UNCHANGED << uses, raised, call_depth, active_defs, block_arg >>

\* flow_signal_out for the iterators, the tests of loop and of catch.
NativeResult ==
  CASE Top.op = "iter"  -> IF ret.k \in {"return", "exc", "throw"} THEN ret ELSE Val
    [] Top.op = "loop"  -> IF ret.k = "break" THEN Val ELSE ret
    [] Top.op = "catch" -> IF ret.k = "throw" /\ ret.tag = Top.tag THEN Val ELSE ret

NativeLeave ==
  /\ Top.kind = "native"
  /\ Top.op = "loop" => ret.k \notin GoesOn("loop")
  /\ Pop(NativeResult)
  /\ UNCHANGED << uses, raised, registers >>

\* loop ends quietly on StopIteration.
LoopStops ==
  /\ Top.kind = "native" /\ Top.op = "loop" /\ ret = Exc
  /\ Pop(Val)
  /\ exn' = Nil
  /\ UNCHANGED << uses, rescue_context, cause, registers >>

-----------------------------------------------------------------------------
(* Jumps and the program                                                   *)

Signal(j) ==
  CASE j = "return" -> [k |-> j, target |-> Top.def]
    [] j = "break"  -> [k |-> j, home |-> BreakHome]
    [] OTHER        -> [k |-> j]

Jump ==
  /\ Running
  /\ \E j \in Allowed \cap uses : ret' = Signal(j)
  /\ UNCHANGED << uses, stack, raised, registers >>

Throw ==
  /\ Running /\ Uses("throw") /\ ~TooDeep
  /\ \E t \in Tags : ret' = [k |-> "throw", tag |-> t]
  /\ UNCHANGED << uses, stack, raised, registers >>

\* main looks at nothing but an exception: any other signal ends the run too.
Exit ==
  /\ Top.kind = "program"
  /\ Replace([Top EXCEPT !.kind = "exited"])
  /\ UNCHANGED << uses, ret, raised, registers >>

Program == [kind |-> "program", def |-> TopEnv, jumps |-> {}, home |-> 0]

Init ==
  /\ uses \in Profiles
  /\ stack = << Program >> /\ ret = Val
  /\ exn = Nil /\ rescue_context = Nil /\ cause = << >>
  /\ call_depth = 0 /\ frame_count = 0
  /\ active_defs = << TopEnv >> /\ block_arg = << >>

\* Nothing more happens after the program, or where MaxRaises cuts the run.
Halted ==
  /\ Top.kind = "exited" \/ (Len(cause) = MaxRaises /\ Orphan)
  /\ UNCHANGED vars

Next ==
  \/ Raise \/ Reraise \/ Throw \/ Jump
  \/ EnterBegin \/ Rescue \/ Retry \/ EnterElse \/ EnterEnsure \/ LeaveBegin \/ LeaveEnsure
  \/ EnterLoop \/ WhileCond \/ WhileBody \/ ForBody \/ EnterRope \/ LeaveRope
  \/ CallProc \/ CallEscaped \/ Yield \/ LeaveBlock \/ EnterCall \/ LeaveCall
  \/ EnterNative \/ NativeAgain \/ NativeLeave \/ LoopStops
  \/ Exit \/ Halted

Spec == Init /\ [][Next]_vars

-----------------------------------------------------------------------------
(* Properties                                                              *)

Indices == 1..Len(stack)
Calls == { i \in Indices : stack[i].kind = "call" }
Handlers == { i \in Indices : stack[i].kind = "begin" /\ stack[i].phase = "rescue" }

Results ==
  [k : {"val", "exc", "next", "retry"}] \cup [k : {"return"}, target : Envs]
  \cup [k : {"break"}, home : Nat] \cup [k : {"throw"}, tag : Tags]

BlockValues ==
  [obj : {"block", "proc", "lambda"}, def : Envs, jumps : SUBSET Jumps, home : Nat]

ProgramActs ==
  [kind : {"program", "exited"}, def : Envs, jumps : SUBSET Jumps, home : Nat]

BeginActs ==
  [kind : {"begin"}, def : Envs, jumps : SUBSET Jumps, home : Nat,
   phase : {"body", "rescue", "else", "ensure"}, rescued : BOOLEAN,
   else : BOOLEAN, ensure : BOOLEAN, handled : Exns, prev : Exns,
   result : Results, saved : Exns]

LoopActs ==
  [kind : {"while", "for", "rope"}, def : Envs, jumps : SUBSET Jumps, home : Nat,
   phase : {"cond", "body"}]

CallActs ==
  [kind : {"call"}, def : Envs, jumps : SUBSET Jumps, home : Nat,
   via : {"method", "function"}, blk : BlockValues \cup {NoBlock}]

BlockActs ==
  [kind : {"block"}, def : Envs, jumps : SUBSET Jumps, home : Nat, blk : BlockValues]

NativeActs ==
  [kind : {"native"}, def : Envs, jumps : SUBSET Jumps, home : Nat,
   op : {"iter", "loop", "catch"}, tag : Tags \cup {Nil}, blk : BlockValues]

Activations ==
  ProgramActs \cup BeginActs \cup LoopActs \cup CallActs \cup BlockActs \cup NativeActs

\* Every variable has the shape the code gives it, the program is at the bottom
\* of the stack only, and the fixed arrays frames and active_defs of struct
\* Eval are never indexed past EVAL_MAX_DEPTH.
TypeOK ==
  /\ uses \in Profiles
  /\ stack \in Seq(Activations) /\ stack # << >>
  /\ \A i \in Indices : stack[i].kind \in {"program", "exited"} <=> i = 1
  /\ ret \in Results
  /\ exn \in Exns /\ rescue_context \in Exns
  /\ cause \in Seq(Exns)
  /\ call_depth \in Int /\ frame_count \in 0..EvalMaxDepth
  /\ active_defs \in Seq(Envs) /\ Len(active_defs) <= EvalMaxDepth
  /\ block_arg \in Seq(BlockValues \cup {NoBlock})

\* eval_def_target_active answers for the environments of the methods that
\* are really running: what makes an escaped `return` a LocalJumpError.
ActiveIffOnStack == \A e \in Envs : Active(e) <=> OnStack(e)

\* rescue_context (and $!) is the exception of the innermost rescue body that
\* is running: a bare raise and __cause__ take the right one.
RescueContextInnermost ==
  /\ Handlers = {} => rescue_context = Nil
  /\ \A i \in Handlers :
       (\A j \in Handlers : j <= i) => rescue_context = stack[i].handled

\* The exception registers are set exactly while an exception signal travels,
\* so that no program code runs with an exception in flight.
ExnCoherent == ret = Exc <=> exn # Nil

\* A return on its way has somewhere to arrive: its method is running, or the
\* proc or lambda it was written in is.
ReturnHasReceiver ==
  ret.k = "return" =>
    \/ OnStack(ret.target)
    \/ \E i \in Indices : /\ stack[i].kind = "block" /\ stack[i].def = ret.target
                          /\ stack[i].blk.obj \in {"proc", "lambda"}

\* A jump finds the method it belongs to: those that are running are known, and a
\* return that travels has one.
JumpTargetsKnown == ActiveIffOnStack /\ ReturnHasReceiver

\* The construct Ruby's semantics sends the signal to is the running one.
Receives ==
  CASE ret.k = "return" -> /\ Top.def = ret.target
                           /\ \/ Top.kind = "call"
                              \/ Top.kind = "block" /\ Top.blk.obj = "lambda"
    [] ret.k = "break"  -> ret.home = Len(stack)
    [] ret.k = "next"   -> InLoopBody \/ Top.kind = "block"
    [] ret.k = "throw"  -> Top.kind = "native" /\ Top.op = "catch" /\ Top.tag = ret.tag
    [] ret.k = "retry"  -> Top.kind = "begin" /\ Top.phase = "rescue"
    [] OTHER            -> FALSE

\* The constructs that keep out of each other's way: together with the others of
\* its line, each of the pairs left out makes some construct take a signal that
\* is not its own, or hand on one that is.
Composes(p) ==
  /\ "rope" \notin p
  /\ "else" \in p => p \cap {"return", "break", "next", "retry", "throw"} = {}
  /\ p \cap {"while", "for", "loop"} # {} => p \cap {"retry", "throw"} = {}
  /\ "iter" \in p => "retry" \notin p
  /\ "break" \in p => p \cap {"catch", "escaped"} = {}
  /\ {"break", "yield"} \subseteq p => p \cap {"function", "relay", "while", "for"} = {}
  /\ {"lambda", "return"} \subseteq p => p \cap {"proc", "relay", "escaped"} = {}

EnsureStarts ==
  /\ Top.kind = "begin" /\ Top.phase # "ensure"
  /\ Len(stack') = Len(stack) /\ stack'[Len(stack)].phase = "ensure"

\* A signal stops at the construct it is meant for and nowhere else: any other
\* activation passes it on, after its ensure body if it has one.  A rescue
\* clause may take an exception, and an orphan jump becomes LocalJumpError.
SignalStopsAtItsReceiver ==
  [][ IsSignal(ret) /\ Top.kind \notin {"program", "exited"} =>
        IF Receives THEN ret' = Val
        ELSE \/ Pop(ret)
             \/ EnsureStarts
             \/ ret = Exc /\ exn' = Nil /\ ret' = Val
             \/ ret.k \in {"return", "break"} /\ ret' = Exc ]_vars

\* exception_matrix.md, phase 4: ensure runs exactly once, whatever the way
\* out of the begin it belongs to.
EnsureExactlyOnce ==
  [][ \A i \in Indices :
        stack[i].kind = "begin" /\ stack[i].ensure =>
          IF i <= Len(stack')
          THEN stack[i].phase = "ensure" => stack'[i].phase = "ensure"
          ELSE stack[i].phase = "ensure" ]_vars

=============================================================================
