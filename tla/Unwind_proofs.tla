--------------------------- MODULE Unwind_proofs ---------------------------
(* Theorems about Unwind for every set of profiles and every bound.        *)
EXTENDS Unwind, SequenceTheorems, TLAPS

(***************************************************************************)
(* The one operator on sequences the model defines.                        *)
(***************************************************************************)

\* Front drops the last element and nothing else.
LEMMA FrontProperties ==
  ASSUME NEW S, NEW s \in Seq(S), s # << >>
  PROVE  /\ Front(s) \in Seq(S)
         /\ Len(Front(s)) = Len(s) - 1
         /\ \A i \in 1..Len(s) - 1 : Front(s)[i] = s[i]
<1>1. Len(s) \in Nat \ {0}
  BY EmptySeq
<1>2. \A i \in 1..Len(s) - 1 : s[i] \in S
  <2> SUFFICES ASSUME NEW i \in 1..Len(s) - 1
               PROVE  s[i] \in S
    OBVIOUS
  <2>1. i \in 1..Len(s)
    BY <1>1
  <2> QED
    BY <2>1, ElementOfSeq
<1>3. PICK n \in Nat : n = Len(s) - 1
  BY <1>1
<1>4. /\ SubSeq(s, 1, n) \in Seq(S)
      /\ Len(SubSeq(s, 1, n)) = IF 1 <= n THEN n - 1 + 1 ELSE 0
      /\ \A i \in 1..n - 1 + 1 : SubSeq(s, 1, n)[i] = s[1 + i - 1]
  BY <1>2, <1>3, SubSeqProperties
<1>5. n - 1 + 1 = n /\ (1 <= n \/ n = 0) /\ \A i \in 1..n : 1 + i - 1 = i
  OBVIOUS
<1>6. /\ Len(SubSeq(s, 1, n)) = n
      /\ \A i \in 1..n : SubSeq(s, 1, n)[i] = s[i]
  BY <1>4, <1>5
<1> QED
  BY <1>3, <1>4, <1>6 DEF Front

(***************************************************************************)
(* Types. Environments and exceptions are only ever added, so every set of *)
(* the type invariant only grows.                                          *)
(***************************************************************************)

\* What was of a type stays of that type when environments and exceptions are
\* added.
LEMMA TypesGrow ==
  ASSUME Envs \subseteq Envs', Exns \subseteq Exns'
  PROVE  /\ Results \subseteq Results'
         /\ BlockValues \subseteq BlockValues'
         /\ ProgramActs \subseteq ProgramActs'
         /\ BeginActs \subseteq BeginActs'
         /\ LoopActs \subseteq LoopActs'
         /\ CallActs \subseteq CallActs'
         /\ BlockActs \subseteq BlockActs'
         /\ NativeActs \subseteq NativeActs'
         /\ Activations \subseteq Activations'
<1>1. Results \subseteq Results'
  BY DEF Results
<1>2. BlockValues \subseteq BlockValues'
  BY DEF BlockValues
<1>3. ProgramActs \subseteq ProgramActs'
  BY DEF ProgramActs
<1>4. BeginActs \subseteq BeginActs'
  BY <1>1 DEF BeginActs
<1>5. LoopActs \subseteq LoopActs'
  BY DEF LoopActs
<1>6. CallActs \subseteq CallActs'
  BY <1>2 DEF CallActs, NoBlock
<1>7. BlockActs \subseteq BlockActs'
  BY <1>2 DEF BlockActs
<1>8. NativeActs \subseteq NativeActs'
  BY <1>2 DEF NativeActs, Nil
<1> QED
  BY <1>1, <1>2, <1>3, <1>4, <1>5, <1>6, <1>7, <1>8 DEF Activations

\* The kind of an activation tells which record it is.
LEMMA KindTells ==
  ASSUME NEW a \in Activations
  PROVE  /\ a.kind = "begin" => a \in BeginActs
         /\ a.kind \in {"while", "for", "rope"} => a \in LoopActs
         /\ a.kind = "call" => a \in CallActs
         /\ a.kind = "block" => a \in BlockActs
         /\ a.kind = "native" => a \in NativeActs
         /\ a.kind \in {"program", "exited"} => a \in ProgramActs
         /\ a.def \in Envs /\ a.jumps \in SUBSET Jumps /\ a.home \in Nat
BY DEF Activations, ProgramActs, BeginActs, LoopActs, CallActs, BlockActs, NativeActs

(***************************************************************************)
(* The three things a step does to the C stack.                            *)
(***************************************************************************)

StackTyped ==
  /\ stack \in Seq(Activations) /\ stack # << >>
  /\ \A i \in Indices : stack[i].kind \in {"program", "exited"} <=> i = 1

\* There is a running activation.
LEMMA TopTyped ==
  ASSUME StackTyped
  PROVE  /\ Len(stack) \in Nat \ {0}
         /\ Top \in Activations
         /\ Top.kind \in {"program", "exited"} <=> Len(stack) = 1
<1>1. Len(stack) \in Nat \ {0}
  BY EmptySeq DEF StackTyped
<1>2. stack[Len(stack)] \in Activations
  <2>1. Len(stack) \in 1..Len(stack)
    BY <1>1
  <2>2. stack \in Seq(Activations)
    BY DEF StackTyped
  <2> QED
    BY <2>1, <2>2, ElementOfSeq
<1>3. stack[Len(stack)].kind \in {"program", "exited"} <=> Len(stack) = 1
  <2>1. Len(stack) \in Indices
    BY <1>1 DEF Indices
  <2>2. \A i \in Indices : stack[i].kind \in {"program", "exited"} <=> i = 1
    BY DEF StackTyped
  <2> QED
    BY <2>1, <2>2
<1> QED
  BY <1>1, <1>2, <1>3 DEF Top

\* Pushing an activation other than a program keeps the stack typed.
LEMMA PushTyped ==
  ASSUME StackTyped, Activations \subseteq Activations',
         NEW a \in Activations', a.kind \notin {"program", "exited"},
         stack' = Append(stack, a)
  PROVE  StackTyped'
<1>1. stack \in Seq(Activations')
  BY SeqMonotonic DEF StackTyped
<1>2. /\ stack' \in Seq(Activations')
      /\ Len(stack') = Len(stack) + 1
      /\ \A i \in 1..Len(stack) : stack'[i] = stack[i]
      /\ stack'[Len(stack) + 1] = a
  BY <1>1, AppendProperties
<1>3. Len(stack) \in Nat \ {0}
  BY TopTyped
<1>4. \A i \in 1..Len(stack') : stack'[i].kind \in {"program", "exited"} <=> i = 1
  BY <1>2, <1>3 DEF StackTyped, Indices
<1> QED
  BY <1>2, <1>3, <1>4 DEF StackTyped, Indices

\* So does replacing the running activation by one of the same sort.
LEMMA ReplaceTyped ==
  ASSUME StackTyped, Activations \subseteq Activations',
         NEW a \in Activations', Replace(a),
         a.kind \in {"program", "exited"} <=> Top.kind \in {"program", "exited"}
  PROVE  StackTyped'
<1>1. stack \in Seq(Activations')
  BY SeqMonotonic DEF StackTyped
<1>2. Len(stack) \in Nat \ {0}
  BY TopTyped
<1>3. /\ stack' \in Seq(Activations')
      /\ Len(stack') = Len(stack)
      /\ \A i \in 1..Len(stack) : stack'[i] = IF i = Len(stack) THEN a ELSE stack[i]
  BY <1>1, <1>2, ExceptSeq DEF Replace
<1>4. \A i \in 1..Len(stack') : stack'[i].kind \in {"program", "exited"} <=> i = 1
  BY <1>2, <1>3 DEF StackTyped, Indices, Top
<1> QED
  BY <1>2, <1>3, <1>4 DEF StackTyped, Indices

\* And popping anything but the program.
LEMMA PopTyped ==
  ASSUME StackTyped, Activations \subseteq Activations',
         Top.kind \notin {"program", "exited"}, stack' = Front(stack)
  PROVE  StackTyped'
<1>1. stack \in Seq(Activations')
  BY SeqMonotonic DEF StackTyped
<1>2. Len(stack) \in Nat \ {0, 1}
  BY TopTyped
<1>3. /\ stack' \in Seq(Activations')
      /\ Len(stack') = Len(stack) - 1
      /\ \A i \in 1..Len(stack) - 1 : stack'[i] = stack[i]
  BY <1>1, FrontProperties DEF StackTyped
<1>4. \A i \in 1..Len(stack') : stack'[i].kind \in {"program", "exited"} <=> i = 1
  BY <1>2, <1>3 DEF StackTyped, Indices
<1> QED
  BY <1>2, <1>3, <1>4 DEF StackTyped, Indices

(***************************************************************************)
(* The values a step builds.                                               *)
(***************************************************************************)

RaisedTyped == exn \in Exns /\ rescue_context \in Exns /\ cause \in Seq(Exns)

RegistersTyped ==
  /\ call_depth \in Int /\ frame_count \in 0..EvalMaxDepth
  /\ active_defs \in Seq(Envs) /\ Len(active_defs) <= EvalMaxDepth
  /\ block_arg \in Seq(BlockValues \cup {NoBlock})

\* The type invariant in the parts that actions change separately.
LEMMA TypeOKParts ==
  /\ TypeOK <=> /\ uses \in Profiles /\ StackTyped /\ ret \in Results
                /\ RaisedTyped /\ RegistersTyped
  /\ TypeOK' <=> /\ uses' \in Profiles /\ StackTyped' /\ ret' \in Results'
                 /\ RaisedTyped' /\ RegistersTyped'
BY DEF TypeOK, StackTyped, RaisedTyped, RegistersTyped

\* Without a new environment or exception the types are the same sets.
LEMMA SameTypes ==
  ASSUME Len(block_arg)' = Len(block_arg), Len(cause)' = Len(cause)
  PROVE  /\ Envs' = Envs /\ Exns' = Exns
         /\ Results' = Results /\ BlockValues' = BlockValues
         /\ BeginActs' = BeginActs /\ LoopActs' = LoopActs /\ CallActs' = CallActs
         /\ BlockActs' = BlockActs /\ NativeActs' = NativeActs
         /\ ProgramActs' = ProgramActs /\ Activations' = Activations
<1>1. Envs' = Envs /\ Exns' = Exns
  BY DEF Envs, Exns
<1>2. Results' = Results /\ BlockValues' = BlockValues
  BY <1>1 DEF Results, BlockValues
<1>3. /\ BeginActs' = BeginActs /\ LoopActs' = LoopActs /\ CallActs' = CallActs
      /\ BlockActs' = BlockActs /\ NativeActs' = NativeActs
      /\ ProgramActs' = ProgramActs
  BY <1>1, <1>2 DEF BeginActs, LoopActs, CallActs, BlockActs, NativeActs, ProgramActs
<1> QED
  BY <1>1, <1>2, <1>3 DEF Activations

\* The registers that a step leaves alone stay typed.
LEMMA UnchangedTyped ==
  ASSUME Len(block_arg)' = Len(block_arg), Len(cause)' = Len(cause)
  PROVE  /\ RaisedTyped /\ UNCHANGED raised => RaisedTyped'
         /\ RegistersTyped /\ UNCHANGED registers => RegistersTyped'
         /\ StackTyped /\ UNCHANGED stack => StackTyped'
BY SameTypes DEF RaisedTyped, raised, RegistersTyped, registers, StackTyped, Indices

\* The jump set and the ghost home handed to what is nested in the running code.
LEMMA NestedTyped ==
  ASSUME StackTyped
  PROVE  /\ Allowed \in SUBSET Jumps
         /\ BreakHome \in Nat
         /\ Top.def \in Envs
<1>1. Top.def \in Envs /\ Top.jumps \in SUBSET Jumps /\ Top.home \in Nat
  BY TopTyped, KindTells
<1>2. Len(stack) \in Nat
  BY TopTyped
<1> QED
  BY <1>1, <1>2 DEF Allowed, BreakHome, Jumps

\* A block literal and a proc object are block values.
LEMMA BlocksTyped ==
  ASSUME StackTyped
  PROVE  /\ Literal \in BlockValues
         /\ Procs \subseteq BlockValues
         /\ \A d \in Envs : Block("block", d, {"return", "break", "next"}, 0) \in BlockValues
<1>1. Literal \in BlockValues
  BY NestedTyped, TopTyped DEF Literal, Block, BlockValues, Jumps
<1>2. ASSUME NEW o \in {"block", "proc", "lambda"}, NEW d \in Envs
      PROVE  Block(o, d, {"return", "break", "next"}, 0) \in BlockValues
  BY DEF Block, BlockValues, Jumps
<1> QED
  BY <1>1, <1>2 DEF Procs

\* eval_raise_class leaves the exception registers typed.
LEMMA RaiseNewTyped ==
  ASSUME TypeOK, RaiseNew, UNCHANGED block_arg
  PROVE  /\ RaisedTyped'
         /\ Exns \subseteq Exns' /\ Envs' = Envs
         /\ Activations \subseteq Activations'
<1>1. CASE exn # Nil
  <2>1. UNCHANGED raised
    BY <1>1 DEF RaiseNew
  <2>2. Len(cause)' = Len(cause)
    BY <2>1 DEF raised
  <2> QED
    BY <2>1, <2>2, TypeOKParts, SameTypes, UnchangedTyped
<1>2. CASE exn = Nil
  <2>1. cause \in Seq(Exns) /\ rescue_context \in Exns
    BY DEF TypeOK
  <2>2. /\ cause' = Append(cause, rescue_context)
        /\ exn' = Len(cause) + 1 /\ rescue_context' = rescue_context
    BY <1>2 DEF RaiseNew
  <2>3. Len(cause) \in Nat /\ Len(cause') = Len(cause) + 1
    BY <2>1, <2>2, AppendProperties, LenProperties
  <2>4. Exns \subseteq Exns' /\ exn' \in Exns'
    BY <2>2, <2>3 DEF Exns
  <2>5. cause \in Seq(Exns') /\ rescue_context \in Exns'
    BY <2>1, <2>4, SeqMonotonic
  <2>6. cause' \in Seq(Exns')
    BY <2>2, <2>5, AppendProperties
  <2>7. Envs' = Envs
    BY DEF Envs
  <2> QED
    BY <2>2, <2>4, <2>5, <2>6, <2>7, TypesGrow DEF RaisedTyped
<1> QED
  BY <1>1, <1>2

(***************************************************************************)
(* One lemma per step shape: the actions that share it cite it.            *)
(***************************************************************************)

\* Pushing an activation and leaving the registers alone.
LEMMA PushStep ==
  ASSUME TypeOK, NEW a \in Activations, a.kind \notin {"program", "exited"},
         Push(a), UNCHANGED << uses, raised, registers >>
  PROVE  TypeOK'
<1>1. Len(block_arg)' = Len(block_arg) /\ Len(cause)' = Len(cause)
  BY DEF registers, raised
<1>2. StackTyped'
  BY <1>1, TypeOKParts, SameTypes, PushTyped DEF Push
<1>3. ret' \in Results'
  BY DEF Push, Val, Results
<1> QED
  BY <1>1, <1>2, <1>3, TypeOKParts, UnchangedTyped

\* Popping one and passing on a result.
LEMMA PopStep ==
  ASSUME TypeOK, Top.kind \notin {"program", "exited"}, NEW r \in Results, Pop(r),
         uses' = uses, Len(block_arg)' = Len(block_arg), Len(cause)' = Len(cause),
         RaisedTyped', RegistersTyped'
  PROVE  TypeOK'
<1>1. StackTyped'
  BY TypeOKParts, SameTypes, PopTyped DEF Pop
<1>2. ret' \in Results'
  BY SameTypes DEF Pop
<1> QED
  BY <1>1, <1>2, TypeOKParts

\* Moving the running activation to another phase.
LEMMA ReplaceStep ==
  ASSUME TypeOK, NEW a \in Activations, Replace(a), ret' \in Results,
         a.kind \in {"program", "exited"} <=> Top.kind \in {"program", "exited"},
         uses' = uses, Len(block_arg)' = Len(block_arg), Len(cause)' = Len(cause),
         RaisedTyped', RegistersTyped'
  PROVE  TypeOK'
<1>1. StackTyped'
  BY TypeOKParts, SameTypes, ReplaceTyped
<1>2. ret' \in Results'
  BY SameTypes
<1> QED
  BY <1>1, <1>2, TypeOKParts

\* The frame counter stays within ev->frames.
LEMMA FrameCountBounded ==
  ASSUME TypeOK
  PROVE  PushFrame \in 0..EvalMaxDepth /\ PopFrame \in 0..EvalMaxDepth
BY BoundsAssumption DEF TypeOK, PushFrame, PopFrame

\* call_block, from any of its callers.
LEMMA CallBlockStep ==
  ASSUME TypeOK, NEW b \in BlockValues, CallBlock(b),
         UNCHANGED << uses, raised, call_depth, active_defs, block_arg >>
  PROVE  TypeOK'
<1>1. Len(block_arg)' = Len(block_arg) /\ Len(cause)' = Len(cause)
  BY DEF raised
<1>2. CASE exn # Nil
  <2>1. UNCHANGED << stack, frame_count >> /\ ret' = Exc
    BY <1>2 DEF CallBlock
  <2>2. ret' \in Results'
    BY <2>1 DEF Exc, Results
  <2> QED
    BY <1>1, <2>1, <2>2, TypeOKParts, UnchangedTyped DEF registers
<1>3. CASE exn = Nil
  <2>1. Push(BlockAct(b)) /\ frame_count' = PushFrame
    BY <1>3 DEF CallBlock
  <2>2. BlockAct(b) \in BlockActs
    <3>1. Len(stack) + 1 \in Nat
      BY TypeOKParts, TopTyped
    <3> QED
      BY <3>1 DEF BlockAct, BlockActs, BlockValues
  <2>3. BlockAct(b) \in Activations /\ BlockAct(b).kind = "block"
    BY <2>2 DEF Activations, BlockAct
  <2>4. StackTyped'
    BY <1>1, <2>1, <2>3, TypeOKParts, SameTypes, PushTyped DEF Push
  <2>5. ret' \in Results'
    BY <2>1 DEF Push, Val, Results
  <2>6. RegistersTyped'
    BY <1>1, <2>1, FrameCountBounded, TypeOKParts, SameTypes DEF RegistersTyped
  <2> QED
    BY <1>1, <2>4, <2>5, <2>6, TypeOKParts, UnchangedTyped
<1> QED
  BY <1>2, <1>3

\* The running activation, as the record its kind says it is.
LEMMA TopRecord ==
  ASSUME TypeOK
  PROVE  /\ Top.kind = "begin" => Top \in BeginActs
         /\ Top.kind \in {"while", "for", "rope"} => Top \in LoopActs
         /\ Top.kind = "call" => Top \in CallActs
         /\ Top.kind = "block" => Top \in BlockActs
         /\ Top.kind = "native" => Top \in NativeActs
         /\ Top.kind \in {"program", "exited"} => Top \in ProgramActs
BY TypeOKParts, TopTyped, KindTells

\* begin / rescue / else / ensure keeps every variable typed.
LEMMA BeginTyped ==
  ASSUME TypeOK,
         \/ EnterBegin \/ Rescue \/ Retry \/ EnterElse \/ EnterEnsure
         \/ LeaveBegin \/ LeaveEnsure
  PROVE  TypeOK'
<1> USE DEF Nil
<1>0. /\ Nil \in Exns /\ Val \in Results /\ Exc \in Results
      /\ exn \in Exns /\ rescue_context \in Exns /\ ret \in Results
  BY LenProperties DEF TypeOK, Exns, Val, Exc, Results
<1>1. CASE EnterBegin
  <2>1. PICK el, en \in BOOLEAN : Push(BeginAct(el, en))
    BY <1>1 DEF EnterBegin
  <2>2. BeginAct(el, en) \in BeginActs
    BY <1>0, NestedTyped, TypeOKParts DEF BeginAct, BeginActs
  <2>3. BeginAct(el, en) \in Activations /\ BeginAct(el, en).kind = "begin"
    BY <2>2 DEF Activations, BeginAct
  <2> QED
    BY <1>1, <2>1, <2>3, PushStep DEF EnterBegin
<1>2. CASE Rescue
  <2> DEFINE a == [Top EXCEPT !.phase = "rescue", !.rescued = TRUE,
                              !.handled = exn, !.prev = rescue_context]
  <2>1. Top \in BeginActs /\ Replace(a) /\ ret' = Val
    BY <1>2, TopRecord DEF Rescue
  <2>2. a \in BeginActs
    BY <1>0, <2>1 DEF BeginActs
  <2>3. a \in Activations /\ a.kind = "begin" /\ Top.kind = "begin"
    BY <2>1, <2>2 DEF Activations, BeginActs
  <2>4. Len(block_arg)' = Len(block_arg) /\ Len(cause)' = Len(cause)
    BY <1>2 DEF Rescue, registers
  <2>5. RaisedTyped' /\ RegistersTyped'
    BY <1>0, <1>2, <2>4, TypeOKParts, SameTypes, UnchangedTyped DEF Rescue, RaisedTyped
  <2> QED
    BY <1>0, <1>2, <2>1, <2>3, <2>4, <2>5, ReplaceStep DEF Rescue
<1>3. CASE Retry
  <2> DEFINE a == [Top EXCEPT !.phase = "body", !.handled = Nil, !.prev = Nil]
  <2>1. Top \in BeginActs /\ Replace(a) /\ ret' = Val
    BY <1>3, TopRecord DEF Retry
  <2>2. a \in BeginActs
    BY <1>0, <2>1 DEF BeginActs
  <2>3. a \in Activations /\ a.kind = "begin" /\ Top.kind = "begin"
    BY <2>1, <2>2 DEF Activations, BeginActs
  <2>4. Len(block_arg)' = Len(block_arg) /\ Len(cause)' = Len(cause)
    BY <1>3 DEF Retry, registers
  <2>5. rescue_context' \in Exns
    BY <1>0, <1>3, <2>1 DEF Retry, RestoreRescueContext, BeginActs
  <2>6. RaisedTyped' /\ RegistersTyped'
    BY <1>0, <1>3, <2>4, <2>5, TypeOKParts, SameTypes, UnchangedTyped
    DEF Retry, RaisedTyped
  <2> QED
    BY <1>0, <1>3, <2>1, <2>3, <2>4, <2>6, ReplaceStep DEF Retry
<1>4. CASE EnterElse
  <2> DEFINE a == [Top EXCEPT !.phase = "else"]
  <2>1. Top \in BeginActs /\ Replace(a) /\ ret' = Val
    BY <1>4, TopRecord DEF EnterElse
  <2>2. a \in BeginActs
    BY <2>1 DEF BeginActs
  <2>3. a \in Activations /\ a.kind = "begin" /\ Top.kind = "begin"
    BY <2>1, <2>2 DEF Activations, BeginActs
  <2>4. Len(block_arg)' = Len(block_arg) /\ Len(cause)' = Len(cause)
    BY <1>4 DEF EnterElse, registers, raised
  <2> QED
    BY <1>0, <1>4, <2>1, <2>3, <2>4, ReplaceStep, UnchangedTyped, TypeOKParts
    DEF EnterElse
<1>5. CASE EnterEnsure
  <2> DEFINE a == [Top EXCEPT !.phase = "ensure", !.result = ret, !.saved = exn,
                              !.handled = Nil, !.prev = Nil]
  <2>1. Top \in BeginActs /\ Replace(a) /\ ret' = Val
    BY <1>5, TopRecord DEF EnterEnsure, BodyOver
  <2>2. a \in BeginActs
    BY <1>0, <2>1 DEF BeginActs
  <2>3. a \in Activations /\ a.kind = "begin" /\ Top.kind = "begin"
    BY <2>1, <2>2 DEF Activations, BeginActs
  <2>4. Len(block_arg)' = Len(block_arg) /\ Len(cause)' = Len(cause)
    BY <1>5 DEF EnterEnsure, registers
  <2>5. rescue_context' \in Exns
    BY <1>0, <1>5, <2>1 DEF EnterEnsure, RestoreRescueContext, BeginActs
  <2>6. RaisedTyped' /\ RegistersTyped'
    BY <1>0, <1>5, <2>4, <2>5, TypeOKParts, SameTypes, UnchangedTyped
    DEF EnterEnsure, RaisedTyped
  <2> QED
    BY <1>0, <1>5, <2>1, <2>3, <2>4, <2>6, ReplaceStep DEF EnterEnsure
<1>6. CASE LeaveBegin
  <2>1. Top \in BeginActs /\ Top.kind = "begin"
    BY <1>6, TopRecord DEF LeaveBegin, BodyOver
  <2>2. Len(block_arg)' = Len(block_arg) /\ Len(cause)' = Len(cause)
    BY <1>6 DEF LeaveBegin, registers
  <2>3. rescue_context' \in Exns
    BY <1>0, <1>6, <2>1 DEF LeaveBegin, RestoreRescueContext, BeginActs
  <2>4. RaisedTyped' /\ RegistersTyped'
    BY <1>0, <1>6, <2>2, <2>3, TypeOKParts, SameTypes, UnchangedTyped
    DEF LeaveBegin, RaisedTyped
  <2> QED
    BY <1>0, <1>6, <2>1, <2>2, <2>4, PopStep DEF LeaveBegin
<1>7. CASE LeaveEnsure
  <2>1. Top \in BeginActs /\ Top.kind = "begin"
    BY <1>7, TopRecord DEF LeaveEnsure
  <2>2. Len(block_arg)' = Len(block_arg) /\ Len(cause)' = Len(cause)
    BY <1>7 DEF LeaveEnsure, registers
  <2>3. /\ exn' \in Exns
        /\ \E r \in Results : Pop(r)
    BY <1>0, <1>7, <2>1 DEF LeaveEnsure, BeginActs
  <2>4. RaisedTyped' /\ RegistersTyped'
    BY <1>0, <1>7, <2>2, <2>3, TypeOKParts, SameTypes, UnchangedTyped
    DEF LeaveEnsure, RaisedTyped
  <2> QED
    BY <1>7, <2>1, <2>2, <2>3, <2>4, PopStep DEF LeaveEnsure
<1> QED
  BY <1>1, <1>2, <1>3, <1>4, <1>5, <1>6, <1>7

\* A result that a loop, a call or a block hands on is a result.
LEMMA ResultsHandedOn ==
  ASSUME TypeOK
  PROVE  /\ LoopResult \in Results /\ BlockResult \in Results
         /\ CallResult \in Results
         /\ Top.kind = "native" => NativeResult \in Results
         /\ Val \in Results /\ Exc \in Results
<1>1. ret \in Results /\ Val \in Results /\ Exc \in Results
  BY DEF TypeOK, Val, Exc, Results
<1>2. LoopResult \in Results /\ BlockResult \in Results /\ CallResult \in Results
  BY <1>1 DEF LoopResult, BlockResult, CallResult
<1>3. ASSUME Top.kind = "native" PROVE NativeResult \in Results
  <2>1. Top.op \in {"iter", "loop", "catch"}
    BY <1>3, TopRecord DEF NativeActs
  <2> QED
    BY <1>1, <2>1 DEF NativeResult
<1> QED
  BY <1>1, <1>2, <1>3

\* while, for and interpolation keep every variable typed.
LEMMA LoopTyped ==
  ASSUME TypeOK, EnterLoop \/ WhileCond \/ WhileBody \/ ForBody \/ EnterRope \/ LeaveRope
  PROVE  TypeOK'
<1>1. Len(block_arg)' = Len(block_arg) /\ Len(cause)' = Len(cause)
  BY DEF EnterLoop, WhileCond, WhileBody, ForBody, EnterRope, LeaveRope, registers, raised
<1>2. uses' = uses /\ RaisedTyped' /\ RegistersTyped'
  BY <1>1, TypeOKParts, UnchangedTyped
  DEF EnterLoop, WhileCond, WhileBody, ForBody, EnterRope, LeaveRope
<1>3. ASSUME NEW kd \in {"while", "for", "rope"}, NEW ph \in {"cond", "body"},
             Push(Nested(kd, ph)), UNCHANGED << uses, raised, registers >>
      PROVE  TypeOK'
  <2>1. Nested(kd, ph) \in LoopActs
    BY NestedTyped, TypeOKParts DEF Nested, LoopActs
  <2>2. Nested(kd, ph) \in Activations /\ Nested(kd, ph).kind = kd
    BY <2>1 DEF Activations, Nested
  <2> QED
    BY <1>3, <2>2, PushStep
<1>4. ASSUME Top.kind \in {"while", "for", "rope"}, NEW r \in Results, Pop(r)
      PROVE  TypeOK'
  BY <1>1, <1>2, <1>4, PopStep
<1>5. ASSUME Top.kind = "while", NEW ph \in {"cond", "body"},
             Replace([Top EXCEPT !.phase = ph]), ret' \in Results
      PROVE  TypeOK'
  <2>1. Top \in LoopActs
    BY <1>5, TopRecord
  <2>2. [Top EXCEPT !.phase = ph] \in LoopActs
    BY <2>1 DEF LoopActs
  <2>3. /\ [Top EXCEPT !.phase = ph] \in Activations
        /\ [Top EXCEPT !.phase = ph].kind = "while"
    BY <1>5, <2>1, <2>2 DEF Activations, LoopActs
  <2> QED
    BY <1>1, <1>2, <1>5, <2>3, ReplaceStep
<1>6. ret \in Results /\ LoopResult \in Results /\ Val \in Results
  BY ResultsHandedOn DEF TypeOK
<1>7. CASE EnterLoop
  BY <1>3, <1>7 DEF EnterLoop
<1>8. CASE EnterRope
  BY <1>3, <1>8 DEF EnterRope
<1>9. CASE WhileCond
  BY <1>4, <1>5, <1>6, <1>9 DEF WhileCond
<1>10. CASE WhileBody
  BY <1>4, <1>5, <1>6, <1>10 DEF WhileBody
<1>11. CASE ForBody
  <2>1. CASE Pop(LoopResult)
    BY <1>4, <1>6, <1>11, <2>1 DEF ForBody
  <2>2. CASE ret' = Val /\ UNCHANGED stack
    BY <1>1, <1>2, <1>6, <2>2, SameTypes, UnchangedTyped, TypeOKParts
  <2> QED
    BY <1>11, <2>1, <2>2 DEF ForBody
<1>12. CASE LeaveRope
  BY <1>4, <1>6, <1>12 DEF LeaveRope
<1> QED
  BY <1>7, <1>8, <1>9, <1>10, <1>11, <1>12

\* Raising, jumping and the end of the program keep every variable typed.
LEMMA JumpTyped ==
  ASSUME TypeOK, Raise \/ Reraise \/ Throw \/ Jump \/ Exit \/ Halted
  PROVE  TypeOK'
<1>1. ASSUME UNCHANGED << uses, stack, raised, registers >>, ret' \in Results
      PROVE  TypeOK'
  <2>1. Len(block_arg)' = Len(block_arg) /\ Len(cause)' = Len(cause)
    BY <1>1 DEF raised, registers
  <2> QED
    BY <1>1, <2>1, SameTypes, UnchangedTyped, TypeOKParts
<1>2. CASE Raise
  <2>1. /\ RaiseNew /\ ret' = Exc
        /\ uses' = uses /\ stack' = stack /\ UNCHANGED registers /\ UNCHANGED block_arg
    BY <1>2 DEF Raise, registers
  <2>2. RaisedTyped' /\ Exns \subseteq Exns' /\ Envs' = Envs /\ Activations \subseteq Activations'
    BY <2>1, RaiseNewTyped
  <2>3. StackTyped'
    BY <2>1, <2>2, TypeOKParts, SeqMonotonic DEF StackTyped, Indices
  <2>4. BlockValues' = BlockValues
    BY <2>2 DEF BlockValues
  <2>5. RegistersTyped'
    BY <2>1, <2>2, <2>4, TypeOKParts DEF RegistersTyped, registers
  <2>6. ret' \in Results'
    BY <2>1 DEF Exc, Results
  <2> QED
    BY <2>1, <2>2, <2>3, <2>5, <2>6, TypeOKParts
<1>3. CASE Reraise
  <2>1. PICK e \in Exns \ {Nil} : RaiseValue(e)
    BY <1>3 DEF Reraise
  <2>2. cause \in Seq(Exns) /\ exn \in Exns /\ rescue_context \in Exns
    BY DEF TypeOK
  <2>3. e \in 1..Len(cause)
    BY <2>2, LenProperties DEF Exns, Nil
  <2>4. Len(cause') = Len(cause) /\ cause' \in Seq(Exns) /\ exn' \in Exns
        /\ rescue_context' = rescue_context
    BY <2>1, <2>2, <2>3, ExceptSeq DEF RaiseValue, raised
  <2>5. Len(block_arg)' = Len(block_arg) /\ Len(cause)' = Len(cause)
    BY <1>3, <2>4 DEF Reraise, registers
  <2>6. RaisedTyped'
    BY <2>2, <2>4, <2>5, SameTypes DEF RaisedTyped
  <2>7. ret' \in Results'
    BY <2>1 DEF RaiseValue, Exc, Results
  <2> QED
    BY <1>3, <2>5, <2>6, <2>7, UnchangedTyped, TypeOKParts DEF Reraise
<1>4. CASE Throw
  BY <1>1, <1>4 DEF Throw, Results
<1>5. CASE Jump
  <2>1. Top.def \in Envs /\ BreakHome \in Nat /\ Allowed \in SUBSET Jumps
    BY NestedTyped, TypeOKParts
  <2>2. PICK j \in Jumps : ret' = Signal(j)
    BY <1>5, <2>1 DEF Jump
  <2>3. ret' \in Results
    BY <2>1, <2>2 DEF Signal, Jumps, Results
  <2> QED
    BY <1>1, <1>5, <2>3 DEF Jump
<1>6. CASE Exit
  <2> DEFINE a == [Top EXCEPT !.kind = "exited"]
  <2>1. Top \in ProgramActs /\ Replace(a)
    BY <1>6, TopRecord DEF Exit
  <2>2. a \in ProgramActs /\ a.kind = "exited"
    BY <2>1 DEF ProgramActs
  <2>3. a \in Activations
    BY <2>2 DEF Activations
  <2>4. Len(block_arg)' = Len(block_arg) /\ Len(cause)' = Len(cause)
    BY <1>6 DEF Exit, raised, registers
  <2>5. ret' \in Results /\ Top.kind = "program"
    BY <1>6 DEF Exit, TypeOK
  <2> QED
    BY <1>6, <2>1, <2>2, <2>3, <2>4, <2>5, ReplaceStep, UnchangedTyped, TypeOKParts
    DEF Exit
<1>7. CASE Halted
  BY <1>1, <1>7 DEF Halted, vars, TypeOK
<1> QED
  BY <1>2, <1>3, <1>4, <1>5, <1>6, <1>7

\* The calls of a block or proc, and what happens when it returns.
LEMMA BlockTyped ==
  ASSUME TypeOK, CallProc \/ CallEscaped \/ Yield \/ LeaveBlock
  PROVE  TypeOK'
<1>1. CASE CallProc
  BY <1>1, CallBlockStep, BlocksTyped, TypeOKParts DEF CallProc
<1>2. CASE CallEscaped
  BY <1>2, CallBlockStep, BlocksTyped, TypeOKParts DEF CallEscaped
<1>3. CASE Yield
  <2>1. Top.def \in 1..Len(block_arg)
    BY <1>3, NestedTyped, TypeOKParts, LenProperties
    DEF Yield, Envs, TopEnv, TypeOK
  <2>2. block_arg \in Seq(BlockValues \cup {NoBlock})
    BY DEF TypeOK
  <2>3. block_arg[Top.def] \in BlockValues
    BY <1>3, <2>1, <2>2, ElementOfSeq DEF Yield
  <2> QED
    BY <1>3, <2>3, CallBlockStep DEF Yield
<1>4. CASE LeaveBlock
  <2>1. /\ Top.kind = "block" /\ uses' = uses /\ UNCHANGED block_arg
        /\ call_depth' = call_depth /\ frame_count' = PopFrame
        /\ active_defs' = active_defs
    BY <1>4 DEF LeaveBlock
  <2>2. CASE Orphan
    <3>1. RaiseNew /\ Pop(Exc)
      BY <1>4, <2>2 DEF LeaveBlock
    <3>2. RaisedTyped' /\ Exns \subseteq Exns' /\ Envs' = Envs
          /\ Activations \subseteq Activations'
      BY <2>1, <3>1, RaiseNewTyped
    <3>3. StackTyped'
      BY <2>1, <3>1, <3>2, PopTyped, TypeOKParts DEF Pop
    <3>4. BlockValues' = BlockValues
      BY <3>2 DEF BlockValues
    <3>5. RegistersTyped'
      BY <2>1, <3>2, <3>4, FrameCountBounded, TypeOKParts DEF RegistersTyped
    <3>6. ret' \in Results'
      BY <3>1 DEF Pop, Exc, Results
    <3> QED
      BY <2>1, <3>2, <3>3, <3>5, <3>6, TypeOKParts
  <2>3. CASE ~Orphan
    <3>1. Pop(BlockResult) /\ UNCHANGED raised
      BY <1>4, <2>3 DEF LeaveBlock
    <3>2. Len(block_arg)' = Len(block_arg) /\ Len(cause)' = Len(cause)
      BY <2>1, <3>1 DEF raised
    <3>3. RaisedTyped'
      BY <3>1, <3>2, UnchangedTyped, TypeOKParts
    <3>4. RegistersTyped'
      BY <2>1, <3>2, FrameCountBounded, SameTypes, TypeOKParts DEF RegistersTyped
    <3> QED
      BY <2>1, <3>1, <3>2, <3>3, <3>4, ResultsHandedOn, PopStep
  <2> QED
    BY <2>2, <2>3
<1> QED
  BY <1>1, <1>2, <1>3, <1>4

\* active_defs is never longer than EVAL_MAX_DEPTH, and a pop keeps it a list of
\* environments.
LEMMA ActiveDefsTyped ==
  ASSUME TypeOK
  PROVE  /\ PopDef \in Seq(Envs) /\ Len(PopDef) <= EvalMaxDepth
         /\ \A S : \A e \in S : Envs \subseteq S =>
              PushDef(e) \in Seq(S) /\ Len(PushDef(e)) <= EvalMaxDepth
<1>1. active_defs \in Seq(Envs) /\ Len(active_defs) <= EvalMaxDepth
  BY DEF TypeOK
<1>2. Len(active_defs) \in Nat
  BY <1>1, LenProperties
<1>3. PopDef \in Seq(Envs) /\ Len(PopDef) <= EvalMaxDepth
  <2>1. CASE Len(active_defs) = 0
    BY <1>1, <2>1 DEF PopDef
  <2>2. CASE Len(active_defs) > 0
    <3>1. PopDef = Front(active_defs) /\ active_defs # << >>
      BY <2>2 DEF PopDef
    <3>2. /\ Front(active_defs) \in Seq(Envs)
          /\ Len(Front(active_defs)) = Len(active_defs) - 1
      BY <1>1, <3>1, FrontProperties
    <3> QED
      BY <1>1, <1>2, <3>1, <3>2, BoundsAssumption
  <2> QED
    BY <1>2, <2>1, <2>2
<1>4. ASSUME NEW S, NEW e \in S, Envs \subseteq S
      PROVE  PushDef(e) \in Seq(S) /\ Len(PushDef(e)) <= EvalMaxDepth
  <2>1. active_defs \in Seq(S)
    BY <1>1, <1>4, SeqMonotonic
  <2>2. CASE Len(active_defs) < EvalMaxDepth
    BY <1>2, <2>1, <2>2, AppendProperties, BoundsAssumption DEF PushDef
  <2>3. CASE ~(Len(active_defs) < EvalMaxDepth)
    BY <1>1, <2>1, <2>3 DEF PushDef
  <2> QED
    BY <2>2, <2>3
<1> QED
  BY <1>3, <1>4

\* Entering and leaving a method keeps every variable typed.
LEMMA CallTyped ==
  ASSUME TypeOK, EnterCall \/ LeaveCall
  PROVE  TypeOK'
<1>1. CASE EnterCall
  <2>1. PICK via \in {"method", "function"}, b \in BlockArgs :
          IF exn # Nil THEN ret' = Exc /\ UNCHANGED << stack, registers >>
          ELSE /\ Push(CallAct(via, b))
               /\ block_arg' = Append(block_arg, b)
               /\ call_depth' = call_depth + 1
               /\ active_defs' = PushDef(Len(block_arg) + 1)
               /\ frame_count' = PushFrame
    BY <1>1 DEF EnterCall
  <2>2. uses' = uses /\ UNCHANGED raised /\ Len(cause)' = Len(cause)
    BY <1>1 DEF EnterCall, raised
  <2>3. CASE exn # Nil
    <3>1. ret' = Exc /\ UNCHANGED stack /\ UNCHANGED registers
      BY <2>1, <2>3
    <3>2. Len(block_arg)' = Len(block_arg)
      BY <3>1 DEF registers
    <3>3. ret' \in Results'
      BY <3>1 DEF Exc, Results
    <3> QED
      BY <2>2, <3>1, <3>2, <3>3, UnchangedTyped, TypeOKParts
  <2>4. CASE exn = Nil
    <3> DEFINE a == CallAct(via, b)
    <3>1. /\ Push(a) /\ block_arg' = Append(block_arg, b)
          /\ call_depth' = call_depth + 1
          /\ active_defs' = PushDef(Len(block_arg) + 1) /\ frame_count' = PushFrame
      BY <2>1, <2>4
    <3>2. b \in BlockValues \cup {NoBlock}
      BY BlocksTyped, TypeOKParts DEF BlockArgs
    <3>3. block_arg \in Seq(BlockValues \cup {NoBlock}) /\ Len(block_arg) \in Nat
      BY LenProperties DEF TypeOK
    <3>4. /\ block_arg' \in Seq(BlockValues \cup {NoBlock})
          /\ Len(block_arg)' = Len(block_arg) + 1
      BY <3>1, <3>2, <3>3, AppendProperties
    <3>5. /\ Envs \subseteq Envs' /\ Exns \subseteq Exns' /\ Exns' = Exns
          /\ Len(block_arg) + 1 \in Envs'
      BY <2>2, <3>3, <3>4 DEF Envs, Exns
    <3>6. BlockValues \subseteq BlockValues' /\ Activations \subseteq Activations'
      BY <3>5, TypesGrow
    <3>7. a \in CallActs'
      BY <3>2, <3>5, <3>6 DEF CallAct, CallActs, Jumps, NoBlock
    <3>8. a \in Activations' /\ a.kind = "call"
      BY <3>7 DEF Activations, CallAct
    <3>9. StackTyped'
      BY <3>1, <3>6, <3>8, PushTyped, TypeOKParts DEF Push
    <3>10. block_arg' \in Seq((BlockValues \cup {NoBlock})')
      <4>1. BlockValues \cup {NoBlock} \subseteq (BlockValues \cup {NoBlock})'
        BY <3>6 DEF NoBlock
      <4> QED
        BY <3>4, <4>1, SeqMonotonic
    <3>11. active_defs' \in Seq(Envs') /\ Len(active_defs') <= EvalMaxDepth
      BY <3>1, <3>5, ActiveDefsTyped
    <3>12. RegistersTyped'
      BY <3>1, <3>10, <3>11, FrameCountBounded DEF RegistersTyped, TypeOK
    <3>13. RaisedTyped'
      BY <2>2, <3>5, TypeOKParts DEF RaisedTyped, raised
    <3>14. ret' \in Results'
      BY <3>1 DEF Push, Val, Results
    <3> QED
      BY <2>2, <3>9, <3>12, <3>13, <3>14, TypeOKParts
  <2> QED
    BY <2>3, <2>4
<1>2. CASE LeaveCall
  <2>1. /\ Top.kind = "call" /\ Pop(CallResult) /\ uses' = uses /\ UNCHANGED raised
        /\ block_arg' = block_arg /\ frame_count' = PopFrame /\ active_defs' = PopDef
        /\ call_depth' = call_depth - 1
    BY <1>2 DEF LeaveCall
  <2>2. Len(block_arg)' = Len(block_arg) /\ Len(cause)' = Len(cause)
    BY <2>1 DEF raised
  <2>3. RaisedTyped'
    BY <2>1, <2>2, UnchangedTyped, TypeOKParts
  <2>4. RegistersTyped'
    BY <2>1, <2>2, FrameCountBounded, ActiveDefsTyped, SameTypes
    DEF RegistersTyped, TypeOK
  <2> QED
    BY <2>1, <2>2, <2>3, <2>4, ResultsHandedOn, PopStep
<1> QED
  BY <1>1, <1>2

\* The built-ins that call a block keep every variable typed.
LEMMA NativeTyped ==
  ASSUME TypeOK, EnterNative \/ NativeAgain \/ NativeLeave \/ LoopStops
  PROVE  TypeOK'
<1>1. CASE EnterNative
  <2>1. PICK n \in Natives :
          IF exn # Nil THEN ret' = Exc /\ UNCHANGED << stack, frame_count >>
          ELSE /\ stack' = stack \o << n, BlockAct(n.blk) >>
               /\ ret' = Val
               /\ frame_count' = PushFrame
    BY <1>1 DEF EnterNative
  <2>2. /\ uses' = uses /\ UNCHANGED raised /\ call_depth' = call_depth
        /\ active_defs' = active_defs /\ block_arg' = block_arg
        /\ Len(block_arg)' = Len(block_arg) /\ Len(cause)' = Len(cause)
    BY <1>1 DEF EnterNative, raised
  <2>3. RaisedTyped'
    BY <2>2, UnchangedTyped, TypeOKParts
  <2>4. frame_count' \in 0..EvalMaxDepth /\ ret' \in Results
    BY <2>1, FrameCountBounded, ResultsHandedOn DEF TypeOK
  <2>5. RegistersTyped'
    BY <2>2, <2>4, SameTypes, TypeOKParts DEF RegistersTyped
  <2>6. StackTyped'
    <3>1. CASE exn # Nil
      BY <2>1, <2>2, <3>1, UnchangedTyped, TypeOKParts
    <3>2. CASE exn = Nil
      <4>1. Literal \in BlockValues /\ Top.def \in Envs /\ BreakHome \in Nat
            /\ Allowed \in SUBSET Jumps
        BY BlocksTyped, NestedTyped, TypeOKParts
      <4>2. n \in NativeActs
        BY <4>1 DEF Natives, NativeAct, NativeActs, Nil
      <4>3. n.blk \in BlockValues /\ n.kind = "native"
        BY <4>2 DEF NativeActs
      <4>4. Len(stack) \in Nat \ {0}
        BY TopTyped, TypeOKParts
      <4>5. BlockAct(n.blk) \in BlockActs
        BY <4>3, <4>4 DEF BlockAct, BlockActs, BlockValues
      <4>6. /\ n \in Activations /\ BlockAct(n.blk) \in Activations
            /\ BlockAct(n.blk).kind = "block"
        BY <4>2, <4>5 DEF Activations, BlockAct
      <4> DEFINE two == << n, BlockAct(n.blk) >>
      <4>7. two \in Seq(Activations) /\ Len(two) = 2
        BY <4>6
      <4>8. two[1].kind = "native" /\ two[2].kind = "block"
        BY <4>3, <4>6
      <4>9. stack' = stack \o two /\ stack \in Seq(Activations)
        BY <2>1, <3>2 DEF TypeOK
      <4> HIDE DEF two
      <4>10. /\ stack' \in Seq(Activations) /\ Len(stack') = Len(stack) + 2
             /\ \A i \in 1..Len(stack') :
                  stack'[i] = IF i <= Len(stack) THEN stack[i] ELSE two[i - Len(stack)]
        <5>1. /\ stack \o two \in Seq(Activations) /\ Len(stack \o two) = Len(stack) + Len(two)
              /\ \A i \in 1..Len(stack) + Len(two) :
                   (stack \o two)[i] = IF i <= Len(stack) THEN stack[i]
                                      ELSE two[i - Len(stack)]
          BY <4>7, <4>9, ConcatProperties
        <5> QED
          BY <4>7, <4>9, <5>1
      <4>11. \A i \in 1..Len(stack') :
               stack'[i].kind \in {"program", "exited"} <=> i = 1
        <5> SUFFICES ASSUME NEW i \in 1..Len(stack')
                     PROVE  stack'[i].kind \in {"program", "exited"} <=> i = 1
          OBVIOUS
        <5>1. CASE i <= Len(stack)
          BY <4>4, <4>10, <5>1 DEF TypeOK, Indices
        <5>2. CASE i > Len(stack)
          <6>1. i - Len(stack) \in {1, 2} /\ i # 1
            BY <4>4, <4>10, <5>2
          <6>2. stack'[i] = two[i - Len(stack)]
            BY <4>4, <4>10, <5>2
          <6> QED
            BY <4>8, <6>1, <6>2
        <5> QED
          BY <4>4, <4>10, <5>1, <5>2
      <4> QED
        BY <2>2, <4>4, <4>10, <4>11, SameTypes DEF StackTyped, Indices
    <3> QED
      BY <3>1, <3>2
  <2> QED
    BY <2>2, <2>3, <2>4, <2>5, <2>6, SameTypes, TypeOKParts
<1>2. CASE NativeAgain
  <2>1. Top.kind = "native" /\ Top \in NativeActs
    BY <1>2, TopRecord DEF NativeAgain
  <2>2. Top.blk \in BlockValues
    BY <2>1 DEF NativeActs
  <2> QED
    BY <1>2, <2>2, CallBlockStep DEF NativeAgain
<1>3. CASE NativeLeave
  <2>1. Len(block_arg)' = Len(block_arg) /\ Len(cause)' = Len(cause)
    BY <1>3 DEF NativeLeave, raised, registers
  <2> QED
    BY <1>3, <2>1, ResultsHandedOn, PopStep, UnchangedTyped, TypeOKParts DEF NativeLeave
<1>4. CASE LoopStops
  <2>1. Len(block_arg)' = Len(block_arg) /\ Len(cause)' = Len(cause)
    BY <1>4 DEF LoopStops, registers
  <2>2. RegistersTyped'
    BY <1>4, <2>1, UnchangedTyped, TypeOKParts DEF LoopStops
  <2>3. RaisedTyped'
    BY <1>4, <2>1, SameTypes, LenProperties DEF LoopStops, RaisedTyped, TypeOK, Exns, Nil
  <2> QED
    BY <1>4, <2>1, <2>2, <2>3, ResultsHandedOn, PopStep DEF LoopStops
<1> QED
  BY <1>1, <1>2, <1>3, <1>4

\* eval_init leaves every variable typed.
LEMMA InitTyped ==
  ASSUME Init
  PROVE  TypeOK
<1>1. Len(block_arg) = 0 /\ Len(cause) = 0
  BY DEF Init
<1>2. /\ Envs = {0} /\ Exns = {0}
  BY <1>1 DEF Envs, Exns
<1>3. Program \in ProgramActs
  BY <1>2 DEF Program, ProgramActs, TopEnv
<1>4. stack \in Seq(Activations) /\ stack # << >> /\ Len(stack) = 1 /\ stack[1] = Program
  BY <1>3 DEF Init, Activations
<1>5. StackTyped
  BY <1>4 DEF StackTyped, Indices, Program
<1>6. RaisedTyped
  BY <1>2 DEF Init, RaisedTyped, Nil
<1>7. RegistersTyped
  <2>1. active_defs \in Seq(Envs) /\ Len(active_defs) = 1
    BY <1>2 DEF Init, TopEnv
  <2>2. block_arg \in Seq(BlockValues \cup {NoBlock})
    BY DEF Init
  <2> QED
    BY <2>1, <2>2, BoundsAssumption DEF Init, RegistersTyped
<1> QED
  BY <1>5, <1>6, <1>7, TypeOKParts DEF Init, Val, Results

\* No step of the evaluator breaks the type invariant.
LEMMA NextTyped ==
  ASSUME TypeOK, [Next]_vars
  PROVE  TypeOK'
<1>1. CASE Next
  BY <1>1, BeginTyped, LoopTyped, JumpTyped, BlockTyped, CallTyped, NativeTyped DEF Next
<1>2. CASE UNCHANGED vars
  <2>1. Len(block_arg)' = Len(block_arg) /\ Len(cause)' = Len(cause)
    BY <1>2 DEF vars, raised, registers
  <2> QED
    BY <1>2, <2>1, SameTypes, UnchangedTyped, TypeOKParts DEF vars
<1> QED
  BY <1>1, <1>2

\* Every variable of the evaluator has its type in every reachable state: in
\* particular frames and active_defs are never written past EVAL_MAX_DEPTH.
THEOREM TypeCorrect == Spec => []TypeOK
<1>1. Init => TypeOK
  BY InitTyped
<1>2. TypeOK /\ [Next]_vars => TypeOK'
  BY NextTyped
<1> QED
  BY <1>1, <1>2, PTL DEF Spec

(***************************************************************************)
(* What a step may do to the stack and to rescue_context: push activations *)
(* that handle nothing, pop the running one, or turn it to another phase.  *)
(***************************************************************************)

IsHandler(a) == a.kind = "begin" /\ a.phase = "rescue"

SameBelow(n) == \A i \in 1..n : stack'[i] = stack[i]

\* Where the running handler is left, rescue_context goes back to what it was
\* when that handler was entered.
Restores == rescue_context' = IF IsHandler(Top) THEN Top.prev ELSE rescue_context

Pushes ==
  /\ Len(stack') \in Nat /\ Len(stack') >= Len(stack)
  /\ SameBelow(Len(stack))
  /\ \A i \in Len(stack) + 1..Len(stack') : ~IsHandler(stack'[i])
  /\ rescue_context' = rescue_context

Pops ==
  /\ Len(stack') = Len(stack) - 1
  /\ SameBelow(Len(stack) - 1)
  /\ Top.kind = "begin" /\ Top.ensure => Top.phase = "ensure"
  /\ Restores

Turns ==
  /\ Len(stack') = Len(stack)
  /\ SameBelow(Len(stack) - 1)
  /\ Top.kind = "begin" => Top.phase # "ensure"
  /\ LET new == stack'[Len(stack)] IN
       \/ ~IsHandler(new) /\ Restores
       \/ /\ IsHandler(new) /\ ~IsHandler(Top)
          /\ new.prev = rescue_context /\ new.handled = rescue_context'

\* Push appends.
LEMMA PushIsPushes ==
  ASSUME TypeOK, NEW a, ~IsHandler(a), Push(a), rescue_context' = rescue_context
  PROVE  Pushes
<1>1. /\ stack' = Append(stack, a) /\ stack \in Seq(Activations \cup {a})
      /\ Len(stack) \in Nat
  <2>1. stack \in Seq(Activations) /\ Len(stack) \in Nat
    BY LenProperties DEF TypeOK
  <2> QED
    BY <2>1, SeqMonotonic DEF Push
<1>2. /\ Len(stack') = Len(stack) + 1
      /\ \A i \in 1..Len(stack) : stack'[i] = stack[i]
      /\ stack'[Len(stack) + 1] = a
  BY <1>1, AppendProperties
<1> QED
  BY <1>1, <1>2 DEF Pushes, SameBelow

\* Pop takes the last activation away.
LEMMA PopIsPops ==
  ASSUME TypeOK, Top.kind \notin {"program", "exited"}, stack' = Front(stack),
         Top.kind = "begin" /\ Top.ensure => Top.phase = "ensure",
         Restores
  PROVE  Pops
<1>1. stack \in Seq(Activations) /\ stack # << >>
  BY DEF TypeOK
<1>2. /\ Len(stack') = Len(stack) - 1
      /\ \A i \in 1..Len(stack) - 1 : stack'[i] = stack[i]
  BY <1>1, FrontProperties
<1> QED
  BY <1>2 DEF Pops, SameBelow

\* Replace changes the last activation only.
LEMMA ReplaceFacts ==
  ASSUME TypeOK, NEW a, Replace(a)
  PROVE  /\ Len(stack') = Len(stack) /\ SameBelow(Len(stack) - 1)
         /\ stack'[Len(stack)] = a
<1>1. stack \in Seq(Activations \cup {a}) /\ Len(stack) \in Nat \ {0}
  <2>1. stack \in Seq(Activations) /\ Len(stack) \in Nat \ {0}
    BY TopTyped, TypeOKParts DEF TypeOK
  <2> QED
    BY <2>1, SeqMonotonic
<1>2. /\ Len(stack') = Len(stack)
      /\ \A i \in 1..Len(stack) : stack'[i] = IF i = Len(stack) THEN a ELSE stack[i]
  BY <1>1, ExceptSeq DEF Replace
<1> QED
  BY <1>1, <1>2 DEF SameBelow

\* A step that leaves the stack and rescue_context alone pushes nothing.
LEMMA StayIsPushes ==
  ASSUME TypeOK, stack' = stack, rescue_context' = rescue_context
  PROVE  Pushes
<1>1. Len(stack) \in Nat
  BY LenProperties DEF TypeOK
<1> QED
  BY <1>1 DEF Pushes, SameBelow

\* What the actions of begin do to the stack and to rescue_context.
LEMMA BeginShape ==
  ASSUME TypeOK,
         \/ EnterBegin \/ Rescue \/ Retry \/ EnterElse \/ EnterEnsure
         \/ LeaveBegin \/ LeaveEnsure
  PROVE  Pushes \/ Pops \/ Turns
<1>1. CASE EnterBegin
  <2>1. PICK el, en \in BOOLEAN : Push(BeginAct(el, en))
    BY <1>1 DEF EnterBegin
  <2>2. ~IsHandler(BeginAct(el, en)) /\ rescue_context' = rescue_context
    BY <1>1 DEF IsHandler, BeginAct, EnterBegin, raised
  <2> QED
    BY <2>1, <2>2, PushIsPushes
<1>2. CASE Rescue
  <2> DEFINE a == [Top EXCEPT !.phase = "rescue", !.rescued = TRUE,
                              !.handled = exn, !.prev = rescue_context]
  <2>1. Top \in BeginActs /\ Top.phase = "body" /\ Replace(a) /\ rescue_context' = exn
    BY <1>2, TopRecord DEF Rescue
  <2>2. /\ a.kind = "begin" /\ a.phase = "rescue" /\ a.handled = exn
        /\ a.prev = rescue_context
    BY <2>1 DEF BeginActs
  <2> HIDE DEF a
  <2>3. Len(stack') = Len(stack) /\ SameBelow(Len(stack) - 1) /\ stack'[Len(stack)] = a
    BY <2>1, ReplaceFacts
  <2> QED
    BY <2>1, <2>2, <2>3 DEF Turns, IsHandler
<1>3. CASE Retry
  <2> DEFINE a == [Top EXCEPT !.phase = "body", !.handled = Nil, !.prev = Nil]
  <2>1. Top \in BeginActs /\ Top.phase = "rescue" /\ Replace(a) /\ RestoreRescueContext
    BY <1>3, TopRecord DEF Retry
  <2>2. a.phase = "body" /\ Top.kind = "begin"
    BY <2>1 DEF BeginActs
  <2> HIDE DEF a
  <2>3. Len(stack') = Len(stack) /\ SameBelow(Len(stack) - 1) /\ stack'[Len(stack)] = a
    BY <2>1, ReplaceFacts
  <2> QED
    BY <2>1, <2>2, <2>3 DEF Turns, IsHandler, Restores, RestoreRescueContext
<1>4. CASE EnterElse
  <2> DEFINE a == [Top EXCEPT !.phase = "else"]
  <2>1. /\ Top \in BeginActs /\ Top.phase = "body" /\ Replace(a)
        /\ rescue_context' = rescue_context
    BY <1>4, TopRecord DEF EnterElse, TakesElse, raised
  <2>2. a.phase = "else"
    BY <2>1 DEF BeginActs
  <2> HIDE DEF a
  <2>3. Len(stack') = Len(stack) /\ SameBelow(Len(stack) - 1) /\ stack'[Len(stack)] = a
    BY <2>1, ReplaceFacts
  <2> QED
    BY <2>1, <2>2, <2>3 DEF Turns, IsHandler, Restores
<1>5. CASE EnterEnsure
  <2> DEFINE a == [Top EXCEPT !.phase = "ensure", !.result = ret, !.saved = exn,
                              !.handled = Nil, !.prev = Nil]
  <2>1. /\ Top \in BeginActs /\ Top.kind = "begin" /\ Top.phase # "ensure" /\ Replace(a)
        /\ RestoreRescueContext
    BY <1>5, TopRecord DEF EnterEnsure, BodyOver
  <2>2. a.phase = "ensure"
    BY <2>1 DEF BeginActs
  <2> HIDE DEF a
  <2>3. Len(stack') = Len(stack) /\ SameBelow(Len(stack) - 1) /\ stack'[Len(stack)] = a
    BY <2>1, ReplaceFacts
  <2> QED
    BY <2>1, <2>2, <2>3 DEF Turns, IsHandler, Restores, RestoreRescueContext
<1>6. CASE LeaveBegin
  <2>1. /\ Top.kind = "begin" /\ ~Top.ensure /\ Pop(ret) /\ RestoreRescueContext
    BY <1>6 DEF LeaveBegin, BodyOver
  <2>2. Restores
    BY <2>1 DEF Restores, RestoreRescueContext, IsHandler
  <2> QED
    BY <2>1, <2>2, PopIsPops DEF Pop
<1>7. CASE LeaveEnsure
  <2>1. /\ Top.kind = "begin" /\ Top.phase = "ensure" /\ rescue_context' = rescue_context
        /\ stack' = Front(stack)
    BY <1>7 DEF LeaveEnsure, Pop
  <2>2. Restores
    BY <2>1 DEF Restores, IsHandler
  <2> QED
    BY <2>1, <2>2, PopIsPops
<1> QED
  BY <1>1, <1>2, <1>3, <1>4, <1>5, <1>6, <1>7

\* The other actions: none of them touches a begin or rescue_context.
LEMMA OtherShape ==
  ASSUME TypeOK,
         \/ Raise \/ Reraise \/ Throw \/ Jump \/ Exit \/ Halted
         \/ EnterLoop \/ WhileCond \/ WhileBody \/ ForBody \/ EnterRope \/ LeaveRope
         \/ CallProc \/ CallEscaped \/ Yield \/ LeaveBlock \/ EnterCall \/ LeaveCall
         \/ EnterNative \/ NativeAgain \/ NativeLeave \/ LoopStops
  PROVE  Pushes \/ Pops \/ Turns
<1>1. rescue_context' = rescue_context
  BY DEF Raise, Reraise, Throw, Jump, Exit, Halted, EnterLoop, WhileCond, WhileBody,
         ForBody, EnterRope, LeaveRope, CallProc, CallEscaped, Yield, LeaveBlock,
         EnterCall, LeaveCall, EnterNative, NativeAgain, NativeLeave, LoopStops,
         RaiseNew, RaiseValue, raised, vars
<1>2. ASSUME NEW a, Push(a), a.kind # "begin"
      PROVE  Pushes
  BY <1>1, <1>2, PushIsPushes DEF IsHandler
<1>3. ASSUME Top.kind \notin {"program", "exited", "begin"}, stack' = Front(stack)
      PROVE  Pops
  <2>1. Restores
    BY <1>1, <1>3 DEF Restores, IsHandler
  <2> QED
    BY <1>3, <2>1, PopIsPops
<1>4. ASSUME NEW a, Replace(a), Top.kind # "begin", a.kind # "begin"
      PROVE  Turns
  <2>1. Len(stack') = Len(stack) /\ SameBelow(Len(stack) - 1) /\ stack'[Len(stack)] = a
    BY <1>4, ReplaceFacts
  <2> QED
    BY <1>1, <1>4, <2>1 DEF Turns, IsHandler, Restores
<1>5. ASSUME stack' = stack
      PROVE  Pushes
  BY <1>1, <1>5, StayIsPushes
<1>6. ASSUME NEW b, CallBlock(b)
      PROVE  Pushes
  BY <1>2, <1>5, <1>6 DEF CallBlock, BlockAct
<1>7. CASE Raise \/ Reraise \/ Throw \/ Jump \/ Halted
  BY <1>5, <1>7 DEF Raise, Reraise, Throw, Jump, Halted, vars
<1>8. CASE Exit
  <2>1. Top \in ProgramActs
    BY <1>8, TopRecord DEF Exit
  <2>2. [Top EXCEPT !.kind = "exited"].kind # "begin"
    BY <2>1 DEF ProgramActs
  <2> QED
    BY <1>4, <1>8, <2>2 DEF Exit
<1>9. CASE EnterLoop \/ EnterRope
  BY <1>2, <1>9 DEF EnterLoop, EnterRope, Nested
<1>10. CASE WhileCond \/ WhileBody
  <2>1. Top \in LoopActs /\ Top.kind = "while"
    BY <1>10, TopRecord DEF WhileCond, WhileBody
  <2>2. \A ph : [Top EXCEPT !.phase = ph].kind # "begin"
    BY <2>1 DEF LoopActs
  <2> QED
    BY <1>3, <1>4, <1>10, <2>1, <2>2 DEF WhileCond, WhileBody, Pop
<1>11. CASE ForBody \/ LeaveRope
  BY <1>3, <1>5, <1>11 DEF ForBody, LeaveRope, Pop
<1>12. CASE CallProc \/ CallEscaped \/ Yield \/ NativeAgain
  BY <1>6, <1>12 DEF CallProc, CallEscaped, Yield, NativeAgain
<1>13. CASE LeaveBlock \/ LeaveCall \/ NativeLeave \/ LoopStops
  BY <1>3, <1>13 DEF LeaveBlock, LeaveCall, NativeLeave, LoopStops, Pop
<1>14. CASE EnterCall
  BY <1>2, <1>5, <1>14 DEF EnterCall, CallAct
<1>15. CASE EnterNative
  <2>1. PICK n \in Natives :
          IF exn # Nil THEN ret' = Exc /\ UNCHANGED << stack, frame_count >>
          ELSE stack' = stack \o << n, BlockAct(n.blk) >>
    BY <1>15 DEF EnterNative
  <2>2. CASE exn # Nil
    BY <1>5, <2>1, <2>2
  <2>3. CASE exn = Nil
    <3> DEFINE two == << n, BlockAct(n.blk) >>
    <3>1. Len(two) = 2 /\ two[1].kind # "begin" /\ two[2].kind # "begin"
      BY DEF Natives, NativeAct, BlockAct
    <3>2. PICK S : stack \in Seq(S) /\ two \in Seq(S)
      <4>1. two \in Seq(Activations \cup {n, BlockAct(n.blk)})
        OBVIOUS
      <4>2. stack \in Seq(Activations \cup {n, BlockAct(n.blk)})
        BY SeqMonotonic DEF TypeOK
      <4> QED
        BY <4>1, <4>2
    <3>3. stack' = stack \o two
      BY <2>1, <2>3
    <3> HIDE DEF two
    <3>4. /\ Len(stack') = Len(stack) + Len(two)
          /\ \A i \in 1..Len(stack) + Len(two) :
               stack'[i] = IF i <= Len(stack) THEN stack[i] ELSE two[i - Len(stack)]
      BY <3>2, <3>3, ConcatProperties
    <3>5. Len(stack) \in Nat
      BY <3>2, LenProperties
    <3>6. SameBelow(Len(stack))
      BY <3>1, <3>4, <3>5 DEF SameBelow
    <3>7. \A i \in Len(stack) + 1..Len(stack') : ~IsHandler(stack'[i])
      <4> SUFFICES ASSUME NEW i \in Len(stack) + 1..Len(stack')
                   PROVE  ~IsHandler(stack'[i])
        OBVIOUS
      <4>1. i - Len(stack) \in {1, 2} /\ ~(i <= Len(stack)) /\ i \in 1..Len(stack) + Len(two)
        BY <3>1, <3>4, <3>5
      <4>2. stack'[i] = two[i - Len(stack)]
        BY <3>4, <4>1
      <4> QED
        BY <3>1, <4>1, <4>2 DEF IsHandler
    <3> QED
      BY <1>1, <3>1, <3>4, <3>5, <3>6, <3>7 DEF Pushes
  <2> QED
    BY <2>2, <2>3
<1> QED
  BY <1>7, <1>8, <1>9, <1>10, <1>11, <1>12, <1>13, <1>14, <1>15

\* Every step has one of the three shapes.
LEMMA StepShape ==
  ASSUME TypeOK, [Next]_vars
  PROVE  Pushes \/ Pops \/ Turns
<1>1. CASE Next
  BY <1>1, BeginShape, OtherShape DEF Next
<1>2. CASE UNCHANGED vars
  BY <1>2, StayIsPushes DEF vars, raised
<1> QED
  BY <1>1, <1>2

(***************************************************************************)
(* The handlers on the stack form a chain: each one remembers in prev what *)
(* the next one below it handles.  That is why putting prev back on the    *)
(* way out, and nothing else, keeps rescue_context right.                  *)
(***************************************************************************)

\* The lowest handler remembers nil and every other one remembers the
\* exception handled just below it.
HandlerChain ==
  /\ \A i \in Handlers :
       (\A j \in Handlers : i <= j) => stack[i].prev = Nil
  /\ \A i, j \in Handlers :
       (i < j /\ \A k \in Handlers : k <= i \/ j <= k) => stack[j].prev = stack[i].handled

\* The inductive invariant of RescueContextCorrect.
RescueInv == RescueContextInnermost /\ HandlerChain

\* The same handlers with the same rescue_context.
LEMMA SameHandlers ==
  ASSUME RescueInv, Handlers' = Handlers, \A i \in Handlers : stack'[i] = stack[i],
         rescue_context' = rescue_context
  PROVE  RescueInv'
BY DEF RescueInv, RescueContextInnermost, HandlerChain, Nil

\* The innermost handler is left.
LEMMA HandlerLeft ==
  ASSUME RescueInv, NEW n \in Nat, Handlers \subseteq 1..n, n \in Handlers,
         Handlers' = Handlers \ {n}, \A i \in Handlers' : stack'[i] = stack[i],
         rescue_context' = stack[n].prev
  PROVE  RescueInv'
<1>1. \A i \in Handlers : i \in Nat /\ i <= n
  <2>1. \A i \in 1..n : i \in Nat /\ i <= n
    OBVIOUS
  <2> QED
    BY <2>1
<1>2. RescueContextInnermost'
  <2>1. Handlers' = {} => rescue_context' = Nil
    <3> SUFFICES ASSUME Handlers' = {}
                 PROVE  rescue_context' = Nil
      OBVIOUS
    <3>1. Handlers = {n}
      OBVIOUS
    <3> QED
      BY <3>1 DEF RescueInv, HandlerChain
  <2>2. ASSUME NEW i \in Handlers', \A j \in Handlers' : j <= i
        PROVE  rescue_context' = stack'[i].handled
    <3>1. i \in Handlers /\ i # n
      OBVIOUS
    <3>2. i < n
      BY <1>1, <3>1
    <3>3. \A k \in Handlers : k \in Handlers' \/ k = n
      OBVIOUS
    <3>4. \A k \in Handlers : k <= i \/ n <= k
      BY <2>2, <3>3
    <3> QED
      BY <2>2, <3>1, <3>2, <3>4 DEF RescueInv, HandlerChain
  <2> QED
    BY <2>1, <2>2 DEF RescueContextInnermost, Nil
<1>3. HandlerChain'
  <2>1. ASSUME NEW i \in Handlers', \A j \in Handlers' : i <= j
        PROVE  stack'[i].prev = Nil
    <3>1. \A j \in Handlers : i <= j
      BY <1>1, <2>1
    <3> QED
      BY <3>1 DEF RescueInv, HandlerChain
  <2>2. ASSUME NEW i \in Handlers', NEW j \in Handlers', i < j,
               \A k \in Handlers' : k <= i \/ j <= k
        PROVE  stack'[j].prev = stack'[i].handled
    <3>1. \A k \in Handlers : k <= i \/ j <= k
      BY <1>1, <2>2
    <3> QED
      BY <2>2, <3>1 DEF RescueInv, HandlerChain
  <2> QED
    BY <2>1, <2>2 DEF HandlerChain, Nil
<1> QED
  BY <1>2, <1>3 DEF RescueInv

\* A handler is entered above all others.
LEMMA HandlerEntered ==
  ASSUME RescueInv, NEW n \in Nat, Handlers \subseteq 1..n, n \notin Handlers,
         Handlers' = Handlers \cup {n}, \A i \in Handlers : stack'[i] = stack[i],
         stack'[n].prev = rescue_context, stack'[n].handled = rescue_context'
  PROVE  RescueInv'
<1>1. \A i \in Handlers : i \in Nat /\ i < n
  OBVIOUS
<1>2. RescueContextInnermost'
  <2>1. ASSUME NEW i \in Handlers', \A j \in Handlers' : j <= i
        PROVE  i = n
    BY <1>1, <2>1
  <2>2. \A i \in Handlers' :
          (\A j \in Handlers' : j <= i) => rescue_context' = stack'[i].handled
    BY <2>1
  <2> QED
    BY <2>2 DEF RescueContextInnermost
<1>3. HandlerChain'
  <2>1. ASSUME NEW i \in Handlers', \A j \in Handlers' : i <= j
        PROVE  stack'[i].prev = Nil
    <3>1. CASE i = n
      <4>1. Handlers = {}
        BY <1>1, <2>1, <3>1
      <4> QED
        BY <3>1, <4>1 DEF RescueInv, RescueContextInnermost
    <3>2. CASE i # n
      BY <1>1, <2>1, <3>2 DEF RescueInv, HandlerChain
    <3> QED
      BY <3>1, <3>2
  <2>2. ASSUME NEW i \in Handlers', NEW j \in Handlers', i < j,
               \A k \in Handlers' : k <= i \/ j <= k
        PROVE  stack'[j].prev = stack'[i].handled
    <3>1. i \in Handlers
      BY <1>1, <2>2
    <3>2. CASE j = n
      <4>1. \A k \in Handlers : k \in Handlers' /\ k \in Nat /\ k < n
        BY <1>1
      <4>2. \A k \in Handlers : k <= i
        BY <2>2, <3>2, <4>1
      <4> QED
        BY <3>1, <3>2, <4>2 DEF RescueInv, RescueContextInnermost
    <3>3. CASE j # n
      BY <2>2, <3>1, <3>3 DEF RescueInv, HandlerChain
    <3> QED
      BY <3>2, <3>3
  <2> QED
    BY <2>1, <2>2 DEF HandlerChain, Nil
<1> QED
  BY <1>2, <1>3 DEF RescueInv

\* No step breaks the chain.
LEMMA RescueStep ==
  ASSUME TypeOK, RescueInv, [Next]_vars
  PROVE  RescueInv'
<1>1. Len(stack) \in Nat \ {0}
  BY TopTyped, TypeOKParts
<1>2. /\ Handlers = {i \in 1..Len(stack) : IsHandler(stack[i])}
      /\ Handlers' = {i \in 1..Len(stack') : IsHandler(stack'[i])}
  BY DEF Handlers, Indices, IsHandler
<1>3. Handlers \subseteq 1..Len(stack)
  BY <1>2
<1>4. CASE Pushes
  <2>1. Handlers' = Handlers
    BY <1>1, <1>2, <1>4 DEF Pushes, SameBelow
  <2>2. \A i \in Handlers : stack'[i] = stack[i]
    BY <1>3, <1>4 DEF Pushes, SameBelow
  <2> QED
    BY <1>4, <2>1, <2>2, SameHandlers DEF Pushes
<1>5. CASE Pops
  <2>1. Handlers' = Handlers \ {Len(stack)}
    BY <1>1, <1>2, <1>5 DEF Pops, SameBelow
  <2>2. \A i \in Handlers' : stack'[i] = stack[i]
    BY <1>1, <1>2, <1>5 DEF Pops, SameBelow
  <2>3. CASE IsHandler(Top)
    <3>1. Len(stack) \in Handlers /\ rescue_context' = stack[Len(stack)].prev
      BY <1>1, <1>2, <1>5, <2>3 DEF Pops, Restores, Top
    <3> QED
      BY <1>1, <1>3, <2>1, <2>2, <3>1, HandlerLeft
  <2>4. CASE ~IsHandler(Top)
    <3>1. Len(stack) \notin Handlers /\ rescue_context' = rescue_context
      BY <1>2, <1>5, <2>4 DEF Pops, Restores, Top
    <3> QED
      BY <2>1, <2>2, <3>1, SameHandlers
  <2> QED
    BY <2>3, <2>4
<1>6. CASE Turns
  <2>1. \A i \in 1..Len(stack) - 1 : stack'[i] = stack[i]
    BY <1>6 DEF Turns, SameBelow
  <2>2. CASE ~IsHandler(stack'[Len(stack)]) /\ Restores
    <3>1. Handlers' = Handlers \ {Len(stack)}
      BY <1>1, <1>2, <1>6, <2>1, <2>2 DEF Turns
    <3>2. \A i \in Handlers' : stack'[i] = stack[i]
      BY <1>1, <1>3, <2>1, <3>1
    <3>3. CASE IsHandler(Top)
      <4>1. Len(stack) \in Handlers /\ rescue_context' = stack[Len(stack)].prev
        BY <1>1, <1>2, <2>2, <3>3 DEF Restores, Top
      <4> QED
        BY <1>1, <1>3, <3>1, <3>2, <4>1, HandlerLeft
    <3>4. CASE ~IsHandler(Top)
      <4>1. Len(stack) \notin Handlers /\ rescue_context' = rescue_context
        BY <1>2, <2>2, <3>4 DEF Restores, Top
      <4> QED
        BY <3>1, <3>2, <4>1, SameHandlers
    <3> QED
      BY <3>3, <3>4
  <2>3. CASE /\ IsHandler(stack'[Len(stack)]) /\ ~IsHandler(Top)
             /\ stack'[Len(stack)].prev = rescue_context
             /\ stack'[Len(stack)].handled = rescue_context'
    <3>1. Len(stack) \notin Handlers
      BY <1>2, <2>3 DEF Top
    <3>2. Handlers' = Handlers \cup {Len(stack)}
      BY <1>1, <1>2, <1>6, <2>1, <2>3, <3>1 DEF Turns
    <3>3. \A i \in Handlers : stack'[i] = stack[i]
      BY <1>1, <1>3, <2>1, <3>1
    <3> QED
      BY <1>1, <1>3, <2>3, <3>1, <3>2, <3>3, HandlerEntered
  <2> QED
    BY <1>6, <2>2, <2>3 DEF Turns
<1> QED
  BY <1>4, <1>5, <1>6, StepShape

\* $!, a bare raise and __cause__ always see the exception of the innermost
\* rescue body that is running, in every program and on every way out of it.
THEOREM RescueContextCorrect == Spec => []RescueContextInnermost
<1>1. Init => RescueInv
  <2> SUFFICES ASSUME Init
               PROVE  RescueInv
    OBVIOUS
  <2>1. Handlers = {}
    BY DEF Init, Handlers, Indices, Program
  <2>2. rescue_context = Nil
    BY DEF Init
  <2> QED
    BY <2>1, <2>2 DEF RescueInv, RescueContextInnermost, HandlerChain
<1>2. TypeOK /\ RescueInv /\ [Next]_vars => RescueInv'
  BY RescueStep
<1>3. RescueInv => RescueContextInnermost
  BY DEF RescueInv
<1> QED
  BY <1>1, <1>2, <1>3, TypeCorrect, PTL DEF Spec

\* A begin is never left before its ensure body has started, and an ensure body
\* that has started is never started again.
THEOREM EnsureRunsOnce == Spec => EnsureExactlyOnce
<1> DEFINE Step ==
  \A i \in Indices :
    stack[i].kind = "begin" /\ stack[i].ensure =>
      IF i <= Len(stack')
      THEN stack[i].phase = "ensure" => stack'[i].phase = "ensure"
      ELSE stack[i].phase = "ensure"
<1>1. TypeOK /\ [Next]_vars => [Step]_vars
  <2> SUFFICES ASSUME TypeOK, [Next]_vars, NEW i \in Indices,
                      stack[i].kind = "begin", stack[i].ensure
               PROVE  IF i <= Len(stack')
                      THEN stack[i].phase = "ensure" => stack'[i].phase = "ensure"
                      ELSE stack[i].phase = "ensure"
    OBVIOUS
  <2>1. Len(stack) \in Nat \ {0} /\ i \in 1..Len(stack)
    BY TopTyped, TypeOKParts DEF Indices
  <2>2. CASE Pushes
    BY <2>1, <2>2 DEF Pushes, SameBelow
  <2>3. CASE Pops
    <3>1. CASE i = Len(stack)
      BY <2>1, <2>3, <3>1 DEF Pops, Top
    <3>2. CASE i # Len(stack)
      BY <2>1, <2>3, <3>2 DEF Pops, SameBelow
    <3> QED
      BY <3>1, <3>2
  <2>4. CASE Turns
    <3>1. CASE i = Len(stack)
      BY <2>1, <2>4, <3>1 DEF Turns, Top
    <3>2. CASE i # Len(stack)
      BY <2>1, <2>4, <3>2 DEF Turns, SameBelow
    <3> QED
      BY <3>1, <3>2
  <2> QED
    BY <2>2, <2>3, <2>4, StepShape
<1> QED
  BY <1>1, TypeCorrect, PTL DEF Spec, EnsureExactlyOnce

(***************************************************************************)
(* Without string interpolation, no program code runs with an exception in *)
(* flight.  An ensure body that is running has put the exception away, so  *)
(* the invariant also says what it has put away.                           *)
(***************************************************************************)

\* No interpolation is being evaluated or can be.
NoRope == ~Uses("rope") /\ \A i \in Indices : stack[i].kind # "rope"

\* An ensure body holds an exception exactly when the result it holds is one.
SavedCoherent ==
  \A i \in Indices :
    stack[i].kind = "begin" /\ stack[i].phase = "ensure" =>
      (stack[i].result = Exc <=> stack[i].saved # Nil)

\* The inductive invariant of ExnCoherentWithoutRope.
ExnInv == NoRope /\ SavedCoherent /\ ExnCoherent

\* What the invariant asks of one activation.
Sound(a) ==
  /\ a.kind # "rope"
  /\ a.kind = "begin" /\ a.phase = "ensure" => (a.result = Exc <=> a.saved # Nil)

\* The exception registers after a step agree with its result.
LEMMA ExnStep ==
  ASSUME TypeOK, ExnInv, Next
  PROVE  ExnCoherent' /\ uses' = uses
<1> USE DEF ExnCoherent
<1>1. ret \in Results /\ (ret.k = "exc" <=> ret = Exc) /\ (ret.k = "exc" <=> exn # Nil)
  BY DEF TypeOK, Results, Exc, ExnInv
<1>2. Val # Exc /\ Val.k = "val" /\ Exc.k = "exc"
  BY DEF Val, Exc
<1>3. Len(cause) + 1 # Nil
  BY LenProperties DEF TypeOK, Nil
<1>4. /\ Top.kind # "rope"
      /\ Top.kind = "begin" /\ Top.phase = "ensure" =>
           (Top.result = Exc <=> Top.saved # Nil)
  BY TopTyped, TypeOKParts DEF ExnInv, NoRope, SavedCoherent, Indices, Top
<1>5. CASE Raise
  BY <1>1, <1>2, <1>3, <1>5 DEF Raise, RaiseNew, raised, Running
<1>6. CASE Reraise
  BY <1>1, <1>2, <1>6 DEF Reraise, RaiseValue, raised, Running
<1>7. CASE Throw \/ Jump
  <2>1. ret'.k # "exc" /\ exn' = exn /\ uses' = uses /\ ret = Val
    BY <1>7, NestedTyped, TypeOKParts DEF Throw, Jump, Running, Signal, Jumps, raised
  <2> QED
    BY <1>1, <1>2, <2>1
<1>8. CASE EnterBegin
  BY <1>1, <1>2, <1>8 DEF EnterBegin, Running, raised, Push
<1>9. CASE Rescue
  BY <1>1, <1>2, <1>9 DEF Rescue
<1>10. CASE Retry
  BY <1>1, <1>2, <1>10 DEF Retry
<1>11. CASE EnterElse
  BY <1>1, <1>2, <1>11 DEF EnterElse, TakesElse, raised
<1>12. CASE EnterEnsure
  BY <1>1, <1>2, <1>12 DEF EnterEnsure
<1>13. CASE LeaveBegin
  BY <1>1, <1>2, <1>13 DEF LeaveBegin, Pop
<1>14. CASE LeaveEnsure
  BY <1>1, <1>2, <1>4, <1>14 DEF LeaveEnsure, Pop, IsSignal
<1>15. CASE EnterLoop \/ EnterRope
  BY <1>1, <1>2, <1>15 DEF EnterLoop, EnterRope, Push, raised, Running
<1>16. CASE WhileCond \/ WhileBody \/ ForBody
  BY <1>1, <1>2, <1>16
  DEF WhileCond, WhileBody, ForBody, LoopLeaves, LoopResult, Pop, raised, IsSignal
<1>17. CASE LeaveRope
  BY <1>4, <1>17 DEF LeaveRope
<1>18. ASSUME NEW b, CallBlock(b), exn' = exn, exn = Nil PROVE ExnCoherent'
  BY <1>2, <1>18 DEF CallBlock, Push
<1>19. CASE CallProc \/ CallEscaped \/ Yield
  BY <1>1, <1>2, <1>18, <1>19 DEF CallProc, CallEscaped, Yield, Running, raised
<1>20. CASE LeaveBlock
  BY <1>1, <1>2, <1>3, <1>20 DEF LeaveBlock, BlockResult, RaiseNew, raised, Pop
<1>21. CASE EnterCall
  BY <1>1, <1>2, <1>21 DEF EnterCall, Push, Running, raised
<1>22. CASE LeaveCall
  BY <1>1, <1>2, <1>22 DEF LeaveCall, CallResult, Pop, raised
<1>23. CASE EnterNative
  BY <1>1, <1>2, <1>23 DEF EnterNative, Running, raised
<1>24. Top.kind = "native" => Top.op \in {"iter", "loop", "catch"}
  BY TopRecord DEF NativeActs
<1>25. CASE NativeAgain
  <2>1. ret.k # "exc"
    BY <1>24, <1>25 DEF NativeAgain, GoesOn
  <2> QED
    BY <1>1, <1>18, <1>25, <2>1 DEF NativeAgain, raised
<1>26. CASE NativeLeave
  <2>1. NativeResult = Exc <=> ret = Exc
    BY <1>1, <1>2, <1>24, <1>26 DEF NativeLeave, NativeResult
  <2> QED
    BY <1>1, <1>26, <2>1 DEF NativeLeave, Pop, raised
<1>27. CASE LoopStops
  BY <1>2, <1>27 DEF LoopStops, Pop
<1>28. CASE Exit
  BY <1>1, <1>28 DEF Exit, raised
<1>29. CASE Halted
  BY <1>1, <1>29 DEF Halted, vars, raised
<1> QED
  BY <1>5, <1>6, <1>7, <1>8, <1>9, <1>10, <1>11, <1>12, <1>13, <1>14, <1>15, <1>16,
     <1>17, <1>19, <1>20, <1>21, <1>22, <1>23, <1>25, <1>26, <1>27, <1>28, <1>29
  DEF Next

\* Every activation a step leaves on the stack is sound.
LEMMA SoundStep ==
  ASSUME TypeOK, ExnInv, Next
  PROVE  \A i \in Indices' : Sound(stack'[i])
<1>1. /\ stack \in Seq(Activations) /\ Len(stack) \in Nat \ {0}
      /\ \A i \in 1..Len(stack) : Sound(stack[i])
  <2>1. stack \in Seq(Activations) /\ Len(stack) \in Nat \ {0}
    BY TopTyped, TypeOKParts DEF TypeOK
  <2> QED
    BY <2>1 DEF ExnInv, NoRope, SavedCoherent, Sound, Indices
<1> DEFINE Goal == \A i \in Indices' : Sound(stack'[i])
<1>2. ASSUME stack' = stack PROVE Goal
  BY <1>1, <1>2 DEF Indices
<1>3. ASSUME stack' = Front(stack) PROVE Goal
  BY <1>1, <1>3, FrontProperties DEF Indices
<1>4. ASSUME NEW a, Push(a), Sound(a) PROVE Goal
  <2>1. stack \in Seq(Activations \cup {a})
    BY <1>1, SeqMonotonic
  <2>2. /\ Len(stack') = Len(stack) + 1 /\ stack'[Len(stack) + 1] = a
        /\ \A i \in 1..Len(stack) : stack'[i] = stack[i]
    BY <1>4, <2>1, AppendProperties DEF Push
  <2> QED
    BY <1>1, <1>4, <2>2 DEF Indices
<1>5. ASSUME NEW a, Replace(a), Sound(a) PROVE Goal
  BY <1>1, <1>5, ReplaceFacts DEF Indices, SameBelow
<1>6. ASSUME NEW b, CallBlock(b) PROVE Goal
  <2>1. Sound(BlockAct(b))
    BY DEF Sound, BlockAct
  <2> QED
    BY <1>2, <1>4, <1>6, <2>1 DEF CallBlock
<1>7. Top.kind = "begin" => Top \in BeginActs
  BY TopRecord
<1>8. CASE Raise \/ Reraise \/ Throw \/ Jump \/ Halted
  BY <1>2, <1>8 DEF Raise, Reraise, Throw, Jump, Halted, vars
<1>9. CASE EnterBegin
  BY <1>4, <1>9 DEF EnterBegin, BeginAct, Sound
<1>10. CASE Rescue
  <2>1. [Top EXCEPT !.phase = "rescue", !.rescued = TRUE, !.handled = exn,
                    !.prev = rescue_context].phase = "rescue"
        /\ [Top EXCEPT !.phase = "rescue", !.rescued = TRUE, !.handled = exn,
                       !.prev = rescue_context].kind = "begin"
    BY <1>7, <1>10 DEF Rescue, BeginActs
  <2> QED
    BY <1>5, <1>10, <2>1 DEF Rescue, Sound
<1>11. CASE Retry
  <2>1. [Top EXCEPT !.phase = "body", !.handled = Nil, !.prev = Nil].phase = "body"
        /\ [Top EXCEPT !.phase = "body", !.handled = Nil, !.prev = Nil].kind = "begin"
    BY <1>7, <1>11 DEF Retry, BeginActs
  <2> QED
    BY <1>5, <1>11, <2>1 DEF Retry, Sound
<1>12. CASE EnterElse
  <2>1. [Top EXCEPT !.phase = "else"].phase = "else"
        /\ [Top EXCEPT !.phase = "else"].kind = "begin"
    BY <1>7, <1>12 DEF EnterElse, BeginActs
  <2> QED
    BY <1>5, <1>12, <2>1 DEF EnterElse, Sound
<1>13. CASE EnterEnsure
  <2> DEFINE a == [Top EXCEPT !.phase = "ensure", !.result = ret, !.saved = exn,
                              !.handled = Nil, !.prev = Nil]
  <2>1. a.kind = "begin" /\ a.result = ret /\ a.saved = exn
    BY <1>7, <1>13 DEF EnterEnsure, BodyOver, BeginActs
  <2>2. Sound(a)
    BY <2>1 DEF Sound, ExnInv, ExnCoherent
  <2> QED
    BY <1>5, <1>13, <2>2 DEF EnterEnsure
<1>14. CASE LeaveBegin \/ LeaveEnsure
  BY <1>3, <1>14 DEF LeaveBegin, LeaveEnsure, Pop
<1>15. CASE EnterLoop
  BY <1>4, <1>15 DEF EnterLoop, Nested, Sound
<1>16. CASE WhileCond \/ WhileBody
  <2>1. Top \in LoopActs /\ Top.kind = "while"
    BY <1>16, TopRecord DEF WhileCond, WhileBody
  <2>2. \A ph : Sound([Top EXCEPT !.phase = ph])
    BY <2>1 DEF LoopActs, Sound
  <2> QED
    BY <1>2, <1>3, <1>5, <1>16, <2>2 DEF WhileCond, WhileBody, Pop
<1>17. CASE ForBody \/ LeaveRope
  BY <1>2, <1>3, <1>17 DEF ForBody, LeaveRope, Pop
<1>18. CASE EnterRope
  BY <1>18 DEF EnterRope, ExnInv, NoRope
<1>19. CASE CallProc \/ CallEscaped \/ Yield \/ NativeAgain
  BY <1>6, <1>19 DEF CallProc, CallEscaped, Yield, NativeAgain
<1>20. CASE LeaveBlock \/ LeaveCall \/ NativeLeave \/ LoopStops
  BY <1>3, <1>20 DEF LeaveBlock, LeaveCall, NativeLeave, LoopStops, Pop
<1>21. CASE EnterCall
  BY <1>2, <1>4, <1>21 DEF EnterCall, CallAct, Sound
<1>22. CASE EnterNative
  <2>1. PICK n \in Natives :
          IF exn # Nil THEN ret' = Exc /\ UNCHANGED << stack, frame_count >>
          ELSE stack' = stack \o << n, BlockAct(n.blk) >>
    BY <1>22 DEF EnterNative
  <2>2. CASE exn # Nil
    BY <1>2, <2>1, <2>2
  <2>3. CASE exn = Nil
    <3> DEFINE two == << n, BlockAct(n.blk) >>
    <3>1. Len(two) = 2 /\ Sound(two[1]) /\ Sound(two[2])
      BY DEF Natives, NativeAct, BlockAct, Sound
    <3>2. two \in Seq(Activations \cup {n, BlockAct(n.blk)})
      OBVIOUS
    <3>3. stack \in Seq(Activations \cup {n, BlockAct(n.blk)})
      BY <1>1, SeqMonotonic
    <3>4. stack' = stack \o two
      BY <2>1, <2>3
    <3> HIDE DEF two
    <3>5. /\ Len(stack') = Len(stack) + Len(two)
          /\ \A i \in 1..Len(stack) + Len(two) :
               stack'[i] = IF i <= Len(stack) THEN stack[i] ELSE two[i - Len(stack)]
      BY <3>2, <3>3, <3>4, ConcatProperties
    <3> SUFFICES ASSUME NEW i \in 1..Len(stack) + 2
                 PROVE  Sound(stack'[i])
      BY <3>1, <3>5 DEF Indices
    <3>6. CASE i <= Len(stack)
      BY <1>1, <3>1, <3>5, <3>6
    <3>7. CASE ~(i <= Len(stack))
      <4>1. i - Len(stack) \in {1, 2}
        BY <1>1, <3>7
      <4>2. stack'[i] = two[i - Len(stack)]
        BY <3>1, <3>5, <3>7
      <4> QED
        BY <3>1, <4>1, <4>2
    <3> QED
      BY <3>6, <3>7
  <2> QED
    BY <2>2, <2>3
<1>23. CASE Exit
  <2>1. Top \in ProgramActs
    BY <1>23, TopRecord DEF Exit
  <2>2. Sound([Top EXCEPT !.kind = "exited"])
    BY <2>1 DEF ProgramActs, Sound
  <2> QED
    BY <1>5, <1>23, <2>2 DEF Exit
<1> QED
  BY <1>8, <1>9, <1>10, <1>11, <1>12, <1>13, <1>14, <1>15, <1>16, <1>17, <1>18, <1>19,
     <1>20, <1>21, <1>22, <1>23
  DEF Next

\* In a program without string interpolation the exception registers are set
\* exactly while an exception signal travels: no statement, handler or ensure
\* body ever starts with a stale exception in them.
THEOREM ExnCoherentWithoutRope ==
  ASSUME \A p \in Profiles : "rope" \notin p
  PROVE  Spec => []ExnCoherent
<1>1. Init => ExnInv
  BY DEF Init, ExnInv, NoRope, SavedCoherent, ExnCoherent, Uses, Indices, Program, Val,
         Exc, Nil
<1>2. TypeOK /\ ExnInv /\ [Next]_vars => ExnInv'
  <2>1. CASE UNCHANGED vars
    BY <2>1
    DEF vars, raised, registers, ExnInv, NoRope, SavedCoherent, ExnCoherent, Uses, Indices
  <2>2. ASSUME TypeOK, ExnInv, Next
        PROVE  ExnInv'
    <3>1. ExnCoherent' /\ uses' = uses
      BY <2>2, ExnStep
    <3>2. \A i \in Indices' : Sound(stack'[i])
      BY <2>2, SoundStep
    <3>3. NoRope'
      BY <2>2, <3>1, <3>2 DEF ExnInv, NoRope, Sound, Uses
    <3>4. SavedCoherent'
      BY <3>2 DEF SavedCoherent, Sound, Exc, Nil
    <3> QED
      BY <3>1, <3>3, <3>4 DEF ExnInv
  <2> QED
    BY <2>1, <2>2
<1>3. ExnInv => ExnCoherent
  BY DEF ExnInv
<1> QED
  BY <1>1, <1>2, <1>3, TypeCorrect, PTL DEF Spec

(***************************************************************************)
(* Jumps: active_defs is exactly the methods that are running, and a       *)
(* return that travels has a place where it arrives.                       *)
(***************************************************************************)
(***************************************************************************)
(* The inductive invariant.  The text of a method runs in the activation   *)
(* of its call, or in that of a proc or lambda made in it: these host the  *)
(* method.  Whatever may run or return on the stack has its host below.    *)
(***************************************************************************)

Hosts(a, e) ==
  /\ a.def = e
  /\ \/ a.kind = "call"
     \/ a.kind = "block" /\ a.blk.obj \in {"proc", "lambda"}

Hosted(s, n, e) == e = TopEnv \/ \E i \in 1..n : Hosts(s[i], e)

\* What the activation at i needs below it: the host of its own text, of the
\* block literal it may call, and of the return its ensure body holds back.
Fits(s, i, args) ==
  /\ Hosted(s, i, s[i].def)
  /\ s[i].kind \in {"call", "native"} /\ s[i].blk.obj = "block" =>
       Hosted(s, i, s[i].blk.def)
  /\ s[i].kind = "begin" /\ s[i].result.k = "return" => Hosted(s, i, s[i].result.target)
  /\ s[i].kind = "call" => s[i].def \in 1..Len(args) /\ s[i].blk = args[s[i].def]

HostInv ==
  /\ \A i \in Indices : Fits(stack, i, block_arg)
  /\ ret.k = "return" => Hosted(stack, Len(stack), ret.target)

\* Environments are numbered as they are made, so that both active_defs and the
\* calls on the stack are in the order of their numbers.
ActiveInv ==
  /\ Len(active_defs) = call_depth + 1 /\ active_defs[1] = TopEnv
  /\ \A i, j \in 1..Len(active_defs) : i < j => active_defs[i] < active_defs[j]
  /\ \A i, j \in Calls : i < j => stack[i].def < stack[j].def
  /\ ActiveIffOnStack

JumpInv == HostInv /\ ActiveInv

CallsStay == UNCHANGED << active_defs, call_depth, block_arg >>

(***************************************************************************)
(* What stays below a step.                                                *)
(***************************************************************************)

LEMMA StackFacts ==
  ASSUME TypeOK
  PROVE  /\ Len(stack) \in Nat \ {0} /\ Indices = 1..Len(stack)
         /\ Len(block_arg) \in Nat
         /\ \A i \in Indices : i \in Nat /\ stack[i] \in Activations
<1>1. stack \in Seq(Activations) /\ block_arg \in Seq(BlockValues \cup {NoBlock})
  BY DEF TypeOK
<1>2. Len(stack) \in Nat \ {0} /\ Len(block_arg) \in Nat
  BY <1>1, TypeOKParts, TopTyped, LenProperties
<1>3. \A i \in 1..Len(stack) : i \in Nat /\ stack[i] \in Activations
  BY <1>1, <1>2, ElementOfSeq
<1> QED
  BY <1>2, <1>3 DEF Indices

LEMMA Pushed ==
  ASSUME TypeOK, NEW a, Push(a)
  PROVE  /\ Len(stack') = Len(stack) + 1 /\ SameBelow(Len(stack))
         /\ stack'[Len(stack) + 1] = a /\ ret' = Val
<1>1. stack \in Seq(Activations \cup {a})
  BY SeqMonotonic DEF TypeOK
<1> QED
  BY <1>1, AppendProperties DEF SameBelow, Push

LEMMA Popped ==
  ASSUME TypeOK, NEW r, Pop(r)
  PROVE  /\ Len(stack') = Len(stack) - 1 /\ SameBelow(Len(stack) - 1)
         /\ Len(stack) - 1 \in Nat /\ ret' = r
BY StackFacts, FrontProperties DEF Pop, SameBelow, TypeOK

\* A built-in and the activation of its block.
LEMMA NativePushed ==
  ASSUME TypeOK, NEW n, stack' = stack \o << n, BlockAct(n.blk) >>
  PROVE  /\ Len(stack') = Len(stack) + 2 /\ SameBelow(Len(stack))
         /\ stack'[Len(stack) + 1] = n /\ stack'[Len(stack) + 2] = BlockAct(n.blk)
<1> DEFINE two == << n, BlockAct(n.blk) >>
<1>1. Len(two) = 2 /\ two[1] = n /\ two[2] = BlockAct(n.blk)
  OBVIOUS
<1>2. PICK S : stack \in Seq(S) /\ two \in Seq(S)
  <2>1. two \in Seq(Activations \cup {n, BlockAct(n.blk)})
    OBVIOUS
  <2>2. stack \in Seq(Activations \cup {n, BlockAct(n.blk)})
    BY SeqMonotonic DEF TypeOK
  <2> QED
    BY <2>1, <2>2
<1>3. stack' = stack \o two
  OBVIOUS
<1> HIDE DEF two
<1>4. /\ Len(stack') = Len(stack) + Len(two)
      /\ \A i \in 1..Len(stack) + Len(two) :
           stack'[i] = IF i <= Len(stack) THEN stack[i] ELSE two[i - Len(stack)]
  BY <1>2, <1>3, ConcatProperties
<1>5. Len(stack) \in Nat
  BY StackFacts
<1>6. \A i \in 1..Len(stack) : stack'[i] = stack[i]
  BY <1>1, <1>4, <1>5
<1>7. /\ Len(stack) + 1 \in 1..Len(stack) + Len(two) /\ ~(Len(stack) + 1 <= Len(stack))
      /\ Len(stack) + 1 - Len(stack) = 1
      /\ Len(stack) + 2 \in 1..Len(stack) + Len(two) /\ ~(Len(stack) + 2 <= Len(stack))
      /\ Len(stack) + 2 - Len(stack) = 2
  BY <1>1, <1>5
<1>8. stack'[Len(stack) + 1] = n
  BY <1>1, <1>4, <1>7
<1>9. stack'[Len(stack) + 2] = BlockAct(n.blk)
  BY <1>1, <1>4, <1>7
<1> QED
  BY <1>1, <1>4, <1>6, <1>8, <1>9 DEF SameBelow

LEMMA HostedStays ==
  ASSUME NEW n \in Nat, SameBelow(n), NEW e
  PROVE  /\ Hosted(stack, n, e) <=> Hosted(stack', n, e)
         /\ \A m \in Nat : n <= m /\ Hosted(stack, n, e) => Hosted(stack', m, e)
BY DEF SameBelow, Hosted

LEMMA FitsStays ==
  ASSUME NEW n \in Nat, SameBelow(n), NEW i \in 1..n, Fits(stack, i, block_arg),
         Len(block_arg) \in Nat, Len(block_arg') \in Nat, Len(block_arg) <= Len(block_arg'),
         \A d \in 1..Len(block_arg) : block_arg'[d] = block_arg[d]
  PROVE  Fits(stack', i, block_arg')
<1>1. stack'[i] = stack[i] /\ i \in Nat /\ SameBelow(i)
  BY DEF SameBelow
<1>2. \A e : Hosted(stack, i, e) <=> Hosted(stack', i, e)
  BY <1>1, HostedStays
<1>3. \A d \in 1..Len(block_arg) : d \in 1..Len(block_arg')
  OBVIOUS
<1> QED
  BY <1>1, <1>2, <1>3 DEF Fits

\* The calls are the same: so is what active_defs must hold.
LEMMA CallsSame ==
  ASSUME TypeOK, ActiveInv, CallsStay, Calls' = Calls,
         \A i \in Calls : stack'[i] = stack[i]
  PROVE  ActiveInv'
<1>1. /\ active_defs' = active_defs /\ call_depth' = call_depth /\ Envs' = Envs
      /\ \A e : Active(e)' <=> Active(e)
  BY DEF CallsStay, Envs, Active
<1>2. \A e : OnStack(e) <=> (e = TopEnv \/ \E i \in Calls : stack[i].def = e)
  BY DEF OnStack, Calls, Indices
<1>3. \A e : OnStack(e)' <=> (e = TopEnv \/ \E i \in Calls' : stack'[i].def = e)
  BY DEF OnStack, Calls, Indices
<1>4. \A e : OnStack(e)' <=> OnStack(e)
  BY <1>2, <1>3
<1>5. ActiveIffOnStack'
  BY <1>1, <1>4 DEF ActiveInv, ActiveIffOnStack
<1> QED
  BY <1>1, <1>5 DEF ActiveInv

(***************************************************************************)
(* The three things a step does to the C stack, none of them to a call.    *)
(***************************************************************************)

\* It pushes activations that are hosted, or leaves the stack alone.
LEMMA GrowJumps ==
  ASSUME TypeOK, JumpInv, CallsStay,
         Len(stack') \in Nat, Len(stack) <= Len(stack'), SameBelow(Len(stack)),
         \A i \in Len(stack) + 1..Len(stack') :
            stack'[i].kind # "call" /\ Fits(stack', i, block_arg),
         ret'.k = "return" => Hosted(stack', Len(stack'), ret'.target)
  PROVE  JumpInv'
<1>1. block_arg' = block_arg
  BY DEF CallsStay
<1>2. \A i \in 1..Len(stack) : Fits(stack', i, block_arg')
  BY <1>1, StackFacts, FitsStays DEF JumpInv, HostInv
<1>3. HostInv'
  <2>1. ASSUME NEW i \in 1..Len(stack')
        PROVE  Fits(stack', i, block_arg')
    <3>1. i \in 1..Len(stack) \/ i \in Len(stack) + 1..Len(stack')
      BY <2>1, StackFacts
    <3> QED
      BY <1>1, <1>2, <3>1
  <2> QED
    BY <2>1 DEF HostInv, Indices
<1>4. Calls' = Calls /\ \A i \in Calls : stack'[i] = stack[i]
  BY StackFacts DEF Calls, Indices, SameBelow
<1> QED
  BY <1>3, <1>4, CallsSame DEF JumpInv

LEMMA PushJumps ==
  ASSUME TypeOK, JumpInv, CallsStay, NEW a, Push(a), a.kind # "call",
         Hosts(a, a.def) \/ Hosted(stack, Len(stack), a.def),
         a.kind = "native" => a.blk.def = a.def,
         a.kind = "begin" => a.result.k # "return"
  PROVE  JumpInv'
<1>1. Len(stack') = Len(stack) + 1 /\ SameBelow(Len(stack)) /\ stack'[Len(stack) + 1] = a
  BY Pushed
<1>2. Hosted(stack', Len(stack'), a.def)
  <2>1. CASE Hosts(a, a.def)
    BY <1>1, <2>1, StackFacts DEF Hosted
  <2>2. CASE Hosted(stack, Len(stack), a.def)
    BY <1>1, <2>2, StackFacts, HostedStays
  <2> QED
    BY <2>1, <2>2
<1>3. Fits(stack', Len(stack'), block_arg)
  BY <1>1, <1>2 DEF Fits
<1>4. \A i \in Len(stack) + 1..Len(stack') :
        stack'[i].kind # "call" /\ Fits(stack', i, block_arg)
  BY <1>1, <1>3, StackFacts
<1>5. ret'.k # "return"
  BY DEF Push, Val
<1> QED
  BY <1>1, <1>4, <1>5, StackFacts, GrowJumps

\* Only the result of the step needs a look.
LEMMA StayJumps ==
  ASSUME TypeOK, JumpInv, CallsStay, stack' = stack,
         ret'.k = "return" => Hosted(stack, Len(stack), ret'.target)
  PROVE  JumpInv'
BY StackFacts, GrowJumps DEF SameBelow

LEMMA HostedBelow ==
  ASSUME TypeOK, NEW e, Hosted(stack, Len(stack), e), ~Hosts(Top, e)
  PROVE  Hosted(stack, Len(stack) - 1, e)
BY StackFacts DEF Hosted, Top

\* It pops an activation; what is returned is hosted below.
LEMMA PopJumps ==
  ASSUME TypeOK, JumpInv, CallsStay, NEW r, Pop(r), Top.kind # "call",
         Len(stack) # 1,
         r.k = "return" => Hosted(stack, Len(stack) - 1, r.target)
  PROVE  JumpInv'
<1>1. Len(stack') = Len(stack) - 1 /\ SameBelow(Len(stack) - 1) /\ Len(stack) - 1 \in Nat
  BY Popped
<1>2. block_arg' = block_arg
  BY DEF CallsStay
<1>3. \A i \in Indices' : Fits(stack', i, block_arg')
  <2> SUFFICES ASSUME NEW i \in 1..Len(stack) - 1
               PROVE  Fits(stack', i, block_arg')
    BY <1>1 DEF Indices
  <2>1. Fits(stack, i, block_arg)
    BY StackFacts DEF JumpInv, HostInv
  <2> QED
    BY <1>1, <1>2, <2>1, StackFacts, FitsStays
<1>4. ret'.k = "return" => Hosted(stack', Len(stack'), ret'.target)
  <2> SUFFICES ASSUME r.k = "return"
               PROVE  Hosted(stack', Len(stack) - 1, r.target)
    BY <1>1 DEF Pop
  <2>1. Hosted(stack, Len(stack) - 1, r.target)
    OBVIOUS
  <2> QED
    BY <1>1, <2>1, HostedStays
<1>5. Calls' = Calls /\ \A i \in Calls : stack'[i] = stack[i]
  BY <1>1, StackFacts DEF Calls, Indices, SameBelow, Top
<1> QED
  BY <1>3, <1>4, <1>5, CallsSame DEF JumpInv, HostInv

\* It moves the running activation to another phase.
LEMMA TurnJumps ==
  ASSUME TypeOK, JumpInv, CallsStay, NEW a, Replace(a), a.def = Top.def,
         a.kind \notin {"call", "block", "native"},
         Top.kind \notin {"call", "block", "native"},
         a.kind = "begin" /\ a.result.k = "return" =>
           Hosted(stack, Len(stack), a.result.target),
         ret'.k = "return" => Hosted(stack, Len(stack), ret'.target)
  PROVE  JumpInv'
<1>1. Len(stack') = Len(stack) /\ SameBelow(Len(stack) - 1) /\ stack'[Len(stack)] = a
  BY ReplaceFacts
<1>2. block_arg' = block_arg
  BY DEF CallsStay
<1>3. \A e : Hosted(stack, Len(stack), e) => Hosted(stack', Len(stack), e)
  <2>1. \A e : \A i \in 1..Len(stack) : Hosts(stack[i], e) => Hosts(stack'[i], e)
    <3> SUFFICES ASSUME NEW e, NEW i \in 1..Len(stack), Hosts(stack[i], e)
                 PROVE  Hosts(stack'[i], e)
      OBVIOUS
    <3>1. i # Len(stack)
      BY DEF Hosts, Top
    <3>2. stack'[i] = stack[i]
      BY <1>1, <3>1, StackFacts DEF SameBelow
    <3> QED
      BY <3>2
  <2> QED
    BY <2>1 DEF Hosted
<1>4. \A i \in Indices' : Fits(stack', i, block_arg')
  <2> SUFFICES ASSUME NEW i \in 1..Len(stack)
               PROVE  Fits(stack', i, block_arg')
    BY <1>1 DEF Indices
  <2>1. Fits(stack, i, block_arg)
    BY StackFacts DEF JumpInv, HostInv
  <2>2. CASE i = Len(stack)
    <3>1. Hosted(stack', Len(stack), a.def)
      BY <1>3, <2>1, <2>2 DEF Fits, Top
    <3> QED
      BY <1>1, <1>3, <2>2, <3>1 DEF Fits
  <2>3. CASE i # Len(stack)
    <3>1. i \in 1..Len(stack) - 1 /\ Len(stack) - 1 \in Nat
      BY <2>3, StackFacts
    <3> QED
      BY <1>1, <1>2, <2>1, <3>1, StackFacts, FitsStays
  <2> QED
    BY <2>2, <2>3
<1>5. ret'.k = "return" => Hosted(stack', Len(stack'), ret'.target)
  BY <1>1, <1>3
<1>6. Calls' = Calls /\ \A i \in Calls : stack'[i] = stack[i]
  <2>1. Len(stack) \notin Calls /\ Len(stack) \notin Calls'
    BY <1>1 DEF Calls, Top
  <2> QED
    BY <1>1, <2>1, StackFacts DEF Calls, Indices, SameBelow
<1> QED
  BY <1>4, <1>5, <1>6, CallsSame DEF JumpInv, HostInv

(***************************************************************************)
(* The actions.                                                            *)
(***************************************************************************)

\* The running activation.
LEMMA TopJumps ==
  ASSUME TypeOK, JumpInv
  PROVE  /\ Fits(stack, Len(stack), block_arg) /\ Top = stack[Len(stack)]
         /\ Hosted(stack, Len(stack), Top.def)
         /\ Top.kind \notin {"program", "exited"} => Len(stack) # 1
         /\ ret.k = "return" => Hosted(stack, Len(stack), ret.target)
         /\ Val.k # "return" /\ Exc.k # "return"
<1>1. Fits(stack, Len(stack), block_arg)
  BY StackFacts DEF JumpInv, HostInv
<1>2. Top.kind \notin {"program", "exited"} => Len(stack) # 1
  BY StackFacts, TopTyped, TypeOKParts
<1> QED
  BY <1>1, <1>2 DEF Top, Fits, JumpInv, HostInv, Val, Exc

\* call_block with a block whose text is hosted.
LEMMA CallBlockJumps ==
  ASSUME TypeOK, JumpInv, CallsStay, NEW b, CallBlock(b),
         b.obj \in {"proc", "lambda"} \/ Hosted(stack, Len(stack), b.def)
  PROVE  JumpInv'
<1>1. CASE exn # Nil
  BY <1>1, StayJumps, TopJumps DEF CallBlock
<1>2. CASE exn = Nil
  <2>1. Push(BlockAct(b))
    BY <1>2 DEF CallBlock
  <2>2. /\ BlockAct(b).kind = "block" /\ BlockAct(b).def = b.def /\ BlockAct(b).blk = b
    BY DEF BlockAct
  <2>3. Hosts(BlockAct(b), b.def) \/ Hosted(stack, Len(stack), b.def)
    BY <2>2 DEF Hosts
  <2> QED
    BY <2>1, <2>2, <2>3, PushJumps
<1> QED
  BY <1>1, <1>2

\* A begin that goes to its next phase stays what it is; only its result can
\* become that of the protected part.
Turned(a) ==
  /\ a.kind = "begin" /\ a.def = Top.def /\ a.jumps = Top.jumps /\ a.home = Top.home
  /\ a.else = Top.else
  /\ a.result \in {Top.result, ret}

LEMMA BeginTurns ==
  ASSUME TypeOK, Rescue \/ Retry \/ EnterElse \/ EnterEnsure
  PROVE  \E a : Replace(a) /\ Turned(a)
<1>1. Top \in BeginActs /\ ret' = Val
  BY TopRecord DEF Rescue, Retry, EnterElse, EnterEnsure, BodyOver
<1>2. CASE Rescue
  <2> DEFINE a == [Top EXCEPT !.phase = "rescue", !.rescued = TRUE, !.handled = exn,
                              !.prev = rescue_context]
  <2>1. Turned(a)
    BY <1>1 DEF BeginActs, Turned
  <2> QED
    BY <1>2, <2>1 DEF Rescue
<1>3. CASE Retry
  <2> DEFINE a == [Top EXCEPT !.phase = "body", !.handled = Nil, !.prev = Nil]
  <2>1. Turned(a)
    BY <1>1 DEF BeginActs, Turned
  <2> QED
    BY <1>3, <2>1 DEF Retry
<1>4. CASE EnterElse
  <2> DEFINE a == [Top EXCEPT !.phase = "else"]
  <2>1. Turned(a)
    BY <1>1 DEF BeginActs, Turned
  <2> QED
    BY <1>4, <2>1 DEF EnterElse
<1>5. CASE EnterEnsure
  <2> DEFINE a == [Top EXCEPT !.phase = "ensure", !.result = ret, !.saved = exn,
                              !.handled = Nil, !.prev = Nil]
  <2>1. Turned(a)
    BY <1>1 DEF BeginActs, Turned
  <2> QED
    BY <1>5, <2>1 DEF EnterEnsure
<1> QED
  BY <1>2, <1>3, <1>4, <1>5

\* begin, its clauses and its ways out.
LEMMA BeginJumps ==
  ASSUME TypeOK, JumpInv,
         \/ EnterBegin \/ Rescue \/ Retry \/ EnterElse \/ EnterEnsure
         \/ LeaveBegin \/ LeaveEnsure
  PROVE  JumpInv'
<1>1. CallsStay
  BY DEF EnterBegin, Rescue, Retry, EnterElse, EnterEnsure, LeaveBegin, LeaveEnsure,
         registers, CallsStay
<1>2. CASE EnterBegin
  <2>1. PICK el, en \in BOOLEAN : Push(BeginAct(el, en))
    BY <1>2 DEF EnterBegin
  <2>2. /\ BeginAct(el, en).kind = "begin" /\ BeginAct(el, en).def = Top.def
        /\ BeginAct(el, en).result = Val
    BY DEF BeginAct
  <2> QED
    BY <1>1, <2>1, <2>2, PushJumps, TopJumps
<1>3. CASE Rescue \/ Retry \/ EnterElse \/ EnterEnsure
  <2>0. PICK a : Replace(a) /\ Turned(a)
    BY <1>3, BeginTurns
  <2>1. Top.kind = "begin" /\ ret' = Val
    BY <1>3 DEF Rescue, Retry, EnterElse, EnterEnsure, BodyOver
  <2>2. a.result.k = "return" => Hosted(stack, Len(stack), a.result.target)
    BY <2>0, <2>1, TopJumps DEF Fits, Turned
  <2> QED
    BY <1>1, <2>0, <2>1, <2>2, TurnJumps, TopJumps DEF Turned
<1>4. ASSUME Top.kind = "begin" PROVE \A e : ~Hosts(Top, e)
  BY <1>4 DEF Hosts
<1>5. CASE LeaveBegin
  <2>1. Top.kind = "begin" /\ Pop(ret)
    BY <1>5 DEF LeaveBegin, BodyOver
  <2> QED
    BY <1>1, <1>4, <2>1, PopJumps, TopJumps, HostedBelow
<1>6. CASE LeaveEnsure
  <2>1. Top.kind = "begin" /\ (Pop(ret) \/ Pop(Top.result))
    BY <1>6 DEF LeaveEnsure
  <2>2. Top.result.k = "return" => Hosted(stack, Len(stack), Top.result.target)
    BY <2>1, TopJumps DEF Fits
  <2> QED
    BY <1>1, <1>4, <2>1, <2>2, PopJumps, TopJumps, HostedBelow
<1> QED
  BY <1>2, <1>3, <1>5, <1>6

\* Raising, jumping, loops, interpolation and the end of the program.
LEMMA PlainJumps ==
  ASSUME TypeOK, JumpInv,
         \/ Raise \/ Reraise \/ Throw \/ Jump \/ Exit
         \/ EnterLoop \/ WhileCond \/ WhileBody \/ ForBody \/ EnterRope \/ LeaveRope
  PROVE  JumpInv'
<1>1. CallsStay
  BY DEF Raise, Reraise, Throw, Jump, Exit, EnterLoop, WhileCond, WhileBody, ForBody,
         EnterRope, LeaveRope, registers, CallsStay
<1>2. CASE Raise \/ Reraise
  <2>1. stack' = stack /\ ret' = Exc
    BY <1>2 DEF Raise, Reraise, RaiseValue
  <2> QED
    BY <1>1, <2>1, StayJumps, TopJumps
<1>3. CASE Throw \/ Jump
  <2>1. stack' = stack /\ (ret'.k = "return" => ret'.target = Top.def)
    BY <1>3 DEF Throw, Jump, Signal
  <2> QED
    BY <1>1, <2>1, StayJumps, TopJumps
<1>4. CASE Exit
  <2>1. Top \in ProgramActs /\ Top.kind = "program" /\ ret' = ret
        /\ Replace([Top EXCEPT !.kind = "exited"])
    BY <1>4, TopRecord DEF Exit
  <2>2. /\ [Top EXCEPT !.kind = "exited"].kind = "exited"
        /\ [Top EXCEPT !.kind = "exited"].def = Top.def
    BY <2>1 DEF ProgramActs
  <2> QED
    BY <1>1, <2>1, <2>2, TurnJumps, TopJumps
<1>5. CASE EnterLoop \/ EnterRope
  <2>1. PICK kd, ph : kd \in {"while", "for", "rope"} /\ Push(Nested(kd, ph))
    BY <1>5 DEF EnterLoop, EnterRope
  <2>2. Nested(kd, ph).kind = kd /\ Nested(kd, ph).def = Top.def
    BY DEF Nested
  <2> QED
    BY <1>1, <2>1, <2>2, PushJumps, TopJumps
<1>6. ASSUME Top.kind \in {"while", "for", "rope"} PROVE \A e : ~Hosts(Top, e)
  BY <1>6 DEF Hosts
<1>7. LoopResult.k = "return" => LoopResult = ret
  BY TopJumps DEF LoopResult
<1>8. CASE WhileCond \/ WhileBody
  <2>1. Top \in LoopActs /\ Top.kind = "while"
    BY <1>8, TopRecord DEF WhileCond, WhileBody
  <2>2. \A ph : [Top EXCEPT !.phase = ph].kind = "while" /\ [Top EXCEPT !.phase = ph].def = Top.def
    BY <2>1 DEF LoopActs
  <2>3. \/ Pop(ret) \/ Pop(LoopResult)
        \/ \E ph : Replace([Top EXCEPT !.phase = ph]) /\ ret' \in {ret, Val}
    BY <1>8 DEF WhileCond, WhileBody
  <2>4. CASE Pop(ret) \/ Pop(LoopResult)
    BY <1>1, <1>6, <1>7, <2>1, <2>4, PopJumps, TopJumps, HostedBelow
  <2>5. CASE \E ph : Replace([Top EXCEPT !.phase = ph]) /\ ret' \in {ret, Val}
    BY <1>1, <2>1, <2>2, <2>5, TurnJumps, TopJumps
  <2> QED
    BY <2>3, <2>4, <2>5
<1>9. CASE ForBody
  <2>1. Top.kind = "for" /\ (Pop(LoopResult) \/ (ret' = Val /\ stack' = stack))
    BY <1>9 DEF ForBody
  <2> QED
    BY <1>1, <1>6, <1>7, <2>1, PopJumps, StayJumps, TopJumps, HostedBelow
<1>10. CASE LeaveRope
  BY <1>1, <1>6, <1>10, PopJumps, TopJumps, HostedBelow DEF LeaveRope
<1> QED
  BY <1>2, <1>3, <1>4, <1>5, <1>8, <1>9, <1>10

\* Blocks and the built-ins that call them.
LEMMA BlockJumps ==
  ASSUME TypeOK, JumpInv, ~Uses("escaped"),
         \/ CallProc \/ CallEscaped \/ Yield \/ LeaveBlock
         \/ NativeAgain \/ NativeLeave \/ LoopStops
  PROVE  JumpInv'
<1>1. CallsStay
  BY DEF CallProc, CallEscaped, Yield, LeaveBlock, NativeAgain, NativeLeave, LoopStops,
         registers, CallsStay
<1>2. CASE CallProc
  <2>1. PICK b \in Procs : CallBlock(b)
    BY <1>2 DEF CallProc
  <2>2. b.obj \in {"proc", "lambda"}
    BY DEF Procs, Block
  <2> QED
    BY <1>1, <2>1, <2>2, CallBlockJumps
<1>3. CASE CallEscaped
  BY <1>3 DEF CallEscaped
<1>4. CASE Yield
  <2> DEFINE b == block_arg[Top.def]
  <2>1. CallBlock(b) /\ b # NoBlock /\ Top.def # TopEnv /\ OnStack(Top.def)
    BY <1>4 DEF Yield
  <2>2. PICK i \in Indices : stack[i].kind = "call" /\ stack[i].def = Top.def
    BY <2>1 DEF OnStack, Indices
  <2>3. Fits(stack, i, block_arg)
    BY DEF JumpInv, HostInv
  <2>4. b \in BlockValues
    <3>1. Top.def \in 1..Len(block_arg)
      BY <2>2, <2>3 DEF Fits
    <3>2. block_arg \in Seq(BlockValues \cup {NoBlock})
      BY DEF TypeOK
    <3> QED
      BY <2>1, <3>1, <3>2, ElementOfSeq
  <2>5. b.obj = "block" => Hosted(stack, i, b.def)
    BY <2>2, <2>3 DEF Fits
  <2>6. Hosted(stack, i, b.def) => Hosted(stack, Len(stack), b.def)
    BY StackFacts DEF Hosted
  <2>7. b.obj \in {"proc", "lambda"} \/ Hosted(stack, Len(stack), b.def)
    BY <2>4, <2>5, <2>6 DEF BlockValues
  <2> QED
    BY <1>1, <2>1, <2>7, CallBlockJumps
<1>5. CASE LeaveBlock
  <2>1. Top \in BlockActs /\ Top.kind = "block" /\ Len(stack) # 1
    BY <1>5, TopRecord, TopJumps DEF LeaveBlock
  <2>2. CASE Orphan
    BY <1>1, <1>5, <2>1, <2>2, PopJumps, TopJumps DEF LeaveBlock
  <2>3. CASE ~Orphan
    <3>1. Pop(BlockResult)
      BY <1>5, <2>3 DEF LeaveBlock
    <3>2. ASSUME BlockResult.k = "return"
          PROVE  Hosted(stack, Len(stack) - 1, BlockResult.target)
      <4>1. BlockResult = ret /\ ret.k = "return" /\ Top.blk.obj # "lambda"
        BY <3>2, TopJumps DEF BlockResult
      <4>2. Hosted(stack, Len(stack), ret.target)
        BY <4>1, TopJumps
      <4>3. CASE Top.blk.obj = "proc"
        <5>1. Active(ret.target)
          BY <2>1, <2>3, <4>1, <4>3 DEF Orphan
        <5>2. ret.target \in Envs
          BY <4>1 DEF TypeOK, Results
        <5>3. OnStack(ret.target)
          BY <5>1, <5>2 DEF JumpInv, ActiveInv, ActiveIffOnStack
        <5>4. ASSUME NEW i \in 1..Len(stack), stack[i].kind = "call", stack[i].def = ret.target
              PROVE  Hosted(stack, Len(stack) - 1, ret.target)
          <6>1. i # Len(stack)
            BY <2>1, <5>4 DEF Top
          <6>2. i \in 1..Len(stack) - 1
            BY <6>1, StackFacts
          <6> QED
            BY <5>4, <6>2 DEF Hosted, Hosts
        <5> QED
          BY <4>1, <5>3, <5>4 DEF OnStack, Hosted
      <4>4. CASE Top.blk.obj # "proc"
        <5>1. ~Hosts(Top, ret.target)
          BY <2>1, <4>1, <4>4 DEF Hosts
        <5> QED
          BY <4>1, <4>2, <5>1, HostedBelow
      <4> QED
        BY <4>3, <4>4
    <3> QED
      BY <1>1, <2>1, <3>1, <3>2, PopJumps
  <2> QED
    BY <2>2, <2>3
<1>6. CASE NativeAgain \/ NativeLeave \/ LoopStops
  <2>1. Top \in NativeActs /\ Top.kind = "native" /\ Len(stack) # 1
    BY <1>6, TopRecord, TopJumps DEF NativeAgain, NativeLeave, LoopStops
  <2>2. \A e : ~Hosts(Top, e)
    BY <2>1 DEF Hosts
  <2>3. CASE NativeAgain
    <3>1. CallBlock(Top.blk)
      BY <2>3 DEF NativeAgain
    <3>2. Top.blk.obj \in {"proc", "lambda"} \/ Hosted(stack, Len(stack), Top.blk.def)
      <4>1. Top.blk.obj \in {"block", "proc", "lambda"}
        BY <2>1 DEF NativeActs, BlockValues
      <4> QED
        BY <2>1, <4>1, TopJumps DEF Fits
    <3> QED
      BY <1>1, <3>1, <3>2, CallBlockJumps
  <2>4. CASE NativeLeave
    <3>1. Pop(NativeResult)
      BY <2>4 DEF NativeLeave
    <3>2. NativeResult.k = "return" => NativeResult = ret
      <4>1. Top.op \in {"iter", "loop", "catch"}
        BY <2>1 DEF NativeActs
      <4> QED
        BY <4>1, TopJumps DEF NativeResult
    <3> QED
      BY <1>1, <2>1, <2>2, <3>1, <3>2, PopJumps, TopJumps, HostedBelow
  <2>5. CASE LoopStops
    BY <1>1, <2>1, <2>5, PopJumps, TopJumps DEF LoopStops
  <2> QED
    BY <1>6, <2>3, <2>4, <2>5
<1> QED
  BY <1>2, <1>3, <1>4, <1>5, <1>6

\* A built-in is pushed together with the first call of its block.
LEMMA EnterNativeJumps ==
  ASSUME TypeOK, JumpInv, EnterNative
  PROVE  JumpInv'
<1>1. CallsStay
  BY DEF EnterNative, CallsStay
<1>2. PICK n \in Natives :
        IF exn # Nil THEN ret' = Exc /\ UNCHANGED << stack, frame_count >>
        ELSE stack' = stack \o << n, BlockAct(n.blk) >> /\ ret' = Val
  BY DEF EnterNative
<1>3. CASE exn # Nil
  BY <1>1, <1>2, <1>3, StayJumps, TopJumps
<1>4. CASE exn = Nil
  <2>1. /\ n.kind = "native" /\ n.def = Top.def /\ n.blk.def = Top.def
        /\ BlockAct(n.blk).kind = "block" /\ BlockAct(n.blk).def = Top.def
    BY DEF Natives, NativeAct, BlockAct, Literal, Block
  <2>5. /\ Len(stack') = Len(stack) + 2 /\ SameBelow(Len(stack))
        /\ stack'[Len(stack) + 1] = n /\ stack'[Len(stack) + 2] = BlockAct(n.blk)
    BY <1>2, <1>4, NativePushed
  <2>6. /\ Hosted(stack', Len(stack) + 1, Top.def)
        /\ Hosted(stack', Len(stack) + 2, Top.def)
    <3>1. Hosted(stack, Len(stack), Top.def)
      BY TopJumps
    <3>2. /\ Len(stack) + 1 \in Nat /\ Len(stack) + 2 \in Nat
          /\ Len(stack) <= Len(stack) + 1 /\ Len(stack) <= Len(stack) + 2
      BY StackFacts
    <3> QED
      BY <2>5, <3>1, <3>2, StackFacts, HostedStays
  <2>7. /\ Fits(stack', Len(stack) + 1, block_arg) /\ Fits(stack', Len(stack) + 2, block_arg)
        /\ stack'[Len(stack) + 1].kind # "call" /\ stack'[Len(stack) + 2].kind # "call"
    BY <2>1, <2>5, <2>6 DEF Fits
  <2>8. \A i \in Len(stack) + 1..Len(stack') : i \in {Len(stack) + 1, Len(stack) + 2}
    BY <2>5, StackFacts
  <2>9. Len(stack') \in Nat /\ Len(stack) <= Len(stack')
    BY <2>5, StackFacts
  <2>10. ret'.k # "return"
    BY <1>2, <1>4 DEF Val
  <2>11. \A i \in Len(stack) + 1..Len(stack') :
           stack'[i].kind # "call" /\ Fits(stack', i, block_arg)
    BY <2>7, <2>8
  <2> QED
    BY <1>1, <2>5, <2>9, <2>10, <2>11, GrowJumps
<1> QED
  BY <1>3, <1>4

\* A call whose method was pushed on active_defs.
LEMMA EnterCallJumps ==
  ASSUME TypeOK, JumpInv, EnterCall, call_depth' < EvalMaxDepth
  PROVE  JumpInv'
<1> DEFINE d == Len(block_arg) + 1
<1>1. PICK via \in {"method", "function"} \cap uses, b \in BlockArgs :
        IF exn # Nil THEN ret' = Exc /\ UNCHANGED << stack, registers >>
        ELSE /\ Push(CallAct(via, b)) /\ block_arg' = Append(block_arg, b)
             /\ call_depth' = call_depth + 1 /\ active_defs' = PushDef(d)
  BY DEF EnterCall
<1>2. CASE exn # Nil
  BY <1>1, <1>2, StayJumps, TopJumps DEF CallsStay, registers
<1>3. CASE exn = Nil
  <2> DEFINE a == CallAct(via, b)
  <2>1. /\ a.kind = "call" /\ a.def = d /\ a.blk = b
        /\ b.obj = "block" => b.def = Top.def
    BY DEF CallAct, BlockArgs, NoBlock, Literal, Procs, Block
  <2>2. /\ Len(stack') = Len(stack) + 1 /\ SameBelow(Len(stack))
        /\ stack'[Len(stack) + 1] = a /\ ret'.k # "return"
    <3>1. Push(a)
      BY <1>1, <1>3
    <3> HIDE DEF a
    <3> QED
      BY <3>1, Pushed, TopJumps
  <2>3. /\ Len(block_arg') = d /\ block_arg'[d] = b
        /\ \A e \in 1..Len(block_arg) : block_arg'[e] = block_arg[e]
    <3>1. block_arg \in Seq(BlockValues \cup {NoBlock} \cup {b})
      BY SeqMonotonic DEF TypeOK
    <3> QED
      BY <1>1, <1>3, <3>1, AppendProperties
  <2> HIDE DEF a
  <2>4. d \in Nat /\ Len(block_arg) \in Nat /\ Len(block_arg) <= d /\ d \in 1..d
    BY StackFacts
  <2>5. HostInv'
    <3>1. ASSUME NEW i \in 1..Len(stack)
          PROVE  Fits(stack', i, block_arg')
      <4>1. Fits(stack, i, block_arg)
        BY StackFacts DEF JumpInv, HostInv
      <4> QED
        BY <2>2, <2>3, <2>4, <4>1, StackFacts, FitsStays
    <3>2. Fits(stack', Len(stack) + 1, block_arg')
      <4>1. Hosted(stack', Len(stack) + 1, d)
        BY <2>1, <2>2, StackFacts DEF Hosted, Hosts
      <4>2. Hosted(stack', Len(stack) + 1, Top.def)
        <5>1. Hosted(stack, Len(stack), Top.def) /\ Len(stack) <= Len(stack) + 1
          BY TopJumps, StackFacts
        <5> QED
          BY <2>2, <5>1, StackFacts, HostedStays
      <4> QED
        BY <2>1, <2>2, <2>3, <2>4, <4>1, <4>2 DEF Fits
    <3>3. \A i \in 1..Len(stack') : i \in 1..Len(stack) \/ i = Len(stack) + 1
      BY <2>2, StackFacts
    <3> QED
      BY <2>2, <3>1, <3>2, <3>3 DEF HostInv, Indices
  <2>6. Calls' = Calls \cup {Len(stack) + 1} /\ Calls \subseteq 1..Len(stack)
    BY <2>1, <2>2, StackFacts DEF Calls, Indices, SameBelow
  <2>7. \A i \in Calls : stack'[i] = stack[i] /\ stack[i].def \in 1..Len(block_arg)
    <3>1. \A i \in Calls : Fits(stack, i, block_arg) /\ stack[i].kind = "call"
      BY DEF JumpInv, HostInv, Calls
    <3> QED
      BY <2>2, <2>6, <3>1 DEF SameBelow, Fits
  <2>8. /\ active_defs \in Seq(Envs) /\ Len(active_defs) \in Nat
        /\ active_defs' = Append(active_defs, d) /\ call_depth \in Int
    <3>1. active_defs \in Seq(Envs) /\ call_depth \in Int
      BY DEF TypeOK
    <3>2. Len(active_defs) = call_depth + 1 /\ call_depth' = call_depth + 1
      BY <1>1, <1>3 DEF JumpInv, ActiveInv
    <3>3. Len(active_defs) < EvalMaxDepth /\ Len(active_defs) \in Nat
      BY <3>1, <3>2, LenProperties
    <3> QED
      BY <1>1, <1>3, <3>1, <3>3 DEF PushDef
  <2>9. /\ Len(active_defs') = Len(active_defs) + 1
        /\ \A i \in 1..Len(active_defs) : active_defs'[i] = active_defs[i]
        /\ active_defs'[Len(active_defs) + 1] = d
        /\ \A i \in 1..Len(active_defs) : active_defs[i] \in Envs
    <3>1. active_defs \in Seq(Envs \cup {d})
      BY <2>8, SeqMonotonic
    <3> HIDE DEF d
    <3> QED
      BY <2>8, <3>1, AppendProperties, ElementOfSeq
  <2>10. Envs = 0..Len(block_arg) /\ Envs' = 0..d
    BY <2>3 DEF Envs
  <2>11. /\ Len(active_defs) = call_depth + 1 /\ active_defs[1] = TopEnv
         /\ \A i, j \in 1..Len(active_defs) : i < j => active_defs[i] < active_defs[j]
         /\ \A i, j \in Calls : i < j => stack[i].def < stack[j].def
         /\ \A e \in Envs : Active(e) <=> OnStack(e)
         /\ call_depth' = call_depth + 1
    BY <1>1, <1>3 DEF JumpInv, ActiveInv, ActiveIffOnStack
  <2>12. \A e : Active(e)' <=> (Active(e) \/ e = d)
    BY <2>8, <2>9 DEF Active
  <2>13. \A e : OnStack(e)' <=> (OnStack(e) \/ e = d)
    <3>1. \A e : OnStack(e) <=> (e = TopEnv \/ \E i \in Calls : stack[i].def = e)
      BY DEF OnStack, Calls, Indices
    <3>2. \A e : OnStack(e)' <=> (e = TopEnv \/ \E i \in Calls' : stack'[i].def = e)
      BY DEF OnStack, Calls, Indices
    <3> QED
      BY <2>1, <2>2, <2>6, <2>7, <3>1, <3>2
  <2>14. ActiveIffOnStack'
    <3>1. \A e \in Envs' : e \in Envs \/ e = d
      BY <2>4, <2>10
    <3> QED
      BY <2>11, <2>12, <2>13, <3>1 DEF ActiveIffOnStack
  <2>15. Len(active_defs') = call_depth' + 1 /\ active_defs'[1] = TopEnv
    <3>1. Len(active_defs) # 0
      <4> SUFFICES ASSUME Len(active_defs) = 0
                   PROVE  FALSE
        OBVIOUS
      <4>1. ~Active(TopEnv)
        BY DEF Active
      <4>2. OnStack(TopEnv) /\ TopEnv \in Envs
        BY <2>4, <2>10 DEF OnStack, TopEnv
      <4> QED
        BY <2>11, <4>1, <4>2
    <3> QED
      BY <2>8, <2>9, <2>11, <3>1
  <2>16. \A i, j \in 1..Len(active_defs') : i < j => active_defs'[i] < active_defs'[j]
    <3>1. \A i \in 1..Len(active_defs) : active_defs[i] < d /\ i \in Nat
      BY <2>4, <2>9, <2>10
    <3>2. \A i \in 1..Len(active_defs') : i \in 1..Len(active_defs) \/ i = Len(active_defs) + 1
      BY <2>8, <2>9
    <3> HIDE DEF d
    <3> QED
      BY <2>8, <2>9, <2>11, <3>1, <3>2
  <2>17. (\A i, j \in Calls : i < j => stack[i].def < stack[j].def)'
    <3>1. \A i \in Calls : stack'[i].def < d /\ i \in 1..Len(stack)
      BY <2>4, <2>6, <2>7
    <3>2. stack'[Len(stack) + 1].def = d
      BY <2>1, <2>2
    <3> HIDE DEF d
    <3> QED
      BY <2>6, <2>7, <2>11, <3>1, <3>2, StackFacts
  <2> QED
    BY <2>5, <2>14, <2>15, <2>16, <2>17 DEF JumpInv, ActiveInv
<1> QED
  BY <1>2, <1>3

\* The method that returns is the last of active_defs.
LEMMA LeaveCallJumps ==
  ASSUME TypeOK, JumpInv, LeaveCall
  PROVE  JumpInv'
<1> DEFINE d == Top.def
           m == Len(active_defs)
           n == Len(stack)
<1>1. /\ Top.kind = "call" /\ Pop(CallResult) /\ active_defs' = PopDef
      /\ call_depth' = call_depth - 1 /\ block_arg' = block_arg
  BY DEF LeaveCall
<1>2. /\ n \in Nat \ {0, 1} /\ Fits(stack, n, block_arg) /\ d \in 1..Len(block_arg)
      /\ Top = stack[n] /\ d \in Nat \ {0} /\ d \in Envs
  <2>1. d \in 1..Len(block_arg)
    BY <1>1, TopJumps DEF Fits
  <2> QED
    BY <1>1, <2>1, StackFacts, TopJumps DEF Envs
<1>3. Len(stack') = n - 1 /\ SameBelow(n - 1) /\ n - 1 \in Nat
  BY <1>1, Popped
<1>4. HostInv'
  <2>1. \A i \in 1..n - 1 : Fits(stack', i, block_arg')
    <3> SUFFICES ASSUME NEW i \in 1..n - 1
                 PROVE  Fits(stack', i, block_arg')
      OBVIOUS
    <3>1. Fits(stack, i, block_arg)
      BY StackFacts DEF JumpInv, HostInv
    <3> QED
      BY <1>1, <1>3, <3>1, StackFacts, FitsStays
  <2>2. ASSUME CallResult.k = "return"
        PROVE  Hosted(stack', n - 1, CallResult.target)
    <3>1. CallResult = ret /\ ret.target # d
      BY <2>2, TopJumps DEF CallResult
    <3>2. Hosted(stack, n, ret.target) /\ ~Hosts(Top, ret.target)
      BY <2>2, <3>1, TopJumps DEF Hosts
    <3> QED
      BY <1>3, <3>1, <3>2, HostedBelow, HostedStays
  <2> QED
    BY <1>1, <1>3, <2>1, <2>2 DEF HostInv, Indices, Pop
<1>5. /\ Calls' = Calls \ {n} /\ n \in Calls
      /\ \A i \in Calls : i \in 1..n
      /\ \A i \in Calls' : stack'[i] = stack[i]
  BY <1>1, <1>2, <1>3, StackFacts DEF Calls, Indices, SameBelow
<1>6. /\ Len(active_defs) = call_depth + 1 /\ active_defs[1] = TopEnv
      /\ \A i, j \in 1..m : i < j => active_defs[i] < active_defs[j]
      /\ \A i, j \in Calls : i < j => stack[i].def < stack[j].def
      /\ \A e \in Envs : Active(e) <=> OnStack(e)
  BY DEF JumpInv, ActiveInv, ActiveIffOnStack
<1>7. /\ active_defs \in Seq(Envs) /\ m \in Nat /\ call_depth \in Int
      /\ \A i \in 1..m : active_defs[i] \in Envs /\ active_defs[i] \in Nat
  <2>1. active_defs \in Seq(Envs) /\ call_depth \in Int
    BY DEF TypeOK
  <2>2. \A i \in 1..m : active_defs[i] \in Envs
    BY <2>1, ElementOfSeq
  <2>3. Envs \subseteq Nat
    BY StackFacts DEF Envs
  <2> QED
    BY <2>1, <2>2, <2>3, LenProperties
<1>8. \A e : OnStack(e) <=> (e = TopEnv \/ \E i \in Calls : stack[i].def = e)
  BY DEF OnStack, Calls, Indices
<1>9. \A e : OnStack(e)' <=> (e = TopEnv \/ \E i \in Calls' : stack'[i].def = e)
  BY DEF OnStack, Calls, Indices
<1>10. PICK k \in 1..m : active_defs[k] = d
  <2>1. OnStack(d)
    BY <1>2, <1>5, <1>8
  <2>2. Active(d)
    BY <1>2, <1>6, <2>1
  <2> QED
    BY <2>2 DEF Active
<1>11. \A i \in Calls : i # n => stack[i].def < d
  BY <1>2, <1>5, <1>6
<1>12. m \in 1..m /\ active_defs[m] = d /\ m # 1
  <2>1. m \in 1..m
    BY <1>7, <1>10
  <2>2. OnStack(active_defs[m])
    <3>1. active_defs[m] \in Envs /\ Active(active_defs[m])
      BY <1>7, <2>1 DEF Active
    <3> QED
      BY <1>6, <3>1
  <2>3. active_defs[m] <= d
    <3>1. CASE active_defs[m] = TopEnv
      BY <1>2, <3>1 DEF TopEnv
    <3>2. ASSUME NEW i \in Calls, stack[i].def = active_defs[m]
          PROVE  active_defs[m] <= d
      BY <1>2, <1>7, <1>11, <2>1, <3>2
    <3> QED
      BY <1>8, <2>2, <3>1, <3>2
  <2>4. k = m
    <3>1. k < m => active_defs[k] < active_defs[m]
      BY <1>6, <2>1
    <3>2. ~(k < m)
      BY <1>2, <1>7, <1>10, <2>1, <2>3, <3>1
    <3> QED
      BY <1>7, <3>2
  <2> QED
    BY <1>2, <1>6, <1>10, <2>1, <2>4 DEF TopEnv
<1>13. /\ Len(active_defs') = m - 1
       /\ \A i \in 1..m - 1 : active_defs'[i] = active_defs[i]
  <2>1. active_defs # << >> /\ active_defs' = Front(active_defs)
    <3>1. Len(active_defs) > 0
      BY <1>7, <1>12
    <3> QED
      BY <1>1, <3>1 DEF PopDef
  <2> QED
    BY <1>7, <2>1, FrontProperties
<1>14. Envs' = Envs
  BY <1>1 DEF Envs
<1>15. \A e : Active(e)' <=> (Active(e) /\ e # d)
  <2>1. \A i \in 1..m - 1 : i \in 1..m /\ i < m
    BY <1>7
  <2>2. \A i \in 1..m - 1 : active_defs[i] < d
    BY <1>6, <1>12, <2>1
  <2>3. \A i \in 1..m - 1 : active_defs[i] # d
    BY <1>2, <1>7, <2>1, <2>2
  <2>4. \A i \in 1..m : i \in 1..m - 1 \/ i = m
    BY <1>7
  <2> QED
    BY <1>12, <1>13, <2>1, <2>3, <2>4 DEF Active
<1>16. \A e : OnStack(e)' <=> (OnStack(e) /\ e # d)
  <2>1. d # TopEnv
    BY <1>2 DEF TopEnv
  <2>2. \A i \in Calls' : stack[i].def # d
    <3>1. \A i \in Calls' : i \in Calls /\ i # n
      BY <1>5
    <3>2. \A i \in Calls : stack[i].def \in Envs
      BY StackFacts, KindTells DEF Calls
    <3>3. Envs \subseteq Nat
      BY StackFacts DEF Envs
    <3> QED
      BY <1>2, <1>11, <3>1, <3>2, <3>3
  <2> QED
    BY <1>2, <1>5, <1>8, <1>9, <2>1, <2>2
<1>17. ActiveIffOnStack'
  BY <1>6, <1>14, <1>15, <1>16 DEF ActiveIffOnStack
<1>18. /\ Len(active_defs') = call_depth' + 1 /\ active_defs'[1] = TopEnv
  BY <1>1, <1>6, <1>7, <1>12, <1>13
<1>19. \A i, j \in 1..Len(active_defs') : i < j => active_defs'[i] < active_defs'[j]
  <2>1. \A i \in 1..m - 1 : i \in 1..m
    BY <1>7
  <2> QED
    BY <1>6, <1>13, <2>1
<1>20. (\A i, j \in Calls : i < j => stack[i].def < stack[j].def)'
  <2>1. \A i, j \in Calls' : i < j => stack'[i].def < stack'[j].def
    BY <1>5, <1>6
  <2> QED
    BY <2>1
<1> QED
  BY <1>4, <1>17, <1>18, <1>19, <1>20 DEF JumpInv, ActiveInv

LEMMA JumpStep ==
  ASSUME TypeOK, JumpInv, ~Uses("escaped"), call_depth' < EvalMaxDepth, [Next]_vars
  PROVE  JumpInv'
<1>1. CASE UNCHANGED vars
  BY <1>1, StayJumps, TopJumps DEF vars, registers, CallsStay
<1>2. CASE Halted
  BY <1>1, <1>2 DEF Halted
<1> QED
  BY <1>1, <1>2, BeginJumps, PlainJumps, BlockJumps, EnterNativeJumps, EnterCallJumps,
     LeaveCallJumps DEF Next

\* In every program that keeps no block literal beyond its method, as long as no
\* more methods are open than active_defs has room for: eval_def_target_active tells
\* exactly the methods that are running, and every return that travels has a method,
\* proc or lambda to arrive at, through all rescues, ensures, yields and iterators.
THEOREM JumpsFindTheirMethod ==
  ASSUME \A p \in Profiles : "escaped" \notin p
  PROVE  Spec /\ [](call_depth < EvalMaxDepth) => []JumpTargetsKnown
<1>1. Init => JumpInv
  <2> SUFFICES ASSUME Init
               PROVE  JumpInv
    OBVIOUS
  <2>1. /\ Len(stack) = 1 /\ stack[1] = Program /\ ret = Val /\ Len(block_arg) = 0
        /\ Len(active_defs) = 1 /\ active_defs[1] = TopEnv /\ call_depth = 0
    BY DEF Init
  <2>2. Calls = {} /\ Indices = {1}
    BY <2>1 DEF Calls, Indices, Program
  <2>3. HostInv
    BY <2>1, <2>2 DEF HostInv, Fits, Hosted, Program, Val
  <2>4. ActiveIffOnStack
    BY <2>1 DEF ActiveIffOnStack, Envs, Active, OnStack, TopEnv
  <2> QED
    BY <2>1, <2>2, <2>3, <2>4 DEF JumpInv, ActiveInv
<1>2. TypeOK /\ JumpInv /\ (call_depth < EvalMaxDepth)' /\ [Next]_vars => JumpInv'
  <2>1. TypeOK => ~Uses("escaped")
    BY DEF TypeOK, Uses
  <2> QED
    BY <2>1, JumpStep
<1>3. TypeOK /\ JumpInv => JumpTargetsKnown
  <2> SUFFICES ASSUME TypeOK, JumpInv
               PROVE  JumpTargetsKnown
    OBVIOUS
  <2>1. ReturnHasReceiver
    <3> SUFFICES ASSUME ret.k = "return"
                 PROVE  \/ OnStack(ret.target)
                        \/ \E i \in Indices :
                             /\ stack[i].kind = "block" /\ stack[i].def = ret.target
                             /\ stack[i].blk.obj \in {"proc", "lambda"}
      BY DEF ReturnHasReceiver
    <3> QED
      BY TopJumps DEF Hosted, Hosts, OnStack, Indices
  <2> QED
    BY <2>1 DEF JumpInv, ActiveInv, JumpTargetsKnown
<1> QED
  BY <1>1, <1>2, <1>3, TypeCorrect, PTL DEF Spec

(***************************************************************************)
(* Signals: in programs over constructs that compose, they stop at the     *)
(* construct they are meant for and nowhere else.                          *)
(***************************************************************************)
(***************************************************************************)
(* Where a signal is heading, told from the stack alone.                   *)
(***************************************************************************)

\* The activations at which a break stops, and the home it then has: a proc
\* object turns it into a LocalJumpError.
Catches(a) ==
  \/ a.kind \in {"while", "for"} /\ a.phase = "body"
  \/ a.kind = "native"
  \/ a.kind = "block" /\ a.blk.obj \in {"proc", "lambda"}
  \/ a.kind = "call" /\ a.blk # NoBlock /\ a.via = "method"

Home(a, i) == IF a.kind = "block" /\ a.blk.obj = "proc" THEN 0 ELSE i

\* The first activation from n downwards that a break stops at is its home.
Aims(s, n, h) ==
  \E i \in 1..n : /\ Catches(s[i]) /\ h = Home(s[i], i)
                  /\ \A j \in i + 1..n : ~Catches(s[j])

\* A lambda takes every return for its own: from n downwards, a return to e
\* gets to a lambda of another method only past the place where it stops.
Lambda(a) == a.kind = "block" /\ a.blk.obj = "lambda"
Lands(a, e) == a.def = e /\ (a.kind = "call" \/ Lambda(a))
Arrives(s, n, e) ==
  \A i \in 1..n : Lambda(s[i]) /\ s[i].def # e => \E j \in i + 1..n : Lands(s[j], e)

JumpWords == {"return", "break", "next", "retry", "throw"}
Tracked(u) == {"lambda", "return"} \subseteq u

Travels(s, n, r, u) ==
  /\ r.k \in JumpWords => r.k \in u
  /\ r.k = "break" => Aims(s, n, r.home)
  /\ r.k = "return" /\ Tracked(u) => Arrives(s, n, r.target)

(***************************************************************************)
(* The inductive invariant.                                                *)
(***************************************************************************)

\* Activations are of constructs the program uses.
Made(a, u, args) ==
  /\ a.kind \in {"while", "for", "rope"} => a.kind \in u
  /\ a.kind = "for" => a.phase = "body"
  /\ a.kind = "begin" => (a.else => "else" \in u)
  /\ a.kind = "native" => a.op \in u /\ a.blk.obj = "block" /\ a.blk.def = a.def
  /\ a.kind = "block" => a.def = a.blk.def
  /\ a.kind \in {"block", "call"} /\ a.blk.obj \in {"proc", "lambda"} => a.blk.obj \in u
  /\ a.kind = "call" => /\ a.via \in u /\ a.jumps = {"return"}
                        /\ a.blk # NoBlock => "yield" \in u
                        /\ a.blk.obj = "proc" => a.blk.home = 0
                        /\ a.def \in 1..Len(args) /\ a.blk = args[a.def]
  /\ a.kind = "program" => a.jumps = {}
  /\ a.kind \in {"program", "exited"} => a.def = TopEnv

\* The call or block whose text runs in the activation at i.
Owners == {"call", "block", "program", "exited"}
Owned(s, i) ==
  \E c \in 1..i : /\ s[c].kind \in Owners /\ s[i].def = s[c].def
                  /\ \A j \in c + 1..i : s[j].kind \notin Owners

\* A break written in the text at i, or in a literal given to it, has its home.
BreaksAim(s, i) ==
  /\ s[i].kind \in {"call", "native"} /\ s[i].blk.obj = "block" => s[i].blk.home = i
  /\ Lambda(s[i]) => s[i].home = i
  /\ s[i].kind = "block" /\ s[i].blk.obj = "proc" => s[i].home = 0
  /\ s[i].kind = "block" /\ s[i].blk.obj = "block" => Aims(s, i - 1, s[i].home)
  /\ s[i].kind \in {"begin", "while", "for"} /\ "break" \in s[i].jumps =>
       Aims(s, i - 1, s[i].home)

\* So has a return.
ReturnsArrive(s, i) ==
  /\ Arrives(s, i, s[i].def)
  /\ s[i].kind = "call" /\ s[i].blk.obj = "block" => Arrives(s, i, s[i].blk.def)

Placed(s, i, u, args) ==
  /\ Made(s[i], u, args)
  /\ Owned(s, i)
  /\ i > 1 => (s[i - 1].kind = "native" => s[i].kind = "block")
  /\ "break" \in u => BreaksAim(s, i)
  /\ Tracked(u) => ReturnsArrive(s, i)
  /\ s[i].kind = "begin" => Travels(s, i, s[i].result, u)

SignalInv ==
  /\ \A i \in Indices : Placed(stack, i, uses, block_arg)
  /\ Travels(stack, Len(stack), ret, uses)
  /\ Top.kind = "native" => ret.k # "next"

(***************************************************************************)
(* One activation more or less on the way of a signal.                     *)
(***************************************************************************)

LEMMA AimsPast ==
  ASSUME NEW s, NEW n \in Nat \ {0}, ~Catches(s[n]), NEW h
  PROVE  Aims(s, n, h) <=> Aims(s, n - 1, h)
BY DEF Aims

LEMMA AimsHere ==
  ASSUME NEW s, NEW n \in Nat \ {0}, Catches(s[n])
  PROVE  /\ Aims(s, n, Home(s[n], n))
         /\ \A h : Aims(s, n, h) => h = Home(s[n], n)
BY DEF Aims

\* What does not catch is not the home.
LEMMA AimsBelow ==
  ASSUME NEW s, NEW n \in Nat \ {0}, ~Catches(s[n]), NEW h, Aims(s, n, h)
  PROVE  h # n
<1>1. PICK i \in 1..n : Catches(s[i]) /\ h = Home(s[i], i)
  BY DEF Aims
<1> QED
  BY <1>1 DEF Home

LEMMA ArrivesPast ==
  ASSUME NEW s, NEW n \in Nat \ {0}, NEW e
  PROVE  /\ Arrives(s, n, e) /\ ~Lands(s[n], e) => Arrives(s, n - 1, e)
         /\ Arrives(s, n - 1, e) /\ ~(Lambda(s[n]) /\ s[n].def # e) => Arrives(s, n, e)
         /\ Arrives(s, n, e) /\ Lambda(s[n]) => s[n].def = e
         /\ Lands(s[n], e) => Arrives(s, n, e)
<1>1. Arrives(s, n, e) /\ ~Lands(s[n], e) => Arrives(s, n - 1, e)
  <2> SUFFICES ASSUME Arrives(s, n, e), ~Lands(s[n], e), NEW i \in 1..n - 1,
                      Lambda(s[i]), s[i].def # e
               PROVE  \E j \in i + 1..n - 1 : Lands(s[j], e)
    BY DEF Arrives
  <2>1. PICK j \in i + 1..n : Lands(s[j], e)
    BY DEF Arrives
  <2> QED
    BY <2>1
<1>2. Arrives(s, n - 1, e) /\ ~(Lambda(s[n]) /\ s[n].def # e) => Arrives(s, n, e)
  <2> SUFFICES ASSUME Arrives(s, n - 1, e), ~(Lambda(s[n]) /\ s[n].def # e), NEW i \in 1..n,
                      Lambda(s[i]), s[i].def # e
               PROVE  \E j \in i + 1..n : Lands(s[j], e)
    BY DEF Arrives
  <2>1. i \in 1..n - 1
    OBVIOUS
  <2>2. PICK j \in i + 1..n - 1 : Lands(s[j], e)
    BY <2>1 DEF Arrives
  <2> QED
    BY <2>2
<1>3. Arrives(s, n, e) /\ Lambda(s[n]) => s[n].def = e
  BY DEF Arrives
<1>4. Lands(s[n], e) => Arrives(s, n, e)
  <2> SUFFICES ASSUME Lands(s[n], e), NEW i \in 1..n, s[i].def # e
               PROVE  \E j \in i + 1..n : Lands(s[j], e)
    BY DEF Arrives
  <2>1. i # n
    BY DEF Lands
  <2> QED
    BY <2>1
<1> QED
  BY <1>1, <1>2, <1>3, <1>4

\* And without any change below.
LEMMA WayStays ==
  ASSUME NEW n \in Nat, SameBelow(n)
  PROVE  /\ \A h : Aims(stack, n, h) <=> Aims(stack', n, h)
         /\ \A e : Arrives(stack, n, e) <=> Arrives(stack', n, e)
         /\ \A r, u : Travels(stack, n, r, u) <=> Travels(stack', n, r, u)
<1>1. \A i \in 1..n : stack'[i] = stack[i] /\ i \in Nat
  BY DEF SameBelow
<1>2. \A i \in 1..n : \A j \in i + 1..n : j \in 1..n
  OBVIOUS
<1>3. \A h : Aims(stack, n, h) <=> Aims(stack', n, h)
  BY <1>1, <1>2 DEF Aims
<1>4. \A e : Arrives(stack, n, e) <=> Arrives(stack', n, e)
  BY <1>1, <1>2 DEF Arrives
<1> QED
  BY <1>3, <1>4 DEF Travels

LEMMA PlacedStays ==
  ASSUME NEW n \in Nat, SameBelow(n), NEW i \in 1..n, NEW u,
         Placed(stack, i, u, block_arg),
         Len(block_arg) \in Nat, Len(block_arg') \in Nat, Len(block_arg) <= Len(block_arg'),
         \A d \in 1..Len(block_arg) : block_arg'[d] = block_arg[d]
  PROVE  Placed(stack', i, u, block_arg')
<1>1. /\ stack'[i] = stack[i] /\ i \in Nat /\ SameBelow(i)
      /\ i - 1 \in Nat /\ SameBelow(i - 1) /\ (i > 1 => stack'[i - 1] = stack[i - 1])
  BY DEF SameBelow
<1>2. Made(stack'[i], u, block_arg')
  <2>1. \A d \in 1..Len(block_arg) : d \in 1..Len(block_arg')
    OBVIOUS
  <2> QED
    BY <1>1, <2>1 DEF Placed, Made
<1>3. Owned(stack', i)
  <2>1. PICK c \in 1..i : /\ stack[c].kind \in Owners /\ stack[i].def = stack[c].def
                          /\ \A j \in c + 1..i : stack[j].kind \notin Owners
    BY DEF Placed, Owned
  <2>2. stack'[c] = stack[c] /\ \A j \in c + 1..i : stack'[j] = stack[j]
    BY DEF SameBelow
  <2> QED
    BY <1>1, <2>1, <2>2 DEF Owned
<1>4. "break" \in u => BreaksAim(stack', i)
  BY <1>1, WayStays DEF Placed, BreaksAim
<1>5. Tracked(u) => ReturnsArrive(stack', i)
  BY <1>1, WayStays DEF Placed, ReturnsArrive
<1>6. stack'[i].kind = "begin" => Travels(stack', i, stack'[i].result, u)
  BY <1>1, WayStays DEF Placed
<1> QED
  BY <1>1, <1>2, <1>3, <1>4, <1>5, <1>6 DEF Placed

(***************************************************************************)
(* The things a step does to the C stack.                                  *)
(***************************************************************************)

ArgsStay ==
  /\ Len(block_arg') \in Nat /\ Len(block_arg) <= Len(block_arg')
  /\ \A d \in 1..Len(block_arg) : block_arg'[d] = block_arg[d]

LEMMA SameArgs ==
  ASSUME TypeOK, block_arg' = block_arg
  PROVE  ArgsStay
BY StackFacts DEF ArgsStay

\* It keeps the activations up to n and puts others above them.
LEMMA SignalsKept ==
  ASSUME TypeOK, SignalInv, uses' = uses, ArgsStay,
         NEW n \in Nat, n <= Len(stack), SameBelow(n),
         Len(stack') \in Nat, n <= Len(stack'),
         \A i \in n + 1..Len(stack') : Placed(stack', i, uses, block_arg'),
         Travels(stack', Len(stack'), ret', uses),
         stack'[Len(stack')].kind = "native" => ret'.k # "next"
  PROVE  SignalInv'
<1>1. ASSUME NEW i \in 1..Len(stack')
      PROVE  Placed(stack', i, uses, block_arg')
  <2>1. CASE i \in 1..n
    <3>1. Placed(stack, i, uses, block_arg)
      BY <2>1, StackFacts DEF SignalInv
    <3> QED
      BY <2>1, <3>1, StackFacts, PlacedStays DEF ArgsStay
  <2>2. i \in 1..n \/ i \in n + 1..Len(stack')
    BY <1>1
  <2> QED
    BY <2>1, <2>2
<1> QED
  BY <1>1 DEF SignalInv, Indices, Top

\* A value or an exception has no way to keep to, nor has most else.
LEMMA PlainTravels ==
  ASSUME NEW s, NEW n, NEW r, NEW u, r.k \notin JumpWords \/ r.k \in u \ {"break", "return"}
  PROVE  Travels(s, n, r, u)
BY DEF Travels, JumpWords

LEMMA ValTravels ==
  ASSUME NEW s, NEW n, NEW u
  PROVE  Travels(s, n, Val, u) /\ Travels(s, n, Exc, u) /\ Val.k # "next" /\ Exc.k # "next"
BY PlainTravels DEF Val, Exc, JumpWords

LEMMA StaySignals ==
  ASSUME TypeOK, SignalInv, uses' = uses, block_arg' = block_arg, stack' = stack,
         Travels(stack, Len(stack), ret', uses),
         Top.kind = "native" => ret'.k # "next"
  PROVE  SignalInv'
<1>1. SameBelow(Len(stack)) /\ ArgsStay
  BY SameArgs DEF SameBelow
<1> QED
  BY <1>1, StackFacts, SignalsKept DEF Top

\* What is pushed: bound for its place by what is below it.
LEMMA PlacedAbove ==
  ASSUME TypeOK, SignalInv, NEW a, NEW args,
         SameBelow(Len(stack)), stack'[Len(stack) + 1] = a,
         Top.kind = "native" => a.kind = "block",
         Made(a, uses, args),
         a.kind \in Owners \/ a.def = Top.def,
         a.kind \in {"call", "native"} /\ a.blk.obj = "block" => a.blk.home = Len(stack) + 1,
         Lambda(a) => a.home = Len(stack) + 1,
         a.kind = "block" /\ a.blk.obj = "proc" => a.home = 0,
         "break" \in uses =>
           /\ a.kind = "block" /\ a.blk.obj = "block" => Aims(stack, Len(stack), a.home)
           /\ a.kind \in {"begin", "while", "for"} /\ "break" \in a.jumps =>
                Aims(stack, Len(stack), a.home),
         Tracked(uses) =>
           /\ Lands(a, a.def) \/ Arrives(stack, Len(stack), a.def)
           /\ a.kind = "call" /\ a.blk.obj = "block" => Arrives(stack, Len(stack), a.blk.def),
         a.kind = "begin" => a.result = Val
  PROVE  Placed(stack', Len(stack) + 1, uses, args)
<1> DEFINE n == Len(stack)
<1>1. n \in Nat \ {0} /\ n + 1 \in Nat \ {0} /\ (n + 1) - 1 = n
  BY StackFacts
<1>2. stack'[n] = stack[n] /\ stack'[n] = Top
  BY <1>1 DEF SameBelow, Top
<1>3. Owned(stack', n + 1)
  <2>1. CASE a.kind \in Owners
    BY <1>1, <2>1 DEF Owned
  <2>2. CASE a.kind \notin Owners /\ a.def = Top.def
    <3>1. PICK c \in 1..n : /\ stack[c].kind \in Owners /\ stack[n].def = stack[c].def
                            /\ \A j \in c + 1..n : stack[j].kind \notin Owners
      BY <1>1, StackFacts DEF SignalInv, Placed, Owned
    <3>2. stack'[c] = stack[c] /\ \A j \in c + 1..n : stack'[j] = stack[j]
      BY <1>1 DEF SameBelow
    <3>3. \A j \in c + 1..n + 1 : j \in c + 1..n \/ j = n + 1
      BY <1>1
    <3>4. \A j \in c + 1..n + 1 : stack'[j].kind \notin Owners
      BY <2>2, <3>1, <3>2, <3>3
    <3>5. c \in 1..n + 1 /\ stack'[n + 1].def = stack'[c].def /\ stack'[c].kind \in Owners
      BY <1>1, <1>2, <2>2, <3>1, <3>2
    <3> QED
      BY <3>4, <3>5 DEF Owned
  <2> QED
    BY <2>1, <2>2
<1>4. "break" \in uses => BreaksAim(stack', n + 1)
  BY <1>1, WayStays DEF BreaksAim
<1>5. ASSUME Tracked(uses)
      PROVE  ReturnsArrive(stack', n + 1)
  <2>1. \A e : Arrives(stack, n, e) /\ ~(Lambda(a) /\ a.def # e) => Arrives(stack', n + 1, e)
    BY <1>1, WayStays, ArrivesPast
  <2>2. \A e : Lands(a, e) => Arrives(stack', n + 1, e)
    BY <1>1, ArrivesPast
  <2>3. a.kind = "call" => ~Lambda(a)
    BY DEF Lambda
  <2> QED
    BY <1>5, <2>1, <2>2, <2>3 DEF ReturnsArrive
<1>6. a.kind = "begin" => Travels(stack', n + 1, a.result, uses)
  BY ValTravels
<1> QED
  BY <1>1, <1>2, <1>3, <1>4, <1>5, <1>6 DEF Placed

LEMMA PushSignals ==
  ASSUME TypeOK, SignalInv, uses' = uses, ArgsStay, NEW a, Push(a),
         a.kind # "native", Placed(stack', Len(stack) + 1, uses, block_arg')
  PROVE  SignalInv'
<1>1. /\ Len(stack') = Len(stack) + 1 /\ SameBelow(Len(stack))
      /\ stack'[Len(stack) + 1] = a /\ ret' = Val
  BY Pushed
<1>2. \A i \in Len(stack) + 1..Len(stack') : i = Len(stack) + 1
  BY <1>1, StackFacts
<1> QED
  BY <1>1, <1>2, StackFacts, ValTravels, SignalsKept

LEMMA OneIsLeast ==
  ASSUME NEW n \in Nat \ {0}, n # 1
  PROVE  n > 1
OBVIOUS

\* The running activation.
LEMMA TopSignals ==
  ASSUME TypeOK, SignalInv
  PROVE  /\ Placed(stack, Len(stack), uses, block_arg) /\ Top = stack[Len(stack)]
         /\ Made(Top, uses, block_arg) /\ Travels(stack, Len(stack), ret, uses)
         /\ Top.kind \notin {"program", "exited"} => Len(stack) # 1
         /\ Len(stack) # 1 => (stack[Len(stack) - 1].kind = "native" => Top.kind = "block")
         /\ Top.kind = "native" => ret.k # "next"
         /\ Val.k = "val" /\ Exc.k = "exc"
<1>1. Placed(stack, Len(stack), uses, block_arg)
  BY StackFacts DEF SignalInv
<1>2. Top.kind \notin {"program", "exited"} => Len(stack) # 1
  BY StackFacts, TopTyped, TypeOKParts
<1>3. Len(stack) # 1 => (stack[Len(stack) - 1].kind = "native" => Top.kind = "block")
  <2>1. Len(stack) # 1 => Len(stack) > 1
    BY StackFacts, OneIsLeast
  <2> QED
    BY <1>1, <2>1 DEF Placed, Top
<1> QED
  BY <1>1, <1>2, <1>3 DEF Top, Placed, SignalInv, Val, Exc

\* Only a block is called by a built-in, which never sees its next.
LEMMA PopSignals ==
  ASSUME TypeOK, SignalInv, uses' = uses, block_arg' = block_arg, NEW r, Pop(r),
         Len(stack) # 1, Travels(stack, Len(stack) - 1, r, uses),
         Top.kind = "block" => r.k # "next"
  PROVE  SignalInv'
<1> DEFINE n == Len(stack) - 1
<1>1. Len(stack') = n /\ SameBelow(n) /\ n \in Nat \ {0} /\ ret' = r /\ ArgsStay
  BY StackFacts, Popped, SameArgs
<1>2. Travels(stack', n, r, uses)
  BY <1>1, WayStays
<1>3. stack[n].kind = "native" => Top.kind = "block"
  BY TopSignals
<1>4. stack'[n] = stack[n] /\ \A i \in n + 1..Len(stack') : FALSE
  BY <1>1 DEF SameBelow
<1> QED
  BY <1>1, <1>2, <1>3, <1>4, StackFacts, SignalsKept

\* What an activation passes on is still on its way.
LEMMA PassTravels ==
  ASSUME TypeOK, NEW r, Travels(stack, Len(stack), r, uses),
         r.k = "break" => ~Catches(Top),
         r.k = "return" /\ Tracked(uses) => ~Lands(Top, r.target)
  PROVE  Travels(stack, Len(stack) - 1, r, uses)
BY StackFacts, AimsPast, ArrivesPast DEF Travels, Top

\* A begin or a while goes to another phase.
LEMMA TurnSignals ==
  ASSUME TypeOK, SignalInv, uses' = uses, block_arg' = block_arg, NEW a, Replace(a),
         Top.kind \in {"begin", "while"}, a.kind = Top.kind,
         a.def = Top.def, a.jumps = Top.jumps, a.home = Top.home,
         a.kind = "begin" => a.else = Top.else /\ a.result \in {Top.result, ret},
         ret' = Val
  PROVE  SignalInv'
<1> DEFINE n == Len(stack)
<1>1. n \in Nat \ {0} /\ n - 1 \in Nat
  BY StackFacts
<1>2. /\ Len(stack') = n /\ SameBelow(n - 1) /\ stack'[n] = a /\ stack[n] = Top /\ ArgsStay
      /\ n > 1 => stack'[n - 1] = stack[n - 1]
  BY <1>1, ReplaceFacts, SameArgs DEF SameBelow, Top
<1>3. Made(a, uses, block_arg')
  BY TopSignals DEF Made
<1>4. Owned(stack', n)
  <2>1. PICK c \in 1..n : /\ stack[c].kind \in Owners /\ stack[n].def = stack[c].def
                          /\ \A j \in c + 1..n : stack[j].kind \notin Owners
    BY TopSignals DEF Placed, Owned
  <2>2. Top.kind \notin Owners
    BY DEF Owners
  <2>3. c # n
    BY <1>2, <2>1, <2>2
  <2>4. stack'[c] = stack[c] /\ \A j \in c + 1..n : j # n => stack'[j] = stack[j]
    BY <1>1, <1>2, <2>3 DEF SameBelow
  <2> QED
    BY <1>2, <2>1, <2>2, <2>4 DEF Owned
<1>5. "break" \in uses => BreaksAim(stack', n)
  <2>1. ~Lambda(a)
    BY DEF Lambda
  <2>2. "break" \in uses /\ "break" \in a.jumps => Aims(stack', n - 1, a.home)
    BY <1>1, <1>2, TopSignals, WayStays DEF Placed, BreaksAim
  <2> QED
    BY <1>1, <1>2, <2>1, <2>2 DEF BreaksAim
<1>6. \A e : \A b \in {a, Top} : ~Lands(b, e) /\ ~Lambda(b)
  BY DEF Lands, Lambda
<1>7. \A e : Arrives(stack, n, e) => Arrives(stack', n, e)
  BY <1>1, <1>2, <1>6, ArrivesPast, WayStays
<1>8. Tracked(uses) => ReturnsArrive(stack', n)
  BY <1>2, <1>7, TopSignals DEF Placed, ReturnsArrive
<1>9. ASSUME a.kind = "begin"
      PROVE  Travels(stack', n, a.result, uses)
  <2>1. Travels(stack, n, a.result, uses)
    BY <1>2, <1>9, TopSignals DEF Placed
  <2>2. \A b \in {a, Top} : ~Catches(b)
    BY <1>9 DEF Catches
  <2>3. \A h : Aims(stack, n, h) => Aims(stack', n, h)
    BY <1>1, <1>2, <2>2, AimsPast, WayStays
  <2> QED
    BY <1>7, <2>1, <2>3 DEF Travels
<1>10. Placed(stack', n, uses, block_arg')
  <2>1. n > 1 /\ stack'[n - 1].kind = "native" => stack'[n].kind = "block"
    BY <1>2, TopSignals DEF Placed
  <2> QED
    BY <1>2, <1>3, <1>4, <1>5, <1>8, <1>9, <2>1 DEF Placed
<1>11. \A i \in n - 1 + 1..Len(stack') : i = n
  BY <1>1, <1>2
<1>12. n - 1 <= n
  BY <1>1
<1>13. a.kind # "native"
  OBVIOUS
<1> QED
  BY <1>1, <1>2, <1>10, <1>11, <1>12, <1>13, ValTravels, SignalsKept

(***************************************************************************)
(* The actions.                                                            *)
(***************************************************************************)

\* A break of the running text has its home on the stack.
LEMMA BreakHomeAims ==
  ASSUME TypeOK, SignalInv, Running, Composes(uses), "break" \in uses, "break" \in Allowed
  PROVE  Aims(stack, Len(stack), BreakHome)
<1> DEFINE n == Len(stack)
<1>1. n \in Nat \ {0} /\ Top = stack[n]
  BY StackFacts, TopSignals
<1>2. BreaksAim(stack, n) /\ Made(Top, uses, block_arg)
  BY TopSignals DEF Placed
<1>3. CASE InLoopBody
  <2>1. Catches(Top) /\ Home(Top, n) = n
    BY <1>3 DEF InLoopBody, Catches, Home
  <2> QED
    BY <1>1, <1>3, <2>1, AimsHere DEF BreakHome
<1>4. CASE ~InLoopBody
  <2>1. BreakHome = Top.home /\ "break" \in Top.jumps
    BY <1>4 DEF BreakHome, Allowed
  <2>2. CASE Top.kind \in {"begin", "while", "for"}
    <3>1. Aims(stack, n - 1, Top.home) /\ ~Catches(Top)
      BY <1>1, <1>2, <1>4, <2>1, <2>2 DEF BreaksAim, Catches, InLoopBody, Made
    <3> QED
      BY <1>1, <2>1, <3>1, AimsPast
  <2>3. CASE Top.kind = "block"
    <3>1. Top.blk.obj \in {"block", "proc", "lambda"}
      BY <2>3, TopRecord DEF BlockActs, BlockValues
    <3>2. CASE Top.blk.obj = "block"
      <4>1. Aims(stack, n - 1, Top.home) /\ ~Catches(Top)
        BY <1>1, <1>2, <2>3, <3>2 DEF BreaksAim, Catches
      <4> QED
        BY <1>1, <2>1, <4>1, AimsPast
    <3>3. CASE Top.blk.obj \in {"proc", "lambda"}
      <4>1. Catches(Top) /\ Top.home = Home(Top, n)
        BY <1>1, <1>2, <2>3, <3>3 DEF BreaksAim, Catches, Home, Lambda
      <4> QED
        BY <1>1, <2>1, <4>1, AimsHere
    <3> QED
      BY <3>1, <3>2, <3>3
  <2>4. Top.kind \notin {"call", "program", "rope", "native", "exited"}
    BY <1>2, <2>1 DEF Made, Composes, Running
  <2>5. Top.kind \in {"begin", "while", "for", "rope", "call", "block", "native", "program", "exited"}
    BY StackFacts, TopTyped, TypeOKParts
       DEF Activations, ProgramActs, BeginActs, LoopActs, CallActs, BlockActs, NativeActs
  <2> QED
    BY <2>2, <2>3, <2>4, <2>5
<1> QED
  BY <1>3, <1>4

\* A construct opened by the running text.
LEMMA OpenSignals ==
  ASSUME TypeOK, SignalInv, Running, Composes(uses), uses' = uses, block_arg' = block_arg,
         NEW a, Push(a), a.kind \in {"begin", "while", "for"},
         a.def = Top.def, a.jumps = Allowed, a.home = BreakHome,
         Made(a, uses, block_arg), a.kind = "begin" => a.result = Val
  PROVE  SignalInv'
<1>1. SameBelow(Len(stack)) /\ stack'[Len(stack) + 1] = a
  BY Pushed
<1>2. Top.kind # "native" /\ ~Lambda(a) /\ a.kind # "native"
  BY DEF Running, Lambda
<1>3. Tracked(uses) => Arrives(stack, Len(stack), a.def)
  BY TopSignals DEF Placed, ReturnsArrive
<1>4. Placed(stack', Len(stack) + 1, uses, block_arg)
  BY <1>1, <1>2, <1>3, BreakHomeAims, PlacedAbove
<1> QED
  BY <1>2, <1>4, SameArgs, PushSignals

LEMMA BeginSignals ==
  ASSUME TypeOK, SignalInv, Composes(uses),
         \/ EnterBegin \/ Rescue \/ Retry \/ EnterElse \/ EnterEnsure
         \/ LeaveBegin \/ LeaveEnsure
  PROVE  SignalInv'
<1>1. uses' = uses /\ block_arg' = block_arg
  BY DEF EnterBegin, Rescue, Retry, EnterElse, EnterEnsure, LeaveBegin, LeaveEnsure, registers
<1>2. CASE EnterBegin
  <2>1. PICK el, en \in BOOLEAN : Push(BeginAct(el, en)) /\ (el => Uses("else")) /\ Running
    BY <1>2 DEF EnterBegin
  <2> DEFINE a == BeginAct(el, en)
  <2>2. /\ a.kind = "begin" /\ a.def = Top.def /\ a.jumps = Allowed /\ a.home = BreakHome
        /\ a.result = Val /\ (a.else => "else" \in uses)
    BY <2>1 DEF BeginAct, Uses
  <2>3. Push(a)
    BY <2>1
  <2> HIDE DEF a
  <2>4. Made(a, uses, block_arg)
    BY <2>2 DEF Made
  <2> QED
    BY <1>1, <2>1, <2>2, <2>3, <2>4, OpenSignals
<1>3. CASE Rescue \/ Retry \/ EnterElse \/ EnterEnsure
  <2>1. PICK a : Replace(a) /\ Turned(a)
    BY <1>3, BeginTurns
  <2>2. Top.kind = "begin" /\ ret' = Val
    BY <1>3 DEF Rescue, Retry, EnterElse, EnterEnsure, BodyOver
  <2> QED
    BY <1>1, <2>1, <2>2, TurnSignals DEF Turned
<1>4. ASSUME Top.kind = "begin" PROVE ~Catches(Top) /\ \A e : ~Lands(Top, e)
  BY <1>4 DEF Catches, Lands, Lambda
<1>5. CASE LeaveBegin \/ LeaveEnsure
  <2>1. Top.kind = "begin" /\ (Pop(ret) \/ Pop(Top.result))
    BY <1>5 DEF LeaveBegin, LeaveEnsure, BodyOver
  <2>2. Travels(stack, Len(stack), ret, uses) /\ Travels(stack, Len(stack), Top.result, uses)
    BY <2>1, TopSignals DEF Placed
  <2> QED
    BY <1>1, <1>4, <2>1, <2>2, TopSignals, PassTravels, PopSignals
<1> QED
  BY <1>2, <1>3, <1>5

\* Raising, jumping, loops, interpolation and the end of the program.
LEMMA RaiseSignals ==
  ASSUME TypeOK, SignalInv, Composes(uses), Raise \/ Reraise \/ Throw \/ Jump
  PROVE  SignalInv'
<1>1. uses' = uses /\ block_arg' = block_arg /\ stack' = stack /\ Running
  BY DEF Raise, Reraise, Throw, Jump, registers
<1>2. Top.kind # "native"
  BY <1>1 DEF Running
<1>3. CASE Raise \/ Reraise
  <2>1. ret' = Exc
    BY <1>3 DEF Raise, Reraise, RaiseValue
  <2> QED
    BY <1>1, <1>2, <2>1, ValTravels, StaySignals
<1>4. CASE Throw
  <2>1. ret'.k = "throw" /\ "throw" \in uses
    BY <1>4 DEF Throw, Uses
  <2> QED
    BY <1>1, <1>2, <2>1, PlainTravels, StaySignals
<1>5. CASE Jump
  <2>1. PICK j \in Allowed \cap uses : ret' = Signal(j)
    BY <1>5 DEF Jump
  <2>2. CASE j = "return"
    <3>1. ret'.k = "return" /\ ret'.target = Top.def
      BY <2>1, <2>2 DEF Signal
    <3>2. Tracked(uses) => Arrives(stack, Len(stack), Top.def)
      BY TopSignals DEF Placed, ReturnsArrive
    <3>3. Travels(stack, Len(stack), ret', uses)
      BY <2>1, <2>2, <3>1, <3>2 DEF Travels
    <3> QED
      BY <1>1, <1>2, <3>3, StaySignals
  <2>3. CASE j = "break"
    <3>1. ret'.k = "break" /\ ret'.home = BreakHome
      BY <2>1, <2>3 DEF Signal
    <3>2. Travels(stack, Len(stack), ret', uses)
      BY <1>1, <2>1, <2>3, <3>1, BreakHomeAims DEF Travels
    <3> QED
      BY <1>1, <1>2, <3>2, StaySignals
  <2>4. CASE j \notin {"return", "break"}
    <3>1. ret'.k = j
      BY <2>1, <2>4 DEF Signal
    <3>2. Travels(stack, Len(stack), ret', uses)
      BY <2>1, <2>4, <3>1 DEF Travels
    <3> QED
      BY <1>1, <1>2, <3>2, StaySignals
  <2> QED
    BY <2>2, <2>3, <2>4
<1> QED
  BY <1>3, <1>4, <1>5

LEMMA LoopSignals ==
  ASSUME TypeOK, SignalInv, Composes(uses),
         EnterLoop \/ WhileCond \/ WhileBody \/ ForBody \/ EnterRope \/ LeaveRope
  PROVE  SignalInv'
<1>1. uses' = uses /\ block_arg' = block_arg
  BY DEF EnterLoop, WhileCond, WhileBody, ForBody, EnterRope, LeaveRope, registers
<1>2. CASE EnterLoop
  <2>1. PICK kd, ph : /\ kd \in {"while", "for"} \cap uses /\ Push(Nested(kd, ph))
                      /\ (kd = "for" => ph = "body")
    BY <1>2 DEF EnterLoop, Uses
  <2> DEFINE a == Nested(kd, ph)
  <2>2. /\ a.kind = kd /\ a.def = Top.def /\ a.jumps = Allowed /\ a.home = BreakHome
        /\ a.phase = ph
    BY DEF Nested
  <2>3. Push(a)
    BY <2>1
  <2> HIDE DEF a
  <2>4. Made(a, uses, block_arg)
    BY <2>1, <2>2 DEF Made
  <2>5. Running
    BY <1>2 DEF EnterLoop
  <2> QED
    BY <1>1, <2>1, <2>2, <2>3, <2>4, <2>5, OpenSignals
<1>3. ASSUME Top.kind \in {"while", "for", "rope"}
      PROVE  /\ \A e : ~Lands(Top, e)
             /\ Len(stack) # 1 /\ Top.kind # "block"
             /\ Travels(stack, Len(stack) - 1, LoopResult, uses)
             /\ Travels(stack, Len(stack) - 1, Val, uses)
  <2>1. \A e : ~Lands(Top, e)
    BY <1>3 DEF Lands, Lambda
  <2>2. Travels(stack, Len(stack), LoopResult, uses) /\ LoopResult.k # "break"
    BY TopSignals, ValTravels DEF LoopResult
  <2> QED
    BY <1>3, <2>1, <2>2, TopSignals, ValTravels, PassTravels
<1>4. CASE WhileCond \/ WhileBody
  <2>1. Top.kind = "while" /\ Top \in LoopActs
    BY <1>4, TopRecord DEF WhileCond, WhileBody
  <2>2. CASE WhileCond /\ Pop(ret)
    <3>1. ~Catches(Top)
      BY <2>1, <2>2 DEF WhileCond, Catches
    <3>2. Travels(stack, Len(stack) - 1, ret, uses)
      BY <1>3, <2>1, <3>1, TopSignals, PassTravels
    <3> QED
      BY <1>1, <1>3, <2>1, <2>2, <3>2, PopSignals
  <2>3. CASE WhileBody /\ Pop(LoopResult)
    BY <1>1, <1>3, <2>1, <2>3, PopSignals
  <2>4. CASE \E ph : Replace([Top EXCEPT !.phase = ph]) /\ ret' = Val
    <3>1. PICK ph : Replace([Top EXCEPT !.phase = ph]) /\ ret' = Val
      BY <2>4
    <3> DEFINE a == [Top EXCEPT !.phase = ph]
    <3>2. /\ a.kind = Top.kind /\ a.def = Top.def /\ a.jumps = Top.jumps
          /\ a.home = Top.home
      BY <2>1 DEF LoopActs
    <3>3. Replace(a)
      BY <3>1
    <3> HIDE DEF a
    <3>4. a.kind # "begin"
      BY <2>1, <3>2
    <3> QED
      BY <1>1, <2>1, <3>1, <3>2, <3>3, <3>4, TurnSignals
  <2>5. ~IsSignal(ret) => ret = Val
    BY DEF IsSignal, Val, TypeOK, Results
  <2> QED
    BY <1>4, <2>2, <2>3, <2>4, <2>5 DEF WhileCond, WhileBody
<1>5. CASE ForBody
  <2>1. Top.kind = "for" /\ (Pop(LoopResult) \/ (ret' = Val /\ stack' = stack))
    BY <1>5 DEF ForBody
  <2>2. CASE Pop(LoopResult)
    BY <1>1, <1>3, <2>1, <2>2, PopSignals
  <2>3. CASE ret' = Val /\ stack' = stack
    BY <1>1, <2>1, <2>3, ValTravels, StaySignals
  <2> QED
    BY <2>1, <2>2, <2>3
<1>6. CASE EnterRope
  BY <1>6 DEF EnterRope, Uses, Composes
<1>7. CASE LeaveRope
  BY <1>1, <1>3, <1>7, PopSignals DEF LeaveRope
<1> QED
  BY <1>2, <1>4, <1>5, <1>6, <1>7

\* The program ends with whatever came back to it.
LEMMA ExitSignals ==
  ASSUME TypeOK, SignalInv, Exit
  PROVE  SignalInv'
<1> DEFINE a == [Top EXCEPT !.kind = "exited"]
<1>1. /\ uses' = uses /\ block_arg' = block_arg /\ ret' = ret /\ Replace(a)
      /\ Top \in ProgramActs /\ Top.kind = "program" /\ Len(stack) = 1
  BY TopRecord, TopTyped, TypeOKParts DEF Exit, registers
<1>2. a.kind = "exited" /\ a.def = Top.def
  BY <1>1 DEF ProgramActs
<1>3. Replace(a)
  BY <1>1
<1> HIDE DEF a
<1>4. Len(stack') = 1 /\ stack'[1] = a /\ stack[1] = Top
  BY <1>1, <1>3, ReplaceFacts, TopSignals
<1>5. /\ \A b \in {a, Top} : ~Catches(b) /\ ~Lambda(b)
      /\ \A i \in 1..1 : i = 1
  BY <1>1, <1>2 DEF Catches, Lambda
<1>6. /\ \A h : ~Aims(stack, 1, h)
      /\ \A e : Arrives(stack', 1, e)
  BY <1>4, <1>5 DEF Aims, Arrives
<1>7. Travels(stack', 1, ret', uses)
  BY <1>1, <1>6, TopSignals DEF Travels
<1>8. Placed(stack', 1, uses, block_arg')
  <2>1. Made(a, uses, block_arg')
    BY <1>1, <1>2, TopSignals DEF Made
  <2>2. Owned(stack', 1)
    BY <1>2, <1>4 DEF Owned, Owners
  <2>3. BreaksAim(stack', 1) /\ ReturnsArrive(stack', 1)
    BY <1>2, <1>4, <1>5, <1>6 DEF BreaksAim, ReturnsArrive
  <2> QED
    BY <1>2, <1>4, <2>1, <2>2, <2>3 DEF Placed
<1> QED
  BY <1>1, <1>2, <1>4, <1>5, <1>7, <1>8 DEF SignalInv, Indices, Top

(***************************************************************************)
(* Blocks: who called them, and where their jumps go.                      *)
(***************************************************************************)

LEMMA CallBlockSignals ==
  ASSUME TypeOK, SignalInv, uses' = uses, block_arg' = block_arg, NEW b, CallBlock(b),
         b.obj \in {"proc", "lambda"} => b.obj \in uses,
         b.obj = "proc" => b.home = 0,
         "break" \in uses /\ b.obj = "block" => Aims(stack, Len(stack), b.home),
         Tracked(uses) => b.obj = "lambda" \/ Arrives(stack, Len(stack), b.def)
  PROVE  SignalInv'
<1>1. CASE exn # Nil
  BY <1>1, ValTravels, StaySignals DEF CallBlock
<1>2. CASE exn = Nil
  <2> DEFINE a == BlockAct(b)
  <2>1. /\ a.kind = "block" /\ a.def = b.def /\ a.blk = b
        /\ a.home = IF b.obj = "lambda" THEN Len(stack) + 1 ELSE b.home
    BY DEF BlockAct
  <2>2. Push(a)
    BY <1>2 DEF CallBlock
  <2> HIDE DEF a
  <2>3. SameBelow(Len(stack)) /\ stack'[Len(stack) + 1] = a
    BY <2>2, Pushed
  <2>4. Made(a, uses, block_arg)
    BY <2>1 DEF Made
  <2>5. a.kind \in Owners
    BY <2>1 DEF Owners
  <2>6. Lambda(a) <=> b.obj = "lambda"
    BY <2>1 DEF Lambda
  <2>7. Tracked(uses) => Lands(a, a.def) \/ Arrives(stack, Len(stack), a.def)
    BY <2>1, <2>6 DEF Lands
  <2>8. Placed(stack', Len(stack) + 1, uses, block_arg)
    BY <2>1, <2>3, <2>4, <2>5, <2>6, <2>7, PlacedAbove
  <2> QED
    BY <2>1, <2>2, <2>8, SameArgs, PushSignals
<1> QED
  BY <1>1, <1>2

LEMMA FreeBlockSignals ==
  ASSUME TypeOK, SignalInv, Composes(uses), CallProc \/ CallEscaped
  PROVE  SignalInv'
<1>1. uses' = uses /\ block_arg' = block_arg
  BY DEF CallProc, CallEscaped
<1>2. CASE CallProc
  <2>1. PICK b \in Procs : CallBlock(b)
    BY <1>2 DEF CallProc
  <2>2. b.obj \in {"proc", "lambda"} \cap uses /\ b.home = 0
    BY DEF Procs, Block
  <2>3. Tracked(uses) => "proc" \notin uses
    BY DEF Tracked, Composes
  <2> QED
    BY <1>1, <2>1, <2>2, <2>3, CallBlockSignals
<1>3. CASE CallEscaped
  <2>1. PICK b : CallBlock(b) /\ b.obj = "block" /\ "escaped" \in uses
    BY <1>3 DEF CallEscaped, Block, Uses
  <2>2. ~Tracked(uses) /\ "break" \notin uses
    BY <2>1 DEF Tracked, Composes
  <2> QED
    BY <1>1, <2>1, <2>2, CallBlockSignals
<1> QED
  BY <1>2, <1>3

\* Without relays, a yield is written in the method the running text belongs to,
\* and only loops and begins are open in it.
LEMMA YieldOwner ==
  ASSUME TypeOK, SignalInv, Running, ~InBlockText, Top.def # TopEnv
  PROVE  \E c \in 1..Len(stack) :
           /\ stack[c].kind = "call" /\ stack[c].def = Top.def
           /\ \A j \in c + 1..Len(stack) :
                stack[j].kind \notin {"call", "block", "native", "program", "exited"}
<1>1. PICK c \in 1..Len(stack) :
         /\ stack[c].kind \in Owners /\ Top.def = stack[c].def
         /\ \A j \in c + 1..Len(stack) : stack[j].kind \notin Owners
  BY TopSignals DEF Placed, Owned
<1>2. Made(stack[c], uses, block_arg)
  BY <1>1, StackFacts DEF SignalInv, Placed
<1>3. stack[c].kind \notin {"program", "exited"}
  BY <1>1, <1>2 DEF Made
<1>4. stack[c].kind # "block"
  BY <1>1 DEF InBlockText, Owners
<1>5. ASSUME NEW j \in c + 1..Len(stack)
      PROVE  stack[j].kind # "native"
  <2>1. CASE j = Len(stack)
    BY <2>1 DEF Running, Top
  <2>2. CASE j # Len(stack)
    <3>1. j \in Nat /\ j + 1 \in 1..Len(stack) /\ j + 1 \in c + 1..Len(stack)
          /\ j + 1 > 1 /\ (j + 1) - 1 = j
      BY <2>2, StackFacts
    <3>2. stack[j].kind = "native" => stack[j + 1].kind = "block"
      BY <3>1, StackFacts DEF SignalInv, Placed
    <3> QED
      BY <1>1, <3>1, <3>2 DEF Owners
  <2> QED
    BY <2>1, <2>2
<1> QED
  BY <1>1, <1>3, <1>4, <1>5 DEF Owners

LEMMA YieldSignals ==
  ASSUME TypeOK, SignalInv, Composes(uses), Yield
  PROVE  SignalInv'
<1> DEFINE b == block_arg[Top.def]
           n == Len(stack)
<1>1. /\ uses' = uses /\ block_arg' = block_arg /\ Running /\ CallBlock(b)
      /\ b # NoBlock /\ Top.def # TopEnv /\ OnStack(Top.def) /\ "yield" \in uses
      /\ InBlockText => "relay" \in uses
  BY DEF Yield, Uses
<1>2. PICK i \in 1..n : stack[i].kind = "call" /\ stack[i].def = Top.def
  BY <1>1 DEF OnStack
<1>3. /\ b.obj \in {"proc", "lambda"} => b.obj \in uses
      /\ b.obj = "proc" => b.home = 0
  <2>1. Made(stack[i], uses, block_arg)
    BY <1>2, StackFacts DEF SignalInv, Placed
  <2> QED
    BY <1>2, <2>1 DEF Made
<1>4. ASSUME "relay" \notin uses
      PROVE  \E c \in 1..n : /\ stack[c].kind = "call" /\ stack[c].blk = b
                             /\ \A j \in c + 1..n : stack[j].kind \notin
                                  {"call", "block", "native", "program", "exited"}
  <2>1. PICK c \in 1..n : /\ stack[c].kind = "call" /\ stack[c].def = Top.def
                          /\ \A j \in c + 1..n : stack[j].kind \notin
                               {"call", "block", "native", "program", "exited"}
    BY <1>1, <1>4, YieldOwner
  <2>2. Made(stack[c], uses, block_arg)
    BY StackFacts DEF SignalInv, Placed
  <2> QED
    BY <2>1, <2>2 DEF Made
<1>5. ASSUME "break" \in uses, b.obj = "block"
      PROVE  Aims(stack, n, b.home)
  <2>1. uses \cap {"function", "relay", "while", "for"} = {}
    BY <1>1, <1>5 DEF Composes
  <2>2. PICK c \in 1..n : /\ stack[c].kind = "call" /\ stack[c].blk = b
                          /\ \A j \in c + 1..n : stack[j].kind \notin
                               {"call", "block", "native", "program", "exited"}
    BY <1>4, <2>1
  <2>3. Made(stack[c], uses, block_arg) /\ BreaksAim(stack, c) /\ stack[c] \in Activations
    BY <1>5, StackFacts DEF SignalInv, Placed
  <2>4. stack[c].via = "method" /\ b.home = c
    <3>1. stack[c].via \in {"method", "function"}
      BY <2>2, <2>3, KindTells DEF CallActs
    <3> QED
      BY <1>5, <2>1, <2>2, <2>3, <3>1 DEF Made, BreaksAim
  <2>5. Catches(stack[c]) /\ Home(stack[c], c) = c
    BY <1>1, <2>2, <2>4 DEF Catches, Home
  <2>6. ASSUME NEW j \in c + 1..n
        PROVE  ~Catches(stack[j])
    <3>1. Made(stack[j], uses, block_arg)
      BY StackFacts DEF SignalInv, Placed
    <3> QED
      BY <2>1, <2>2, <3>1 DEF Made, Catches
  <2> QED
    BY <2>4, <2>5, <2>6 DEF Aims
<1>6. ASSUME Tracked(uses), b.obj # "lambda"
      PROVE  Arrives(stack, n, b.def)
  <2>1. "relay" \notin uses /\ "proc" \notin uses
    BY <1>6 DEF Composes, Tracked
  <2>2. PICK c \in 1..n : /\ stack[c].kind = "call" /\ stack[c].blk = b
                          /\ \A j \in c + 1..n : stack[j].kind \notin
                               {"call", "block", "native", "program", "exited"}
    BY <1>4, <2>1
  <2>3. ReturnsArrive(stack, c) /\ stack[c] \in Activations
    BY <1>6, StackFacts DEF SignalInv, Placed
  <2>4. b.obj = "block"
    <3>1. b \in BlockValues
      BY <1>1, <2>2, <2>3, KindTells DEF CallActs
    <3> QED
      BY <1>3, <1>6, <2>1, <3>1 DEF BlockValues
  <2>5. Arrives(stack, c, b.def)
    BY <2>2, <2>3, <2>4 DEF ReturnsArrive
  <2>6. \A j \in c + 1..n : ~Lambda(stack[j])
    BY <2>2 DEF Lambda
  <2> SUFFICES ASSUME NEW k \in 1..n, Lambda(stack[k]), stack[k].def # b.def
               PROVE  \E j \in k + 1..n : Lands(stack[j], b.def)
    BY DEF Arrives
  <2>7. k \in 1..c
    BY <2>6, StackFacts
  <2>8. PICK j \in k + 1..c : Lands(stack[j], b.def)
    BY <2>5, <2>7 DEF Arrives
  <2> QED
    BY <2>8, StackFacts
<1> QED
  BY <1>1, <1>3, <1>5, <1>6, CallBlockSignals

LEMMA LeaveBlockSignals ==
  ASSUME TypeOK, SignalInv, Composes(uses), LeaveBlock
  PROVE  SignalInv'
<1>1. /\ uses' = uses /\ block_arg' = block_arg
      /\ Top.kind = "block" /\ Top \in BlockActs /\ Len(stack) # 1
  BY TopRecord, TopSignals DEF LeaveBlock
<1>2. CASE Orphan
  BY <1>1, <1>2, ValTravels, PopSignals DEF LeaveBlock
<1>3. CASE ~Orphan
  <2>1. Pop(BlockResult) /\ (BlockResult = Val \/ BlockResult = ret)
    BY <1>3 DEF LeaveBlock, BlockResult
  <2>2. BlockResult.k # "next"
    BY TopSignals DEF BlockResult
  <2>3. BlockResult.k = "break" => ~Catches(Top)
    BY <1>1, <1>3, TopSignals DEF BlockResult, Orphan, Catches
  <2>4. BlockResult.k = "return" /\ Tracked(uses) => ~Lands(Top, BlockResult.target)
    BY <1>1, TopSignals DEF BlockResult, Lands, Lambda
  <2>5. Travels(stack, Len(stack), BlockResult, uses)
    BY <2>1, TopSignals, ValTravels
  <2>6. Travels(stack, Len(stack) - 1, BlockResult, uses)
    BY <2>3, <2>4, <2>5, PassTravels
  <2> QED
    BY <1>1, <2>1, <2>2, <2>6, PopSignals
<1> QED
  BY <1>2, <1>3

LEMMA EnterCallSignals ==
  ASSUME TypeOK, SignalInv, Composes(uses), EnterCall
  PROVE  SignalInv'
<1> DEFINE d == Len(block_arg) + 1
           n == Len(stack)
<1>1. PICK via \in {"method", "function"} \cap uses, b \in BlockArgs :
        IF exn # Nil THEN ret' = Exc /\ UNCHANGED << stack, registers >>
        ELSE Push(CallAct(via, b)) /\ block_arg' = Append(block_arg, b)
  BY DEF EnterCall
<1>2. uses' = uses /\ Running
  BY DEF EnterCall
<1>3. CASE exn # Nil
  BY <1>1, <1>2, <1>3, ValTravels, StaySignals DEF registers
<1>4. CASE exn = Nil
  <2> DEFINE a == CallAct(via, b)
  <2>1. /\ a.kind = "call" /\ a.def = d /\ a.blk = b /\ a.via = via
        /\ a.jumps = {"return"}
    BY DEF CallAct
  <2>2. /\ b # NoBlock => "yield" \in uses
        /\ b.obj \in {"proc", "lambda"} => b.obj \in uses
        /\ b.obj = "proc" => b.home = 0
        /\ b.obj = "block" => b.home = n + 1 /\ b.def = Top.def
    BY DEF BlockArgs, NoBlock, Literal, Procs, Block, Uses
  <2>3. Push(a)
    BY <1>1, <1>4
  <2> HIDE DEF a
  <2>4. SameBelow(n) /\ stack'[n + 1] = a
    BY <2>3, Pushed
  <2>5. /\ Len(block_arg') = d /\ block_arg'[d] = b
        /\ \A e \in 1..Len(block_arg) : block_arg'[e] = block_arg[e]
    <3>1. block_arg \in Seq(BlockValues \cup {NoBlock} \cup {b})
      BY SeqMonotonic DEF TypeOK
    <3> QED
      BY <1>1, <1>4, <3>1, AppendProperties
  <2>6. d \in Nat /\ Len(block_arg) <= d /\ d \in 1..d
    BY StackFacts
  <2>7. ArgsStay
    BY <2>5, <2>6 DEF ArgsStay
  <2>8. Made(a, uses, block_arg')
    BY <2>1, <2>2, <2>5, <2>6 DEF Made
  <2>9. Top.kind # "native" /\ a.kind # "native" /\ a.kind \in Owners /\ ~Lambda(a)
    BY <1>2, <2>1 DEF Running, Owners, Lambda
  <2>10. Lands(a, a.def)
    BY <2>1 DEF Lands
  <2>11. Tracked(uses) => Arrives(stack, n, Top.def)
    BY TopSignals DEF Placed, ReturnsArrive
  <2>12. Placed(stack', n + 1, uses, block_arg')
    BY <2>1, <2>2, <2>4, <2>8, <2>9, <2>10, <2>11, PlacedAbove
  <2> QED
    BY <1>2, <2>3, <2>7, <2>9, <2>12, PushSignals
<1> QED
  BY <1>3, <1>4

LEMMA LeaveCallSignals ==
  ASSUME TypeOK, SignalInv, LeaveCall
  PROVE  SignalInv'
<1>1. /\ uses' = uses /\ block_arg' = block_arg
      /\ Top.kind = "call" /\ Len(stack) # 1 /\ Pop(CallResult)
      /\ CallResult = Val \/ CallResult = ret
  BY TopSignals DEF LeaveCall, CallResult
<1>2. CallResult.k = "break" => ~Catches(Top)
  BY <1>1, TopSignals DEF CallResult, Catches
<1>3. CallResult.k = "return" => ~Lands(Top, CallResult.target)
  BY <1>1, TopSignals DEF CallResult, Lands
<1>4. Travels(stack, Len(stack), CallResult, uses)
  BY <1>1, TopSignals, ValTravels
<1>5. Travels(stack, Len(stack) - 1, CallResult, uses)
  BY <1>2, <1>3, <1>4, PassTravels
<1> QED
  BY <1>1, <1>5, PopSignals

\* A built-in and the block it calls at once.
LEMMA EnterNativeSignals ==
  ASSUME TypeOK, SignalInv, Composes(uses), EnterNative
  PROVE  SignalInv'
<1> DEFINE n == Len(stack)
<1>1. PICK a \in Natives :
        IF exn # Nil THEN ret' = Exc /\ UNCHANGED << stack, frame_count >>
        ELSE stack' = stack \o << a, BlockAct(a.blk) >> /\ ret' = Val
  BY DEF EnterNative
<1>2. uses' = uses /\ block_arg' = block_arg /\ Running
  BY DEF EnterNative
<1>3. CASE exn # Nil
  BY <1>1, <1>2, <1>3, ValTravels, StaySignals
<1>4. CASE exn = Nil
  <2> DEFINE b == BlockAct(a.blk)
  <2>1. /\ a.kind = "native" /\ a.def = Top.def /\ a.op \in uses /\ a.blk.obj = "block"
        /\ a.blk.def = Top.def /\ a.blk.home = n + 1
    BY DEF Natives, NativeAct, Literal, Block
  <2>2. b.kind = "block" /\ b.def = Top.def /\ b.blk = a.blk /\ b.home = n + 1
    BY <2>1 DEF BlockAct
  <2>3. /\ Len(stack') = n + 2 /\ SameBelow(n) /\ ret' = Val
        /\ stack'[n + 1] = a /\ stack'[n + 2] = b
    BY <1>1, <1>4, NativePushed
  <2> HIDE DEF b
  <2>4. Top.kind # "native" /\ ~Lambda(a) /\ ~Lambda(b)
    BY <1>2, <2>1, <2>2 DEF Running, Lambda
  <2>5. Tracked(uses) => Arrives(stack, n, Top.def)
    BY TopSignals DEF Placed, ReturnsArrive
  <2>6. Made(a, uses, block_arg) /\ Made(b, uses, block_arg)
    BY <2>1, <2>2 DEF Made
  <2>7. Placed(stack', n + 1, uses, block_arg)
    BY <2>1, <2>3, <2>4, <2>5, <2>6, PlacedAbove
  <2>8. Placed(stack', n + 2, uses, block_arg)
    <3>1. n + 2 \in Nat \ {0} /\ n + 1 \in Nat \ {0} /\ (n + 2) - 1 = n + 1 /\ (n + 1) - 1 = n
          /\ n + 2 \in 1..n + 2
      BY StackFacts
    <3>2. Owned(stack', n + 2)
      BY <2>2, <2>3, <3>1 DEF Owned, Owners
    <3>3. Aims(stack', n + 1, n + 1)
      <4>1. Catches(a) /\ Home(a, n + 1) = n + 1
        BY <2>1 DEF Catches, Home
      <4> QED
        BY <2>3, <3>1, <4>1, AimsHere
    <3>4. BreaksAim(stack', n + 2)
      BY <2>1, <2>2, <2>3, <2>4, <3>1, <3>3 DEF BreaksAim
    <3>5. Tracked(uses) => Arrives(stack', n + 2, Top.def)
      <4>1. Arrives(stack, n, Top.def) => Arrives(stack', n, Top.def)
        BY <2>3, StackFacts, WayStays
      <4>2. Arrives(stack', n, Top.def) => Arrives(stack', n + 1, Top.def)
        BY <2>3, <2>4, <3>1, ArrivesPast
      <4>3. Arrives(stack', n + 1, Top.def) => Arrives(stack', n + 2, Top.def)
        BY <2>3, <2>4, <3>1, ArrivesPast
      <4> QED
        BY <2>5, <4>1, <4>2, <4>3
    <3>6. Tracked(uses) => ReturnsArrive(stack', n + 2)
      BY <2>2, <2>3, <3>5 DEF ReturnsArrive
    <3> QED
      BY <2>2, <2>3, <2>6, <3>2, <3>4, <3>6 DEF Placed
  <2>9. \A i \in n + 1..Len(stack') : i \in {n + 1, n + 2}
    BY <2>3, StackFacts
  <2>10. Len(stack') \in Nat /\ n <= Len(stack') /\ n <= n
    BY <2>3, StackFacts
  <2>11. \A i \in n + 1..Len(stack') : Placed(stack', i, uses, block_arg')
    BY <1>2, <2>7, <2>8, <2>9
  <2>12. Travels(stack', Len(stack'), ret', uses) /\ ret'.k # "next"
    BY <2>3, ValTravels
  <2> QED
    BY <1>2, <2>3, <2>10, <2>11, <2>12, StackFacts, SameArgs, SignalsKept
<1> QED
  BY <1>3, <1>4

LEMMA NativeSignals ==
  ASSUME TypeOK, SignalInv, Composes(uses), NativeAgain \/ NativeLeave \/ LoopStops
  PROVE  SignalInv'
<1>1. /\ uses' = uses /\ block_arg' = block_arg /\ Top.kind = "native"
      /\ Top \in NativeActs /\ Len(stack) # 1
  BY TopRecord, TopSignals DEF NativeAgain, NativeLeave, LoopStops, registers
<1>2. Catches(Top) /\ Home(Top, Len(stack)) = Len(stack) /\ \A e : ~Lands(Top, e)
  BY <1>1 DEF Catches, Home, Lands, Lambda
<1>3. CASE NativeAgain
  <2>1. CallBlock(Top.blk) /\ Top.blk.obj = "block" /\ Top.blk.def = Top.def
    BY <1>1, <1>3, TopSignals DEF NativeAgain, Made
  <2>2. "break" \in uses => Top.blk.home = Len(stack)
    BY <1>1, <2>1, TopSignals DEF Placed, BreaksAim
  <2>3. Aims(stack, Len(stack), Len(stack))
    BY <1>2, StackFacts, TopSignals, AimsHere
  <2>4. Tracked(uses) => Arrives(stack, Len(stack), Top.def)
    BY TopSignals DEF Placed, ReturnsArrive
  <2> QED
    BY <1>1, <2>1, <2>2, <2>3, <2>4, CallBlockSignals
<1>4. CASE NativeLeave
  <2>1. Pop(NativeResult) /\ Top.op \in {"iter", "loop", "catch"} /\ Top.op \in uses
    BY <1>1, <1>4, TopSignals DEF NativeLeave, NativeActs, Made
  <2>2. (NativeResult = Val \/ NativeResult = ret) /\ NativeResult.k # "break"
    <3>1. ret.k = "break" => "break" \in uses
      BY TopSignals DEF Travels, JumpWords
    <3>2. Top.op = "catch" => "break" \notin uses
      BY <2>1 DEF Composes
    <3> QED
      BY <2>1, <3>1, <3>2, TopSignals DEF NativeResult
  <2>3. Travels(stack, Len(stack), NativeResult, uses)
    BY <2>2, TopSignals, ValTravels
  <2>4. Travels(stack, Len(stack) - 1, NativeResult, uses)
    BY <1>2, <2>2, <2>3, PassTravels
  <2> QED
    BY <1>1, <2>1, <2>4, PopSignals
<1>5. CASE LoopStops
  BY <1>1, <1>5, ValTravels, PopSignals DEF LoopStops
<1> QED
  BY <1>3, <1>4, <1>5

LEMMA SignalStep ==
  ASSUME TypeOK, SignalInv, Composes(uses), [Next]_vars
  PROVE  SignalInv'
<1>1. CASE UNCHANGED vars
  BY <1>1, TopSignals, StaySignals DEF vars, registers
<1>2. CASE Halted
  BY <1>1, <1>2 DEF Halted
<1> QED
  BY <1>1, <1>2, RaiseSignals, BeginSignals, LoopSignals, ExitSignals, FreeBlockSignals,
     YieldSignals, LeaveBlockSignals, EnterCallSignals, LeaveCallSignals,
     EnterNativeSignals, NativeSignals DEF Next

(***************************************************************************)
(* The property, from the invariant.                                       *)
(***************************************************************************)

Stops ==
  IsSignal(ret) /\ Top.kind \notin {"program", "exited"} =>
    IF Receives THEN ret' = Val
    ELSE \/ Pop(ret)
         \/ EnsureStarts
         \/ ret = Exc /\ exn' = Nil /\ ret' = Val
         \/ ret.k \in {"return", "break"} /\ ret' = Exc

\* The receivers of the signals the program uses.
LEMMA ReceivesWhen ==
  ASSUME TypeOK, SignalInv
  PROVE  /\ ret.k \in {"val", "exc", "return", "break", "next", "throw", "retry"}
         /\ ret.k \in JumpWords => ret.k \in uses
         /\ ret.k = "break" =>
              /\ ~Catches(Top) => ~Receives
              /\ Catches(Top) => ret.home = Home(Top, Len(stack))
         /\ ret.k = "return" /\ Tracked(uses) /\ Lambda(Top) => Top.def = ret.target
         /\ ret.k = "exc" => ~Receives
<1>1. ret.k \in {"val", "exc", "return", "break", "next", "throw", "retry"}
  BY DEF TypeOK, Results
<1>2. Travels(stack, Len(stack), ret, uses) /\ Top = stack[Len(stack)]
  BY TopSignals
<1>3. ret.k = "break" => /\ ~Catches(Top) => ret.home # Len(stack)
                         /\ Catches(Top) => ret.home = Home(Top, Len(stack))
  BY <1>2, StackFacts, AimsHere, AimsBelow DEF Travels
<1>4. ret.k = "return" /\ Tracked(uses) /\ Lambda(Top) => Top.def = ret.target
  BY <1>2, StackFacts, ArrivesPast DEF Travels
<1> QED
  BY <1>1, <1>2, <1>3, <1>4 DEF Receives, Travels

LEMMA BeginStops ==
  ASSUME TypeOK, SignalInv, Composes(uses), IsSignal(ret),
         Rescue \/ Retry \/ EnterElse \/ EnterEnsure \/ LeaveBegin \/ LeaveEnsure
  PROVE  Stops
<1>1. Top.kind = "begin" /\ Top \in BeginActs
  BY TopRecord DEF Rescue, Retry, EnterElse, EnterEnsure, LeaveBegin, LeaveEnsure, BodyOver
<1>2. ~Catches(Top) /\ ~InLoopBody
  BY <1>1 DEF Catches, InLoopBody
<1>3. Receives => ret.k = "retry" /\ Top.phase = "rescue"
  BY <1>1, <1>2, ReceivesWhen DEF Receives
<1>4. CASE Rescue
  BY <1>3, <1>4 DEF Rescue, Stops, Exc
<1>5. CASE Retry
  BY <1>1, <1>5 DEF Retry, Stops, Receives
<1>6. CASE EnterElse
  <2>1. Top.else /\ ret.k # "exc"
    BY <1>6 DEF EnterElse, TakesElse
  <2>2. "else" \in uses
    BY <1>1, <2>1, TopSignals DEF Made
  <2>3. uses \cap {"return", "break", "next", "retry", "throw"} = {}
    BY <2>2 DEF Composes
  <2> QED
    BY <2>1, <2>3, ReceivesWhen DEF IsSignal, JumpWords
<1>7. CASE EnterEnsure
  <2>1. ~Receives /\ Top.phase # "ensure"
    BY <1>3, <1>7 DEF EnterEnsure, BodyOver
  <2> DEFINE a == [Top EXCEPT !.phase = "ensure", !.result = ret, !.saved = exn,
                              !.handled = Nil, !.prev = Nil]
  <2>2. Replace(a) /\ a.phase = "ensure"
    BY <1>1, <1>7 DEF EnterEnsure, BeginActs
  <2> HIDE DEF a
  <2>3. Len(stack') = Len(stack) /\ stack'[Len(stack)] = a
    BY <2>2, ReplaceFacts
  <2> QED
    BY <1>1, <2>1, <2>2, <2>3 DEF Stops, EnsureStarts
<1>8. CASE LeaveBegin
  BY <1>3, <1>8 DEF LeaveBegin, BodyOver, Stops
<1>9. CASE LeaveEnsure
  BY <1>3, <1>9 DEF LeaveEnsure, Stops
<1> QED
  BY <1>4, <1>5, <1>6, <1>7, <1>8, <1>9

LEMMA LoopStopsSignals ==
  ASSUME TypeOK, SignalInv, Composes(uses), IsSignal(ret),
         WhileCond \/ WhileBody \/ ForBody \/ LeaveRope
  PROVE  Stops
<1>1. /\ Top.kind \in {"while", "for", "rope"} \cap uses
      /\ Top.kind = "for" => Top.phase = "body"
  BY TopSignals DEF Made, WhileCond, WhileBody, ForBody, LeaveRope
<1>2. Top.kind # "rope" /\ uses \cap {"retry", "throw"} = {}
  BY <1>1 DEF Composes
<1>3. ret.k \in {"exc", "return", "break", "next"}
  BY <1>2, ReceivesWhen DEF IsSignal, JumpWords
<1>4. CASE WhileCond
  <2>1. Pop(ret) /\ ~Catches(Top) /\ ~InLoopBody
    BY <1>4 DEF WhileCond, Catches, InLoopBody
  <2> QED
    BY <1>1, <1>3, <2>1, ReceivesWhen DEF Receives, Stops
<1>5. CASE WhileBody \/ ForBody
  <2>1. InLoopBody /\ Catches(Top) /\ Home(Top, Len(stack)) = Len(stack)
    BY <1>1, <1>5 DEF WhileBody, ForBody, InLoopBody, Catches, Home
  <2>2. Pop(LoopResult) \/ (~LoopLeaves /\ ret' = Val)
    BY <1>5 DEF WhileBody, ForBody
  <2>3. Receives <=> ret.k \in {"break", "next"}
    BY <1>1, <1>3, <2>1, ReceivesWhen DEF Receives
  <2> QED
    BY <1>3, <2>2, <2>3 DEF LoopResult, LoopLeaves, Pop, Stops
<1>6. CASE LeaveRope
  BY <1>2, <1>6 DEF LeaveRope
<1> QED
  BY <1>4, <1>5, <1>6

LEMMA BlockStops ==
  ASSUME TypeOK, SignalInv, Composes(uses), IsSignal(ret), LeaveBlock
  PROVE  Stops
<1>1. /\ Top.kind = "block" /\ Top.blk.obj \in {"block", "proc", "lambda"} /\ ~InLoopBody
      /\ Len(stack) # 0
      /\ Top.blk.obj \in {"proc", "lambda"} => Top.blk.obj \in uses
  BY TopRecord, TopSignals, StackFacts
     DEF LeaveBlock, BlockActs, BlockValues, InLoopBody, Made
<1>2. /\ Catches(Top) <=> Top.blk.obj \in {"proc", "lambda"}
      /\ Home(Top, Len(stack)) = IF Top.blk.obj = "proc" THEN 0 ELSE Len(stack)
      /\ Lambda(Top) <=> Top.blk.obj = "lambda"
  BY <1>1 DEF Catches, Home, Lambda
<1>3. CASE Orphan
  <2>1. ret' = Exc /\ ret.k \in {"return", "break"} /\ Top.blk.obj = "proc"
    BY <1>3 DEF LeaveBlock, Orphan, Pop
  <2>2. ~Receives
    BY <1>1, <1>2, <2>1, ReceivesWhen DEF Receives
  <2> QED
    BY <2>1, <2>2 DEF Stops
<1>4. CASE ~Orphan
  <2>1. Pop(BlockResult) /\ (ret.k = "break" => Top.blk.obj # "proc")
    BY <1>1, <1>4 DEF LeaveBlock, Orphan
  <2>2. CASE ret.k = "next" \/ (Top.blk.obj = "lambda" /\ ret.k \in {"return", "break"})
    <3>1. ret' = Val
      BY <2>1, <2>2 DEF BlockResult, Pop
    <3>2. ret.k = "return" => Tracked(uses)
      BY <1>1, <2>2, ReceivesWhen DEF Tracked, JumpWords
    <3>3. Receives
      BY <1>1, <1>2, <2>2, <3>2, ReceivesWhen DEF Receives
    <3> QED
      BY <3>1, <3>3 DEF Stops
  <2>3. CASE ret.k # "next" /\ ~(Top.blk.obj = "lambda" /\ ret.k \in {"return", "break"})
    <3>1. Pop(ret)
      BY <2>1, <2>3 DEF BlockResult
    <3>2. ~Receives
      BY <1>1, <1>2, <2>1, <2>3, ReceivesWhen DEF Receives
    <3> QED
      BY <3>1, <3>2 DEF Stops
  <2> QED
    BY <2>2, <2>3
<1> QED
  BY <1>3, <1>4

LEMMA CallStops ==
  ASSUME TypeOK, SignalInv, IsSignal(ret), LeaveCall
  PROVE  Stops
<1>1. Top.kind = "call" /\ Pop(CallResult) /\ ~InLoopBody
  BY DEF LeaveCall, InLoopBody
<1>2. /\ Catches(Top) <=> Top.blk # NoBlock /\ Top.via = "method"
      /\ Home(Top, Len(stack)) = Len(stack)
  BY <1>1 DEF Catches, Home
<1>3. Receives <=> \/ ret.k = "return" /\ ret.target = Top.def
                   \/ ret.k = "break" /\ Top.blk # NoBlock /\ Top.via = "method"
  BY <1>1, <1>2, ReceivesWhen DEF Receives
<1> QED
  BY <1>1, <1>3 DEF CallResult, Pop, Stops

LEMMA NativeStops ==
  ASSUME TypeOK, SignalInv, Composes(uses), IsSignal(ret),
         NativeAgain \/ NativeLeave \/ LoopStops
  PROVE  Stops
<1>1. /\ Top.kind = "native" /\ Top.op \in {"iter", "loop", "catch"} /\ Top.op \in uses
      /\ ~InLoopBody /\ Catches(Top) /\ Home(Top, Len(stack)) = Len(stack)
      /\ ret.k # "next"
  BY TopRecord, TopSignals
     DEF NativeAgain, NativeLeave, LoopStops, NativeActs, Made, InLoopBody, Catches, Home
<1>2. /\ Top.op = "iter" => ret.k # "retry"
      /\ Top.op = "loop" => ret.k \notin {"retry", "throw"}
      /\ Top.op = "catch" => ret.k # "break"
  BY <1>1, ReceivesWhen DEF Composes, JumpWords
<1>3. Receives <=> \/ ret.k = "break"
                   \/ ret.k = "throw" /\ Top.op = "catch" /\ Top.tag = ret.tag
  BY <1>1, ReceivesWhen DEF Receives
<1>4. CASE NativeAgain
  BY <1>1, <1>2, <1>4 DEF NativeAgain, GoesOn, IsSignal
<1>5. CASE NativeLeave
  <2>1. Pop(NativeResult)
    BY <1>5 DEF NativeLeave
  <2>2. CASE Top.op = "iter"
    BY <1>1, <1>2, <1>3, <2>1, <2>2, ReceivesWhen DEF NativeResult, Pop, Stops, IsSignal
  <2>3. CASE Top.op = "loop"
    BY <1>1, <1>2, <1>3, <2>1, <2>3 DEF NativeResult, Pop, Stops
  <2>4. CASE Top.op = "catch"
    BY <1>1, <1>2, <1>3, <2>1, <2>4 DEF NativeResult, Pop, Stops
  <2> QED
    BY <1>1, <2>2, <2>3, <2>4
<1>6. CASE LoopStops
  BY <1>3, <1>6 DEF LoopStops, Pop, Stops, Exc
<1> QED
  BY <1>4, <1>5, <1>6

LEMMA NextStops ==
  ASSUME TypeOK, SignalInv, Composes(uses), Next
  PROVE  Stops \/ UNCHANGED vars
<1>1. CASE ~IsSignal(ret) \/ Top.kind \in {"program", "exited"}
  BY <1>1 DEF Stops
<1>2. CASE IsSignal(ret) /\ Top.kind \notin {"program", "exited"}
  <2>1. ~Running /\ ~Exit
    BY <1>2 DEF Running, IsSignal, Val, Exit
  <2>2. ~(Raise \/ Reraise \/ Throw \/ Jump \/ EnterBegin \/ EnterLoop \/ EnterRope)
    BY <2>1 DEF Raise, Reraise, Throw, Jump, EnterBegin, EnterLoop, EnterRope
  <2>3. ~(CallProc \/ CallEscaped \/ Yield \/ EnterCall \/ EnterNative)
    BY <2>1 DEF CallProc, CallEscaped, Yield, EnterCall, EnterNative
  <2>4. Halted => UNCHANGED vars
    BY DEF Halted
  <2> QED
    BY <1>2, <2>1, <2>2, <2>3, <2>4, BeginStops, LoopStopsSignals, BlockStops, CallStops,
       NativeStops DEF Next
<1> QED
  BY <1>1, <1>2

\* In every program over constructs that compose, a signal stops at the construct it is
\* meant for and nowhere else: a return at its method or lambda, a break at the call or
\* loop it was written on, a throw at its catch, through every begin, ensure body, loop,
\* block and iterator that lies between.
THEOREM SignalsStopWhereMeant ==
  ASSUME \A p \in Profiles : Composes(p)
  PROVE  Spec => SignalStopsAtItsReceiver
<1>1. Init => SignalInv
  <2> SUFFICES ASSUME Init
               PROVE  SignalInv
    OBVIOUS
  <2>1. /\ Len(stack) = 1 /\ stack[1] = Program /\ ret = Val /\ Top = Program
        /\ Indices = {1}
    BY DEF Init, Indices, Top
  <2>2. /\ Program.kind = "program" /\ Program.def = TopEnv /\ Program.jumps = {}
        /\ ~Lambda(Program)
    BY DEF Program, Lambda
  <2>3. Made(Program, uses, block_arg) /\ Owned(stack, 1) /\ BreaksAim(stack, 1)
    BY <2>1, <2>2 DEF Made, Owned, Owners, BreaksAim
  <2>4. \A e : Arrives(stack, 1, e)
    BY <2>1, <2>2 DEF Arrives
  <2>5. Placed(stack, 1, uses, block_arg)
    BY <2>1, <2>2, <2>3, <2>4 DEF Placed, ReturnsArrive
  <2> QED
    BY <2>1, <2>2, <2>5, ValTravels DEF SignalInv
<1>2. TypeOK => Composes(uses)
  BY DEF TypeOK
<1>3. TypeOK /\ SignalInv /\ [Next]_vars => SignalInv'
  BY <1>2, SignalStep
<1>4. TypeOK /\ SignalInv /\ [Next]_vars => [Stops]_vars
  BY <1>2, NextStops
<1> QED
  BY <1>1, <1>3, <1>4, TypeCorrect, PTL DEF Spec, SignalStopsAtItsReceiver, Stops

=============================================================================
