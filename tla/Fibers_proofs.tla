--------------------------- MODULE Fibers_proofs ---------------------------
(***************************************************************************)
(* Proofs about Fibers: current_fiber is right, every resumer waits, the    *)
(* contexts implement the coroutines of Coroutines.tla, and call_depth is   *)
(* exact.  All rest on one inductive invariant, SwitchInv, about who stands *)
(* where.                                                                   *)
(***************************************************************************)
EXTENDS Fibers, SequenceTheorems, FiniteSetTheorems, TLAPS

SwitchTypes ==
  /\ alive \in [Fibers -> BOOLEAN]
  /\ current \in Contexts /\ running \in Contexts \cup {Lost}
  /\ point \in [Contexts -> Points]
  /\ caller_ctx \in [Fibers -> Contexts \cup {Nothing}]
  /\ resume_args \in [Fibers -> Received] /\ result \in [Fibers -> Received]
  /\ got \in [Contexts -> Received]
  /\ program \in Programs

\* The running context is in code or just after a swapcontext; nobody else is
\* in code. Only Main was never made.
OneRuns ==
  /\ running \in Contexts
  /\ point[running].at \in {"code", "resume", "start", "yield"}
  /\ point[Main].at \in {"code", "resume"}
  /\ \A c \in Contexts : point[c].at = "code" => c = running
  /\ \A f \in Fibers : alive[f] <=> point[f].at \notin {"unmade", "ended"}

\* Who waits for whom, and what each will make of current_fiber.
Waits ==
  /\ \A f \in Fibers : ActiveFiber(f) =>
        /\ caller_ctx[f] \in Contexts
        /\ point[caller_ctx[f]].at = "resume" /\ point[caller_ctx[f]].of = f
  /\ \A c \in Contexts : point[c].at = "resume" => point[c].prev = c
  /\ Landed("resume") => ~ActiveFiber(point[running].of)
  /\ current = IF Landed("resume") THEN point[running].of ELSE running

SwitchInv == SwitchTypes /\ (running # Lost => OneRuns /\ Waits)

-----------------------------------------------------------------------------

LEMMA Distinct == Main \notin Fibers /\ Lost \notin Contexts /\ Main # Lost
BY FibersAssumption DEF Contexts, Lost

LEMMA PointsFacts ==
  /\ \A l \in {"unmade", "start", "code", "yield", "ended"} : At(l) \in Points
  /\ \A f \in Fibers, p \in Contexts : Waiting(f, p) \in Points
  /\ \A x \in Points : x.at \in {"unmade", "start", "code", "yield", "ended", "resume"}
  /\ \A x \in Points : x.at = "resume" => x.of \in Fibers /\ x.prev \in Contexts
  /\ \A x \in Points : x.at # "resume" => x = At(x.at)
BY DEF Points, At, Waiting

LEMMA ValuesReceived ==
  ASSUME SwitchTypes, NEW v \in program.values PROVE v \in Received
BY FibersAssumption DEF SwitchTypes, ProgramKinds, Received

\* The running context is in code: who is active and who is current.
LEMMA CodeFacts ==
  ASSUME SwitchInv, Coding
  PROVE /\ running \in Contexts /\ point[running].at = "code"
        /\ OneRuns /\ Waits
        /\ current = running
        /\ \A l \in {"start", "yield", "resume"} : ~Landed(l)
        /\ running \in Fibers => ActiveFiber(running) /\ alive[running]
BY DEF SwitchInv, Coding, OneRuns, Waits, Landed, At, ActiveFiber, Standing

LEMMA InitInv == Init => SwitchInv
<1>1. SUFFICES ASSUME Init PROVE SwitchInv
  OBVIOUS
<1>2. SwitchTypes
  BY <1>1, PointsFacts DEF Init, SwitchTypes, Contexts, Received
<1>3. OneRuns
  BY <1>1, Distinct DEF Init, OneRuns, Contexts, At
<1>4. Waits
  BY <1>1, Distinct DEF Init, Waits, Contexts, At, Landed, ActiveFiber
<1> QED
  BY <1>2, <1>3, <1>4 DEF SwitchInv

LEMMA NewInv ==
  ASSUME SwitchInv, New
  PROVE  SwitchInv' /\ \A g \in Fibers : ActiveFiber(g)' <=> ActiveFiber(g)
<1>1. PICK f \in Fibers :
        /\ point[f] = At("unmade")
        /\ point' = [point EXCEPT ![f] = At("start")]
        /\ alive' = [alive EXCEPT ![f] = TRUE]
  BY DEF New
<1>2. UNCHANGED << current, running, caller_ctx, resume_args, result, got, program >>
  BY DEF New
<1>3. Coding
  BY DEF New, Calling
<1>4. SwitchTypes'
  BY <1>1, <1>2, PointsFacts DEF SwitchInv, SwitchTypes
<1>5. f # running /\ f # Main /\ f \in Contexts
  BY <1>1, <1>3, CodeFacts, Distinct DEF At, Contexts
<1>6. OneRuns'
  BY <1>1, <1>2, <1>3, <1>5, CodeFacts DEF OneRuns, SwitchInv, SwitchTypes, At
<1>7. \A g \in Fibers : ActiveFiber(g)' <=> ActiveFiber(g)
  BY <1>1, <1>2, <1>3, <1>5, CodeFacts DEF OneRuns, ActiveFiber, Standing, SwitchInv, SwitchTypes, At, Contexts
<1>8. Waits'
  BY <1>1, <1>2, <1>3, <1>5, <1>7, CodeFacts DEF Waits, Landed, SwitchInv, SwitchTypes, At
<1> QED
  BY <1>4, <1>6, <1>7, <1>8 DEF SwitchInv

\* What resume makes of the contexts: one fiber more is active.
LEMMA ResumeInv ==
  ASSUME SwitchInv, Calling, NEW f \in Fibers, NEW v \in program.values,
         alive[f], Standing(f),
         resume_args' = [resume_args EXCEPT ![f] = v],
         point' = [point EXCEPT ![running] = Waiting(f, current)],
         current' = f,
         caller_ctx' = [caller_ctx EXCEPT ![f] = running],
         running' = f,
         UNCHANGED << alive, result, got, program >>
  PROVE  /\ SwitchInv'
         /\ f # running /\ ~ActiveFiber(f)
         /\ \A g \in Fibers : ActiveFiber(g)' <=> g = f \/ ActiveFiber(g)
<1>1. Coding
  BY DEF Calling
<1>2. f # running /\ ~ActiveFiber(f) /\ f \in Contexts
  BY <1>1, CodeFacts DEF Standing, ActiveFiber, Contexts
<1>3. SwitchTypes'
  BY <1>1, PointsFacts, ValuesReceived, CodeFacts
  DEF SwitchInv, SwitchTypes, Contexts
<1>4. /\ point'[running].at = "resume" /\ point'[running].of = f
      /\ point'[running].prev = running
      /\ \A c \in Contexts \ {running} : point'[c] = point[c]
  BY <1>1, CodeFacts DEF SwitchInv, SwitchTypes, Waiting
<1>5. \A g \in Fibers : ActiveFiber(g)' <=> g = f \/ ActiveFiber(g)
  BY <1>1, <1>2, <1>4, CodeFacts DEF ActiveFiber, Standing, Contexts
<1>6. OneRuns'
  BY <1>1, <1>2, <1>4, CodeFacts, Distinct DEF OneRuns, Standing, Contexts
<1>7. Waits'
  <2>1. \A g \in Fibers : ActiveFiber(g)' =>
          /\ caller_ctx'[g] \in Contexts
          /\ point'[caller_ctx'[g]].at = "resume" /\ point'[caller_ctx'[g]].of = g
    BY <1>1, <1>2, <1>4, <1>5, CodeFacts DEF Waits, SwitchInv, SwitchTypes
  <2>2. \A c \in Contexts : point'[c].at = "resume" => point'[c].prev = c
    BY <1>1, <1>4, CodeFacts DEF Waits
  <2>3. ~Landed("resume")'
    BY <1>2, <1>4 DEF Landed, Standing
  <2> QED
    BY <2>1, <2>2, <2>3 DEF Waits, ActiveFiber
<1> QED
  BY <1>2, <1>3, <1>5, <1>6, <1>7 DEF SwitchInv

\* Giving control back, by Fiber.yield or at the end: one fiber less is active.
LEMMA GiveBackInv ==
  ASSUME SwitchInv, Coding, running \in Fibers,
         NEW l \in {"yield", "ended"}, NEW v \in program.values,
         l = "yield" => alive' = alive,
         l = "ended" => alive' = [alive EXCEPT ![running] = FALSE],
         result' = [result EXCEPT ![running] = v],
         point' = [point EXCEPT ![running] = At(l)],
         running' = caller_ctx[running],
         UNCHANGED << current, caller_ctx, resume_args, got, program >>
  PROVE  /\ SwitchInv'
         /\ running' \in Contexts /\ point[running'] = point'[running']
         /\ point[running'].at = "resume" /\ point[running'].of = running
         /\ ActiveFiber(running)
         /\ \A g \in Fibers : ActiveFiber(g)' <=> g # running /\ ActiveFiber(g)
<1>1. /\ ActiveFiber(running) /\ running' \in Contexts /\ running' # running
      /\ point[running'].at = "resume" /\ point[running'].of = running
  BY CodeFacts DEF Waits
<1>2. /\ point'[running].at = l
      /\ \A c \in Contexts \ {running} : point'[c] = point[c]
      /\ \A g \in Fibers \ {running} : alive'[g] = alive[g]
      /\ l = "ended" => ~alive'[running]
      /\ l = "yield" => alive'[running]
  BY CodeFacts DEF SwitchInv, SwitchTypes, At
<1>3. SwitchTypes'
  BY <1>1, PointsFacts, ValuesReceived DEF SwitchInv, SwitchTypes
<1>4. \A g \in Fibers : ActiveFiber(g)' <=> g # running /\ ActiveFiber(g)
  BY <1>1, <1>2, CodeFacts DEF ActiveFiber, Standing, Contexts
<1>5. OneRuns'
  BY <1>1, <1>2, CodeFacts, Distinct DEF OneRuns, Contexts
<1>6. Waits'
  <2>1. \A g \in Fibers : ActiveFiber(g)' =>
          /\ caller_ctx'[g] \in Contexts
          /\ point'[caller_ctx'[g]].at = "resume" /\ point'[caller_ctx'[g]].of = g
    BY <1>2, <1>4, CodeFacts DEF Waits
  <2>2. \A c \in Contexts : point'[c].at = "resume" => point'[c].prev = c
    BY <1>2, CodeFacts DEF Waits
  <2>3. Landed("resume")' /\ point'[running'].of = running
    BY <1>1, <1>2, Distinct DEF Landed
  <2>4. current' = running
    BY CodeFacts
  <2> QED
    BY <1>4, <2>1, <2>2, <2>3, <2>4 DEF Waits, ActiveFiber, Standing
<1> QED
  BY <1>1, <1>2, <1>3, <1>4, <1>5, <1>6 DEF SwitchInv

\* After a swapcontext the fiber that stood there takes its arguments.
LEMMA TakeArgsInv ==
  ASSUME SwitchInv, running # Lost, point[running].at \in {"start", "yield"},
         got' = [got EXCEPT ![running] = resume_args[running]],
         point' = [point EXCEPT ![running] = At("code")],
         UNCHANGED << alive, current, running, caller_ctx, resume_args, result, program >>
  PROVE  /\ SwitchInv' /\ running \in Fibers /\ Coding'
         /\ \A g \in Fibers : ActiveFiber(g)' <=> ActiveFiber(g)
<1>1. running \in Fibers /\ OneRuns /\ Waits /\ alive[running] /\ current = running
  BY DEF SwitchInv, OneRuns, Waits, Contexts, Landed
<1>2. SwitchTypes'
  BY <1>1, PointsFacts DEF SwitchInv, SwitchTypes, Contexts
<1>3. /\ point'[running] = At("code") /\ point'[running].at = "code"
      /\ \A c \in Contexts \ {running} : point'[c] = point[c]
  BY <1>1 DEF SwitchInv, SwitchTypes, Contexts, At
<1>4. \A g \in Fibers : ActiveFiber(g)' <=> ActiveFiber(g)
  BY <1>1, <1>3 DEF ActiveFiber, Standing, Contexts
<1>5. OneRuns'
  BY <1>1, <1>3, Distinct DEF OneRuns, Contexts
<1>6. \A g \in Fibers : ActiveFiber(g)' =>
          /\ caller_ctx'[g] \in Contexts
          /\ point'[caller_ctx'[g]].at = "resume" /\ point'[caller_ctx'[g]].of = g
  BY <1>1, <1>3, <1>4 DEF Waits
<1>7. Waits'
  BY <1>1, <1>3, <1>6 DEF Waits, Landed
<1>8. Coding'
  BY <1>3 DEF Coding
<1> QED
  BY <1>1, <1>2, <1>4, <1>5, <1>7, <1>8 DEF SwitchInv

\* After its swapcontext resume makes its own context current again.
LEMMA AfterResumeInv ==
  ASSUME SwitchInv, AfterResume
  PROVE  /\ SwitchInv' /\ running \in Contexts /\ Coding'
         /\ \A g \in Fibers : ActiveFiber(g)' <=> ActiveFiber(g)
<1>1. /\ running # Lost /\ Landed("resume") /\ point[running].at = "resume"
      /\ current' = point[running].prev
      /\ got' = [got EXCEPT ![running] = result[point[running].of]]
      /\ point' = [point EXCEPT ![running] = At("code")]
      /\ UNCHANGED << alive, running, caller_ctx, resume_args, result, program >>
  BY DEF AfterResume, Landed
<1>2. /\ running \in Contexts /\ OneRuns /\ Waits
      /\ current' = running /\ point[running].of \in Fibers
      /\ ~ActiveFiber(point[running].of)
  BY <1>1, PointsFacts DEF SwitchInv, SwitchTypes, OneRuns, Waits
<1>3. SwitchTypes'
  BY <1>1, <1>2, PointsFacts DEF SwitchInv, SwitchTypes
<1>4. /\ point'[running] = At("code") /\ point'[running].at = "code"
      /\ \A c \in Contexts \ {running} : point'[c] = point[c]
  BY <1>1, <1>2 DEF SwitchInv, SwitchTypes, At
<1>5. \A g \in Fibers : ActiveFiber(g)' <=> ActiveFiber(g)
  BY <1>1, <1>2, <1>4 DEF ActiveFiber, Standing, Contexts
<1>6. OneRuns'
  BY <1>1, <1>2, <1>4, Distinct DEF OneRuns, Contexts
<1>7. \A g \in Fibers : ActiveFiber(g)' =>
          /\ caller_ctx'[g] \in Contexts
          /\ point'[caller_ctx'[g]].at = "resume" /\ point'[caller_ctx'[g]].of = g
  BY <1>1, <1>2, <1>4, <1>5 DEF Waits
<1>8. Waits'
  BY <1>1, <1>2, <1>4, <1>7 DEF Waits, Landed
<1>9. Coding'
  BY <1>1, <1>4 DEF Coding
<1> QED
  BY <1>2, <1>3, <1>5, <1>6, <1>8, <1>9 DEF SwitchInv

\* Steps after which everybody stands where they stood.
LEMMA StandInv ==
  ASSUME SwitchInv,
         UNCHANGED << alive, current, running, point, caller_ctx, resume_args, result, program >>,
         got' \in [Contexts -> Received]
  PROVE  SwitchInv' /\ \A g \in Fibers : ActiveFiber(g)' <=> ActiveFiber(g)
<1>1. \A g \in Fibers : ActiveFiber(g)' <=> ActiveFiber(g)
  BY DEF ActiveFiber, Standing
<1>2. SwitchTypes' /\ (OneRuns' <=> OneRuns)
  BY DEF SwitchInv, SwitchTypes, OneRuns
<1>3. Landed("resume")' <=> Landed("resume")
  BY DEF Landed
<1>4. running # Lost /\ Waits => Waits'
  <2>1. SUFFICES ASSUME running # Lost, Waits, SwitchTypes, OneRuns PROVE Waits'
    BY DEF SwitchInv
  <2>2. Landed("resume") => point[running].of \in Fibers
    BY <2>1, PointsFacts DEF Landed, SwitchTypes, OneRuns
  <2> QED
    BY <1>1, <1>3, <2>1, <2>2 DEF Waits
<1> QED
  BY <1>1, <1>2, <1>4 DEF SwitchInv

LEMMA LostInv ==
  ASSUME SwitchInv, ResumeInUse
  PROVE  SwitchInv' /\ \A g \in Fibers : ActiveFiber(g)' <=> ActiveFiber(g)
<1>1. Coding
  BY DEF ResumeInUse, Calling
<1>2. \A g \in Fibers : ActiveFiber(g)' <=> ActiveFiber(g)
  BY <1>1, CodeFacts, Distinct DEF ResumeInUse, ActiveFiber, Standing, Contexts
<1>3. SwitchInv'
  BY DEF ResumeInUse, SwitchInv, SwitchTypes
<1> QED
  BY <1>2, <1>3

-----------------------------------------------------------------------------
(* The invariant, and what it gives.                                       *)

\* Following the resumers of active fibers always leads to the main program.
Acyclic ==
  \A S \in SUBSET { f \in Fibers : ActiveFiber(f) } :
    S # {} => \E f \in S : caller_ctx[f] \notin S

\* No step but New and the first swapcontext of resume makes a fiber active.
LEMMA AcyclicShrinks ==
  ASSUME Acyclic,
         \A g \in Fibers : ActiveFiber(g)' => ActiveFiber(g),
         UNCHANGED caller_ctx
  PROVE  Acyclic'
BY DEF Acyclic

LEMMA AcyclicGrows ==
  ASSUME SwitchInv, Coding, Acyclic, NEW f \in Fibers, Standing(f), f # running,
         caller_ctx' = [caller_ctx EXCEPT ![f] = running],
         \A g \in Fibers : ActiveFiber(g)' <=> g = f \/ ActiveFiber(g)
  PROVE  Acyclic'
<1> SUFFICES ASSUME NEW S \in SUBSET { g \in Fibers : ActiveFiber(g)' }, S # {}
             PROVE  \E g \in S : caller_ctx'[g] \notin S
  BY DEF Acyclic
<1>1. /\ caller_ctx'[f] = running
      /\ \A g \in Fibers \ {f} : caller_ctx'[g] = caller_ctx[g]
  BY DEF SwitchInv, SwitchTypes
<1>2. CASE S \subseteq {f}
  BY <1>1, <1>2
<1>3. CASE ~(S \subseteq {f})
  <2>1. S \ {f} \in SUBSET { g \in Fibers : ActiveFiber(g) } /\ S \ {f} # {}
    BY <1>3
  <2>2. PICK g \in S \ {f} : caller_ctx[g] \notin S \ {f}
    BY <2>1 DEF Acyclic
  <2>3. g \in Fibers /\ ActiveFiber(g)
    BY <2>1
  <2>4. caller_ctx[g] # f
    BY <2>3, CodeFacts DEF Waits, Standing
  <2> QED
    BY <1>1, <2>2, <2>3, <2>4
<1> QED
  BY <1>2, <1>3

LEMMA StepInv ==
  ASSUME SwitchInv, Acyclic, [Next]_vars
  PROVE  SwitchInv' /\ Acyclic'
<1>1. CASE New
  BY <1>1, NewInv, AcyclicShrinks DEF New
<1>2. CASE Resume
  <2>1. PICK f \in Fibers, v \in program.values :
          /\ alive[f] /\ Standing(f)
          /\ resume_args' = [resume_args EXCEPT ![f] = v]
          /\ point' = [point EXCEPT ![running] = Waiting(f, current)]
          /\ current' = f
          /\ caller_ctx' = [caller_ctx EXCEPT ![f] = running]
          /\ running' = f
    BY <1>2 DEF Resume
  <2>2. Calling /\ UNCHANGED << alive, result, got, program >>
    BY <1>2 DEF Resume
  <2>3. /\ SwitchInv' /\ f # running
        /\ \A g \in Fibers : ActiveFiber(g)' <=> g = f \/ ActiveFiber(g)
    BY <2>1, <2>2, ResumeInv
  <2> QED
    BY <2>1, <2>2, <2>3, AcyclicGrows DEF Calling
<1>3. CASE ResumeInUse
  BY <1>3, LostInv, AcyclicShrinks DEF ResumeInUse
<1>4. CASE Refused
  <2>1. got' \in [Contexts -> Received]
    BY <1>4 DEF Refused, SwitchInv, SwitchTypes, Received
  <2> QED
    BY <1>4, <2>1, StandInv, AcyclicShrinks DEF Refused
<1>5. CASE Start \/ AfterYield
  <2>1. running # Lost /\ point[running].at \in {"start", "yield"}
    BY <1>5 DEF Start, AfterYield, Landed
  <2>2. /\ got' = [got EXCEPT ![running] = resume_args[running]]
        /\ point' = [point EXCEPT ![running] = At("code")]
        /\ UNCHANGED << alive, current, running, caller_ctx, resume_args, result, program >>
    BY <1>5 DEF Start, AfterYield
  <2> QED
    BY <2>1, <2>2, TakeArgsInv, AcyclicShrinks
<1>6. CASE Yield
  <2>1. Coding /\ current # Main
    BY <1>6 DEF Yield, Calling
  <2>2. running \in Fibers /\ current = running
    BY <2>1, CodeFacts DEF Contexts
  <2>3. PICK v \in program.values : result' = [result EXCEPT ![running] = v]
    BY <1>6, <2>2 DEF Yield
  <2>4. SwitchInv' /\ \A g \in Fibers : ActiveFiber(g)' <=> g # running /\ ActiveFiber(g)
    BY <1>6, <2>1, <2>2, <2>3, GiveBackInv DEF Yield
  <2> QED
    BY <1>6, <2>4, AcyclicShrinks DEF Yield
<1>7. CASE Finish
  <2>1. Coding /\ running \in Fibers
    BY <1>7 DEF Finish
  <2>2. PICK v \in program.values : result' = [result EXCEPT ![running] = v]
    BY <1>7 DEF Finish
  <2>3. SwitchInv' /\ \A g \in Fibers : ActiveFiber(g)' <=> g # running /\ ActiveFiber(g)
    BY <1>7, <2>1, <2>2, GiveBackInv DEF Finish
  <2> QED
    BY <1>7, <2>3, AcyclicShrinks DEF Finish
<1>8. CASE AfterResume
  BY <1>8, AfterResumeInv, AcyclicShrinks DEF AfterResume
<1>9. CASE UNCHANGED << switching, program >>
  <2>1. UNCHANGED << alive, current, running, point, caller_ctx, resume_args, result, program, got >>
    BY <1>9 DEF switching
  <2>2. got' \in [Contexts -> Received]
    BY <2>1 DEF SwitchInv, SwitchTypes
  <2> QED
    BY <2>1, <2>2, StandInv, AcyclicShrinks
<1>10. Evaluate \/ Halted \/ UNCHANGED vars => UNCHANGED << switching, program >>
  BY DEF Evaluate, Call, Return, Rescue, EndRescue, Halted, vars
<1> QED
  BY <1>1, <1>2, <1>3, <1>4, <1>5, <1>6, <1>7, <1>8, <1>9, <1>10 DEF Next, Switch

LEMMA Switching == Spec => [](SwitchInv /\ Acyclic)
<1>1. Init => Acyclic
  BY DEF Init, Acyclic, ActiveFiber
<1> QED
  BY <1>1, InitInv, StepInv, PTL DEF Spec

\* ev->current_fiber, which Fiber.current answers and Fiber.yield writes to, is
\* the context whose code runs, for any nesting of resumes.
THEOREM CurrentCorrect == Spec => []CurrentIsRunning
<1>1. SwitchInv => CurrentIsRunning
  BY CodeFacts DEF CurrentIsRunning
<1> QED
  BY <1>1, Switching, PTL

\* The first part of ResumersWait; unlike Waits it says something of a program
\* that has resumed a fiber in use.
HeadsWait ==
  \A f \in Fibers : ActiveFiber(f) =>
    point[caller_ctx[f]].at = "resume" /\ point[caller_ctx[f]].of = f

\* Whoever resumed a fiber waits for it until it gives control back, and no
\* fibers wait for each other in a circle, whatever the program resumes.
THEOREM ResumersCorrect == Spec => []ResumersWait
<1>1. Init => HeadsWait
  BY DEF Init, HeadsWait, ActiveFiber
<1>2. SwitchInv /\ running # Lost => HeadsWait
  BY DEF SwitchInv, Waits, HeadsWait
<1>3. HeadsWait /\ SwitchInv /\ SwitchInv' /\ [Next]_vars => HeadsWait'
  <2>1. SUFFICES ASSUME HeadsWait, SwitchInv, SwitchInv', [Next]_vars, running' = Lost
                 PROVE  HeadsWait'
    BY DEF SwitchInv, Waits, HeadsWait
  <2>2. CASE ResumeInUse
    BY <2>1, <2>2, LostInv DEF HeadsWait, ResumeInUse
  <2>3. CASE UNCHANGED switching
    BY <2>1, <2>3 DEF HeadsWait, ActiveFiber, Standing, switching
  <2>4. ~Resume
    BY <2>1, Distinct DEF Resume, Contexts
  <2>5. ~Yield /\ ~Finish
    <3>1. Coding /\ running \in Fibers => running \in Fibers /\ caller_ctx[running] # Lost
      BY <2>1, CodeFacts, Distinct DEF Waits
    <3>2. Yield => Coding /\ running \in Fibers /\ running' = caller_ctx[running]
      BY <2>1, CodeFacts DEF Yield, Calling, Contexts
    <3> QED
      BY <2>1, <3>1, <3>2 DEF Finish
  <2>6. ~New /\ ~Start /\ ~AfterYield /\ ~AfterResume
    BY <2>1 DEF New, Calling, Coding, Start, AfterYield, AfterResume, Landed
  <2>7. ~Refused
    BY <2>1 DEF Refused, Calling, Coding
  <2>8. Evaluate \/ Halted \/ UNCHANGED vars => UNCHANGED switching
    BY DEF Evaluate, Call, Return, Rescue, EndRescue, Halted, vars
  <2> QED
    BY <2>1, <2>2, <2>3, <2>4, <2>5, <2>6, <2>7, <2>8 DEF Next, Switch
<1>4. HeadsWait /\ Acyclic => ResumersWait
  BY DEF HeadsWait, Acyclic, ResumersWait
<1> QED
  BY <1>1, <1>3, <1>4, Switching, PTL DEF Spec

-----------------------------------------------------------------------------
(* Refinement: each step of the C code is one of Coroutines or a stutter.   *)

LEMMA PromiseInit == Init => Promise!Init
<1> SUFFICES ASSUME Init PROVE Promise!Init
  OBVIOUS
<1>1. /\ running = Main /\ point[Main] = At("code") /\ \A c \in Contexts : got[c] = Nothing
      /\ \A f \in Fibers : point[f].at = "unmade" /\ ~ActiveFiber(f)
  BY Distinct DEF Init, Contexts, At, ActiveFiber
<1>2. Status = [f \in Fibers |-> "unmade"]
  BY <1>1 DEF Status
<1>3. Resumer = [f \in Fibers |-> Nothing]
  BY <1>1 DEF Resumer
<1>4. Inbox = [c \in Fibers \cup {Main} |-> Nothing]
  BY <1>1 DEF Inbox, Landed, At, Contexts
<1> QED
  BY <1>1, <1>2, <1>3, <1>4 DEF Promise!Init, Promise!Nothing, Nothing

\* In code every value has arrived.
LEMMA CodeInbox == SwitchInv /\ Coding => Inbox = [c \in Contexts |-> got[c]]
BY CodeFacts DEF Inbox

LEMMA PromiseNew == SwitchInv /\ New => Promise!Next
<1> SUFFICES ASSUME SwitchInv, New PROVE Promise!Next
  OBVIOUS
<1>1. PICK f \in Fibers :
        /\ point[f] = At("unmade")
        /\ point' = [point EXCEPT ![f] = At("start")]
        /\ alive' = [alive EXCEPT ![f] = TRUE]
  BY DEF New
<1>2. Coding /\ UNCHANGED << running, caller_ctx, resume_args, result, got >>
  BY DEF New, Calling
<1>3. /\ f # running /\ point[f].at = "unmade" /\ point'[f].at = "start"
      /\ \A c \in Contexts \ {f} : point'[c] = point[c]
      /\ alive'[f] /\ \A g \in Fibers \ {f} : alive'[g] = alive[g]
      /\ ~alive[f] /\ running \in Contexts
  BY <1>1, <1>2, CodeFacts DEF At, SwitchInv, SwitchTypes, Contexts, OneRuns
<1>4. \A g \in Fibers : ActiveFiber(g)' <=> ActiveFiber(g)
  BY <1>2, <1>3 DEF ActiveFiber, Standing, Contexts
<1>5. ~ActiveFiber(f)
  BY <1>3 DEF ActiveFiber
<1>6. Status[f] = "unmade" /\ Status' = [Status EXCEPT ![f] = "suspended"]
  BY <1>3, <1>4, <1>5 DEF Status, Contexts
<1>7. Resumer' = Resumer
  BY <1>2, <1>4 DEF Resumer
<1>8. Inbox' = Inbox
  BY <1>2, <1>3 DEF Inbox, Landed
<1>9. Promise!New(f)
  BY <1>2, <1>6, <1>7, <1>8 DEF Promise!New, Promise!Lost, Coding, Lost
<1> QED
  BY <1>9 DEF Promise!Next

LEMMA PromiseResume == SwitchInv /\ Resume => Promise!Next
<1> SUFFICES ASSUME SwitchInv, Resume PROVE Promise!Next
  OBVIOUS
<1>1. PICK f \in Fibers, v \in program.values :
        /\ alive[f] /\ Standing(f)
        /\ resume_args' = [resume_args EXCEPT ![f] = v]
        /\ point' = [point EXCEPT ![running] = Waiting(f, current)]
        /\ current' = f
        /\ caller_ctx' = [caller_ctx EXCEPT ![f] = running]
        /\ running' = f
  BY DEF Resume
<1>2. Calling /\ Coding /\ UNCHANGED << alive, result, got, program >>
  BY DEF Resume, Calling
<1>3. /\ SwitchInv' /\ f # running /\ ~ActiveFiber(f)
      /\ \A g \in Fibers : ActiveFiber(g)' <=> g = f \/ ActiveFiber(g)
  BY <1>1, <1>2, ResumeInv
<1>4. /\ point'[running].at = "resume" /\ running \in Contexts
      /\ \A c \in Contexts \ {running} : point'[c] = point[c]
      /\ point[running].at = "code" /\ f \in Contexts
  BY <1>1, <1>2, CodeFacts DEF SwitchInv, SwitchTypes, Waiting, Contexts
<1>5. Status[f] = "suspended" /\ Status' = [Status EXCEPT ![f] = "active"]
  <2>1. point[f].at \notin {"unmade", "ended"} /\ point'[f].at \notin {"unmade", "ended"}
    BY <1>1, <1>3, <1>4 DEF Standing
  <2>2. \A g \in Fibers \ {f} :
          point'[g].at \in {"unmade", "ended"} => point'[g].at = point[g].at
    BY <1>4 DEF Contexts
  <2>3. \A g \in Fibers \ {f} :
          point[g].at \in {"unmade", "ended"} => point'[g].at = point[g].at
    BY <1>4 DEF Contexts
  <2> QED
    BY <1>3, <2>1, <2>2, <2>3 DEF Status
<1>6. Resumer' = [Resumer EXCEPT ![f] = running]
  BY <1>1, <1>3 DEF Resumer, SwitchInv, SwitchTypes
<1>7. Inbox' = [Inbox EXCEPT ![f] = v]
  <2>1. Landed("start")' \/ Landed("yield")'
    BY <1>1, <1>3, <1>4, Distinct DEF Landed, Standing
  <2>2. ~Landed("resume")'
    BY <2>1 DEF Landed
  <2>3. resume_args'[f] = v
    BY <1>1 DEF SwitchInv, SwitchTypes
  <2>4. Inbox' = [c \in Contexts |-> IF c = f THEN v ELSE got[c]]
    BY <1>1, <1>2, <2>1, <2>2, <2>3 DEF Inbox
  <2> QED
    BY <1>2, <2>4, CodeInbox
<1>8. v \in Values
  BY FibersAssumption DEF SwitchInv, SwitchTypes, ProgramKinds
<1>9. Promise!Resume(f, v)
  BY <1>1, <1>2, <1>5, <1>6, <1>7 DEF Promise!Resume, Promise!Lost, Coding, Lost
<1> QED
  BY <1>8, <1>9 DEF Promise!Next

\* Fiber.yield and the end of a block, as in GiveBackInv.
LEMMA PromiseGiveBack ==
  ASSUME SwitchInv, Coding, running \in Fibers,
         NEW l \in {"yield", "ended"}, NEW v \in program.values,
         l = "yield" => alive' = alive,
         l = "ended" => alive' = [alive EXCEPT ![running] = FALSE],
         result' = [result EXCEPT ![running] = v],
         point' = [point EXCEPT ![running] = At(l)],
         running' = caller_ctx[running],
         UNCHANGED << current, caller_ctx, resume_args, got, program >>
  PROVE  Promise!Next
<1> DEFINE next == IF l = "yield" THEN "suspended" ELSE "ended"
<1>1. /\ running' \in Contexts /\ ActiveFiber(running)
      /\ point[running'] = point'[running']
      /\ point[running'].at = "resume" /\ point[running'].of = running
      /\ \A g \in Fibers : ActiveFiber(g)' <=> g # running /\ ActiveFiber(g)
  BY GiveBackInv
<1>2. /\ point'[running].at = l
      /\ \A c \in Contexts \ {running} : point'[c] = point[c]
      /\ running \in Contexts /\ running # Lost
  BY CodeFacts, Distinct DEF SwitchInv, SwitchTypes, At
<1>3. Status' = [Status EXCEPT ![running] = next]
  BY <1>1, <1>2 DEF Status, Contexts
<1>4. Resumer' = [Resumer EXCEPT ![running] = Nothing] /\ running' = Resumer[running]
  BY <1>1 DEF Resumer
<1>5. Inbox' = [Inbox EXCEPT ![Resumer[running]] = v]
  <2>1. Landed("resume")' /\ point'[running'].of = running
    BY <1>1, Distinct DEF Landed
  <2>2. result'[running] = v
    BY DEF SwitchInv, SwitchTypes
  <2>3. ~Landed("start")' /\ ~Landed("yield")'
    BY <2>1 DEF Landed
  <2>4. Inbox' = [c \in Contexts |-> IF c = running' THEN v ELSE got[c]]
    BY <2>1, <2>2, <2>3 DEF Inbox
  <2> QED
    BY <1>4, <2>4, CodeInbox
<1>6. v \in Values /\ next \in {"suspended", "ended"}
  BY FibersAssumption DEF SwitchInv, SwitchTypes, ProgramKinds
<1>7. Promise!GiveBack(next, v)
  BY <1>3, <1>4, <1>5 DEF Promise!GiveBack, Promise!Nothing, Nothing
<1> QED
  BY <1>6, <1>7 DEF Promise!Next

LEMMA PromiseRefused == SwitchInv /\ Refused => Promise!Next
<1> SUFFICES ASSUME SwitchInv, Refused PROVE Promise!Next
  OBVIOUS
<1>1. /\ Coding /\ got' = [got EXCEPT ![running] = FiberError]
      /\ UNCHANGED << alive, current, running, point, caller_ctx, resume_args, result >>
      /\ current = Main \/ \E f \in Fibers : ~alive[f] /\ point[f] # At("unmade")
  BY DEF Refused, Calling
<1>2. running \in Contexts /\ current = running /\ OneRuns
  BY <1>1, CodeFacts
<1>3. running = Main \/ \E f \in Fibers : Status[f] = "ended"
  BY <1>1, <1>2, PointsFacts DEF OneRuns, Status, SwitchInv, SwitchTypes, Contexts
<1>4. Status' = Status /\ Resumer' = Resumer
  BY <1>1 DEF Status, Resumer, ActiveFiber, Standing
<1>5. Coding' /\ Inbox' = [c \in Contexts |-> got'[c]]
  BY <1>1, CodeFacts DEF Coding, Inbox, Landed
<1>6. Inbox' = [Inbox EXCEPT ![running] = FiberError]
  BY <1>1, <1>5, CodeInbox DEF SwitchInv, SwitchTypes
<1>7. Promise!Refused(running)
  BY <1>1, <1>3, <1>4, <1>6 DEF Promise!Refused, Promise!FiberError, FiberError
<1> QED
  BY <1>2, <1>7 DEF Promise!Next, Contexts

LEMMA PromiseMisuse == SwitchInv /\ ResumeInUse => Promise!Next
<1> SUFFICES ASSUME SwitchInv, ResumeInUse PROVE Promise!Next
  OBVIOUS
<1>1. PICK f \in Fibers : alive[f] /\ ~Standing(f)
  BY DEF ResumeInUse
<1>2. /\ Coding /\ running' = Lost
      /\ UNCHANGED << alive, current, point, caller_ctx, resume_args, result, got >>
  BY DEF ResumeInUse, Calling
<1>3. \A g \in Fibers : ActiveFiber(g)' <=> ActiveFiber(g)
  BY LostInv
<1>4. Status[f] = "active" /\ Status' = Status /\ Resumer' = Resumer
  BY <1>1, <1>2, <1>3, CodeFacts DEF Status, Resumer, OneRuns, ActiveFiber
<1>5. Inbox' = Inbox
  BY <1>2, CodeInbox, Distinct DEF Inbox, Landed
<1>6. Promise!Misuse(f)
  BY <1>2, <1>4, <1>5 DEF Promise!Misuse, Promise!Lost, Coding, Lost
<1> QED
  BY <1>6 DEF Promise!Next

\* The code after a swapcontext only fetches what has already arrived.
LEMMA PromiseFetch ==
  SwitchInv /\ (Start \/ AfterYield \/ AfterResume)
    => UNCHANGED << Status, Resumer, running, Inbox >>
<1> SUFFICES ASSUME SwitchInv, Start \/ AfterYield \/ AfterResume
             PROVE  UNCHANGED << Status, Resumer, running, Inbox >>
  OBVIOUS
<1>1. /\ running # Lost /\ point[running].at \in {"start", "yield", "resume"}
      /\ point' = [point EXCEPT ![running] = At("code")]
      /\ UNCHANGED << alive, running, caller_ctx, resume_args, result, program >>
  BY DEF Start, AfterYield, AfterResume, Landed
<1>2. running \in Contexts /\ Coding' /\ \A g \in Fibers : ActiveFiber(g)' <=> ActiveFiber(g)
  <2>1. CASE Start \/ AfterYield
    BY <2>1, TakeArgsInv DEF Start, AfterYield, Landed, Contexts
  <2>2. CASE AfterResume
    BY <2>2, AfterResumeInv
  <2> QED
    BY <2>1, <2>2
<1>3. /\ point'[running].at = "code"
      /\ \A c \in Contexts \ {running} : point'[c] = point[c]
  BY <1>1, <1>2 DEF SwitchInv, SwitchTypes, At
<1>4. Status' = Status /\ Resumer' = Resumer
  BY <1>1, <1>2, <1>3 DEF Status, Resumer, Contexts
<1>5. /\ ~Landed("start")' /\ ~Landed("yield")' /\ ~Landed("resume")'
      /\ Inbox' = [c \in Contexts |-> got'[c]]
  BY <1>3, <1>1 DEF Landed, Inbox
<1>6. Inbox = [c \in Contexts |-> got'[c]]
  <2>1. CASE Start \/ AfterYield
    <3>1. got' = [got EXCEPT ![running] = resume_args[running]]
      BY <2>1 DEF Start, AfterYield
    <3>2. Inbox[running] = resume_args[running]
      BY <1>2, <2>1 DEF Start, AfterYield, Landed, Inbox
    <3>3. \A c \in Contexts \ {running} : Inbox[c] = got[c]
      BY DEF Inbox
    <3> QED
      BY <1>2, <3>1, <3>2, <3>3 DEF Inbox, SwitchInv, SwitchTypes
  <2>2. CASE AfterResume
    <3>1. got' = [got EXCEPT ![running] = result[point[running].of]]
      BY <2>2 DEF AfterResume
    <3>2. Inbox[running] = result[point[running].of]
      BY <1>2, <2>2 DEF AfterResume, Inbox
    <3>3. \A c \in Contexts \ {running} : Inbox[c] = got[c]
      BY DEF Inbox
    <3> QED
      BY <1>2, <3>1, <3>2, <3>3 DEF Inbox, SwitchInv, SwitchTypes
  <2> QED
    BY <2>1, <2>2
<1> QED
  BY <1>1, <1>4, <1>5, <1>6

LEMMA PromiseStep ==
  ASSUME SwitchInv, [Next]_vars PROVE [Promise!Next]_(Promise!vars)
<1>1. CASE Yield
  <2>1. /\ Coding /\ running \in Fibers /\ current = running
    BY <1>1, CodeFacts DEF Yield, Calling, Contexts
  <2>2. PICK v \in program.values : result' = [result EXCEPT ![running] = v]
    BY <1>1, <2>1 DEF Yield
  <2> QED
    BY <1>1, <2>1, <2>2, PromiseGiveBack DEF Yield
<1>2. CASE Finish
  <2>1. PICK v \in program.values : result' = [result EXCEPT ![running] = v]
    BY <1>2 DEF Finish
  <2> QED
    BY <1>2, <2>1, PromiseGiveBack DEF Finish
<1>3. CASE Start \/ AfterYield \/ AfterResume
  BY <1>3, PromiseFetch DEF Promise!vars
<1>4. CASE Evaluate \/ Halted \/ UNCHANGED vars
  <2>1. UNCHANGED switching
    BY <1>4 DEF Evaluate, Call, Return, Rescue, EndRescue, Halted, vars
  <2>2. UNCHANGED << Status, Resumer, running, Inbox >>
    BY <2>1 DEF switching, Status, Resumer, Inbox, ActiveFiber, Standing, Landed
  <2> QED
    BY <2>2 DEF Promise!vars
<1> QED
  BY <1>1, <1>2, <1>3, <1>4, PromiseNew, PromiseResume, PromiseRefused, PromiseMisuse
  DEF Next, Switch

\* resume, Fiber.yield and the end of a block hand over control and values as
\* coroutines do, for any number of fibers and any values.
THEOREM FibersImplementCoroutines == Spec => ImplementsCoroutines
<1>1. SwitchInv /\ [Next]_vars => [Promise!Next]_(Promise!vars)
  BY PromiseStep
<1> QED
  BY <1>1, PromiseInit, Switching, PTL DEF Spec, ImplementsCoroutines, Promise!Spec

-----------------------------------------------------------------------------
(* The types of the shared registers.                                      *)

RegisterTypes ==
  /\ frames \in [Contexts -> Seq(Frames)]
  /\ call_depth \in Int /\ rescue_context \in Nat
  /\ active_defs \in Seq(Nat) /\ Len(active_defs) <= EvalMaxDepth
  /\ made \in [defs : Nat, exns : Nat]

LEMMA ShutFacts ==
  ASSUME NEW T, NEW s \in Seq(T), s # << >>
  PROVE  Shut(s) \in Seq(T) /\ Len(Shut(s)) = Len(s) - 1 /\ s[Len(s)] \in T
<1>1. Len(s) \in Nat \ {0}
  BY EmptySeq
<1>2. \A i \in 1..Len(s) : s[i] \in T
  BY ElementOfSeq
<1>3. PICK n \in Nat : n = Len(s) - 1
  BY <1>1
<1>4. \A i \in 1..n : s[i] \in T
  BY <1>1, <1>2, <1>3
<1>5. /\ SubSeq(s, 1, n) \in Seq(T)
      /\ Len(SubSeq(s, 1, n)) = IF 1 <= n THEN n - 1 + 1 ELSE 0
  BY <1>3, <1>4, SubSeqProperties
<1>6. Len(SubSeq(s, 1, n)) = n
  BY <1>5
<1>7. s[Len(s)] \in T
  BY <1>1, <1>2
<1> QED
  BY <1>3, <1>5, <1>6, <1>7 DEF Shut

LEMMA DefsStay ==
  ASSUME RegisterTypes
  PROVE  /\ \A d \in Nat : PushDef(d) \in Seq(Nat) /\ Len(PushDef(d)) <= EvalMaxDepth
         /\ PopDef \in Seq(Nat) /\ Len(PopDef) <= EvalMaxDepth
<1>1. active_defs \in Seq(Nat) /\ Len(active_defs) \in Nat /\ Len(active_defs) <= EvalMaxDepth
  BY DEF RegisterTypes
<1>2. EvalMaxDepth \in Nat
  BY FibersAssumption
<1>3. \A d \in Nat : PushDef(d) \in Seq(Nat) /\ Len(PushDef(d)) <= EvalMaxDepth
  BY <1>1, <1>2 DEF PushDef
<1>4. CASE Len(active_defs) > 0
  <2>1. active_defs # << >>
    BY <1>4
  <2>2. Shut(active_defs) \in Seq(Nat) /\ Len(Shut(active_defs)) = Len(active_defs) - 1
    BY <1>1, <2>1, ShutFacts
  <2>3. PopDef = Shut(active_defs)
    BY <1>4 DEF PopDef
  <2>4. Len(active_defs) - 1 <= EvalMaxDepth
    BY <1>1, <1>2
  <2> QED
    BY <1>3, <2>2, <2>3, <2>4
<1>5. CASE ~(Len(active_defs) > 0)
  BY <1>1, <1>3, <1>5 DEF PopDef
<1> QED
  BY <1>4, <1>5

\* RegisterTypes, inductive with SwitchInv.
LEMMA RegistersTyped == Spec => []RegisterTypes
<1>1. Init => RegisterTypes
  BY FibersAssumption DEF Init, RegisterTypes, TopEnv, Nil
<1>2. SwitchInv /\ RegisterTypes /\ [Next]_vars => RegisterTypes'
  <2> SUFFICES ASSUME SwitchInv, RegisterTypes, [Next]_vars PROVE RegisterTypes'
    OBVIOUS
  <2>1. CASE Call
    <3>1. running \in Contexts /\ made.defs + 1 \in Nat
      BY <2>1, CodeFacts DEF Call, Calling, RegisterTypes
    <3>2. [kind |-> "call", def |-> made.defs + 1] \in Frames
      BY <3>1 DEF Frames
    <3>3. frames' \in [Contexts -> Seq(Frames)]
      BY <2>1, <3>1, <3>2 DEF Call, RegisterTypes
    <3>4. active_defs' \in Seq(Nat) /\ Len(active_defs') <= EvalMaxDepth
      BY <2>1, <3>1, DefsStay DEF Call
    <3>5. call_depth' \in Int /\ rescue_context' = rescue_context
      BY <2>1 DEF Call, RegisterTypes
    <3>6. made' \in [defs : Nat, exns : Nat]
      BY <2>1, <3>1 DEF Call, RegisterTypes
    <3> QED
      BY <3>3, <3>4, <3>5, <3>6 DEF RegisterTypes
  <2>2. CASE Return
    <3>1. running \in Contexts
      BY <2>2, CodeFacts DEF Return
    <3>2. Shut(frames[running]) \in Seq(Frames)
      BY <2>2, <3>1, ShutFacts DEF Return, Open, RegisterTypes
    <3>3. frames' \in [Contexts -> Seq(Frames)]
      BY <2>2, <3>1, <3>2 DEF Return, RegisterTypes
    <3>4. active_defs' \in Seq(Nat) /\ Len(active_defs') <= EvalMaxDepth
      BY <2>2, DefsStay DEF Return
    <3>5. call_depth' \in Int /\ UNCHANGED << rescue_context, made >>
      BY <2>2 DEF Return, RegisterTypes
    <3> QED
      BY <3>3, <3>4, <3>5 DEF RegisterTypes
  <2>3. CASE Rescue
    <3>1. running \in Contexts /\ made.exns + 1 \in Nat /\ rescue_context \in Nat
      BY <2>3, CodeFacts DEF Rescue, RegisterTypes
    <3>2. [kind |-> "rescue", exn |-> made.exns + 1, prev |-> rescue_context] \in Frames
      BY <3>1 DEF Frames
    <3>3. frames' \in [Contexts -> Seq(Frames)]
      BY <2>3, <3>1, <3>2 DEF Rescue, RegisterTypes
    <3>4. rescue_context' \in Nat /\ UNCHANGED << call_depth, active_defs >>
      BY <2>3, <3>1 DEF Rescue, RegisterTypes
    <3>5. made' \in [defs : Nat, exns : Nat]
      BY <2>3, <3>1 DEF Rescue, RegisterTypes
    <3> QED
      BY <3>3, <3>4, <3>5 DEF RegisterTypes
  <2>4. CASE EndRescue
    <3>1. running \in Contexts
      BY <2>4, CodeFacts DEF EndRescue
    <3>2. Shut(Open) \in Seq(Frames) /\ Innermost \in Frames /\ Innermost.kind = "rescue"
      BY <2>4, <3>1, ShutFacts DEF EndRescue, Open, Innermost, RegisterTypes
    <3>3. Innermost.prev \in Nat
      BY <3>2 DEF Frames
    <3>4. frames' \in [Contexts -> Seq(Frames)]
      BY <2>4, <3>1, <3>2 DEF EndRescue, Open, RegisterTypes
    <3> QED
      BY <2>4, <3>3, <3>4 DEF EndRescue, RegisterTypes
  <2>5. CASE UNCHANGED registers
    BY <2>5 DEF registers, RegisterTypes
  <2>6. Switch \/ Halted \/ UNCHANGED vars => UNCHANGED registers
    BY DEF Switch, New, Resume, ResumeInUse, Refused, Start, Yield, AfterYield, Finish,
           AfterResume, Halted, vars
  <2> QED
    BY <2>1, <2>2, <2>3, <2>4, <2>5, <2>6 DEF Next, Evaluate
<1> QED
  BY <1>1, <1>2, Switching, PTL DEF Spec

\* Every variable has the type the code gives it, and active_defs never outgrows
\* its array, whatever the fibers do.
THEOREM FiberTypes == Spec => []TypeOK
<1>1. SwitchInv /\ RegisterTypes => TypeOK
  BY DEF SwitchInv, SwitchTypes, RegisterTypes, TypeOK
<1> QED
  BY <1>1, RegistersTyped, Switching, PTL

-----------------------------------------------------------------------------
(* call_depth counts the calls of all contexts.                            *)

OpenCalls ==
  { p \in Contexts \X (1..MaxNest) :
      /\ p[2] <= Len(frames[p[1]])
      /\ frames[p[1]][p[2]].kind = "call" }

DepthInv ==
  /\ \A c \in Contexts : Len(frames[c]) <= MaxNest
  /\ IsFiniteSet(OpenCalls) /\ call_depth = Cardinality(OpenCalls)

\* Opening a method or a rescue body adds the call it is, and closing one
\* removes it.
LEMMA OpensCalls ==
  ASSUME RegisterTypes, DepthInv, running \in Contexts, NEW x \in Frames, Room,
         frames' = [frames EXCEPT ![running] = Append(@, x)]
  PROVE  /\ \A c \in Contexts : Len(frames'[c]) <= MaxNest
         /\ x.kind # "call" => OpenCalls' = OpenCalls
         /\ x.kind = "call" =>
              /\ OpenCalls' = OpenCalls \cup {<< running, Len(Open) + 1 >>}
              /\ << running, Len(Open) + 1 >> \notin OpenCalls
<1> DEFINE n == Len(Open)
<1>1. n \in Nat /\ MaxNest \in Nat /\ n + 1 \in 1..MaxNest /\ Open \in Seq(Frames)
  BY FibersAssumption DEF RegisterTypes, Room, Open
<1>2. /\ Len(frames'[running]) = n + 1 /\ frames'[running][n + 1] = x
      /\ \A i \in 1..n : frames'[running][i] = Open[i]
      /\ \A c \in Contexts \ {running} : frames'[c] = frames[c]
  BY <1>1 DEF RegisterTypes, Open
<1>3. \A c \in Contexts : Len(frames'[c]) <= MaxNest
  BY <1>1, <1>2 DEF DepthInv
<1>4. \A i \in 1..MaxNest : i <= n + 1 => i = n + 1 \/ i \in 1..n
  BY <1>1
<1>5. ASSUME NEW c \in Contexts, NEW i \in 1..MaxNest
      PROVE  << c, i >> \in OpenCalls' <=>
               << c, i >> \in OpenCalls \/ (c = running /\ i = n + 1 /\ x.kind = "call")
  <2>1. /\ << c, i >> \in OpenCalls <=> i <= Len(frames[c]) /\ frames[c][i].kind = "call"
        /\ << c, i >> \in OpenCalls' <=> i <= Len(frames'[c]) /\ frames'[c][i].kind = "call"
    BY DEF OpenCalls
  <2>2. CASE c # running
    BY <1>2, <2>1, <2>2
  <2>3. CASE c = running /\ i = n + 1
    BY <1>1, <1>2, <2>1, <2>3 DEF Open
  <2>4. CASE c = running /\ i # n + 1
    <3>1. i <= n + 1 <=> i \in 1..n
      BY <1>1, <2>4
    <3>2. i <= n <=> i \in 1..n
      BY <1>1
    <3> QED
      BY <1>2, <2>1, <2>4, <3>1, <3>2 DEF Open
  <2> QED
    BY <2>2, <2>3, <2>4
<1>6. << running, n + 1 >> \notin OpenCalls
  BY <1>1 DEF OpenCalls, Open
<1>7. OpenCalls \subseteq Contexts \X (1..MaxNest) /\ OpenCalls' \subseteq Contexts \X (1..MaxNest)
  BY DEF OpenCalls
<1>8. << running, n + 1 >> \in Contexts \X (1..MaxNest)
  BY <1>1
<1>9. ASSUME NEW p \in Contexts \X (1..MaxNest)
      PROVE  p \in OpenCalls' <=>
               p \in OpenCalls \/ (p = << running, n + 1 >> /\ x.kind = "call")
  <2>1. PICK c \in Contexts, i \in 1..MaxNest : p = << c, i >>
    OBVIOUS
  <2>2. p = << running, n + 1 >> <=> c = running /\ i = n + 1
    BY <2>1
  <2> QED
    BY <1>5, <2>1, <2>2
<1>10. x.kind # "call" => OpenCalls' = OpenCalls
  BY <1>7, <1>9
<1>11. x.kind = "call" => OpenCalls' = OpenCalls \cup {<< running, n + 1 >>}
  BY <1>7, <1>8, <1>9
<1> QED
  BY <1>3, <1>6, <1>10, <1>11

LEMMA ClosesCalls ==
  ASSUME RegisterTypes, DepthInv, running \in Contexts, Open # << >>,
         frames' = [frames EXCEPT ![running] = Shut(@)]
  PROVE  /\ \A c \in Contexts : Len(frames'[c]) <= MaxNest
         /\ OpenCalls' = OpenCalls \ {<< running, Len(Open) >>}
         /\ << running, Len(Open) >> \in OpenCalls <=> Innermost.kind = "call"
<1> DEFINE n == Len(Open)
<1>1. n \in Nat \ {0} /\ MaxNest \in Nat /\ n \in 1..MaxNest /\ Open \in Seq(Frames)
  <2>1. Open \in Seq(Frames) /\ n <= MaxNest /\ MaxNest \in Nat
    BY FibersAssumption DEF RegisterTypes, DepthInv, Open
  <2>2. n \in Nat \ {0}
    BY <2>1, EmptySeq
  <2> QED
    BY <2>1, <2>2
<1>2. /\ Len(frames'[running]) = n - 1
      /\ \A i \in 1..n - 1 : frames'[running][i] = Open[i]
      /\ \A c \in Contexts \ {running} : frames'[c] = frames[c]
  <2>1. frames'[running] = SubSeq(Open, 1, n - 1)
    BY DEF RegisterTypes, Open, Shut
  <2>2. Len(SubSeq(Open, 1, n - 1)) = n - 1
    BY <1>1, ShutFacts DEF Shut
  <2>3. \A i \in 1..n - 1 : SubSeq(Open, 1, n - 1)[i] = Open[i]
    BY <1>1
  <2> QED
    BY <2>1, <2>2, <2>3 DEF RegisterTypes
<1>3. \A c \in Contexts : Len(frames'[c]) <= MaxNest
  BY <1>1, <1>2 DEF DepthInv
<1>4. ASSUME NEW c \in Contexts, NEW i \in 1..MaxNest
      PROVE  << c, i >> \in OpenCalls' <=> << c, i >> \in OpenCalls /\ ~(c = running /\ i = n)
  <2>1. /\ << c, i >> \in OpenCalls <=> i <= Len(frames[c]) /\ frames[c][i].kind = "call"
        /\ << c, i >> \in OpenCalls' <=> i <= Len(frames'[c]) /\ frames'[c][i].kind = "call"
    BY DEF OpenCalls
  <2>2. CASE c # running
    BY <1>2, <2>1, <2>2
  <2>3. CASE c = running
    <3>1. i <= n - 1 <=> i \in 1..n - 1
      BY <1>1
    <3>2. i <= n <=> i = n \/ i \in 1..n - 1
      BY <1>1
    <3>3. ~(n <= n - 1)
      BY <1>1
    <3> QED
      BY <1>2, <2>1, <2>3, <3>1, <3>2, <3>3 DEF Open
  <2> QED
    BY <2>2, <2>3
<1>5. OpenCalls \subseteq Contexts \X (1..MaxNest) /\ OpenCalls' \subseteq Contexts \X (1..MaxNest)
  BY DEF OpenCalls
<1>6. ASSUME NEW p \in Contexts \X (1..MaxNest)
      PROVE  p \in OpenCalls' <=> p \in OpenCalls /\ p # << running, n >>
  <2>1. PICK c \in Contexts, i \in 1..MaxNest : p = << c, i >>
    OBVIOUS
  <2>2. p = << running, n >> <=> c = running /\ i = n
    BY <2>1
  <2> QED
    BY <1>4, <2>1, <2>2
<1>7. OpenCalls' = OpenCalls \ {<< running, n >>}
  BY <1>5, <1>6
<1>8. << running, n >> \in OpenCalls <=> Innermost.kind = "call"
  BY <1>1 DEF OpenCalls, Open, Innermost
<1> QED
  BY <1>3, <1>7, <1>8

\* ev->call_depth is the number of methods open in all contexts together, for
\* any number of fibers, any nesting and any depth limit.
THEOREM DepthCounts == Spec => []DepthIsTotal
<1>1. Init => DepthInv
  <2> SUFFICES ASSUME Init PROVE DepthInv
    OBVIOUS
  <2>1. MaxNest \in Nat /\ \A c \in Contexts : Len(frames[c]) = 0
    BY FibersAssumption DEF Init
  <2>2. OpenCalls = {}
    BY <2>1 DEF OpenCalls
  <2> QED
    BY <2>1, <2>2, FS_EmptySet DEF DepthInv, Init
<1>2. SwitchInv /\ RegisterTypes /\ DepthInv /\ [Next]_vars => DepthInv'
  <2> SUFFICES ASSUME SwitchInv, RegisterTypes, DepthInv, [Next]_vars PROVE DepthInv'
    OBVIOUS
  <2>1. CASE Call
    <3>1. running \in Contexts /\ Room /\ [kind |-> "call", def |-> made.defs + 1] \in Frames
      BY <2>1, CodeFacts DEF Call, Calling, RegisterTypes, Frames
    <3>2. /\ frames' = [frames EXCEPT ![running] = Append(@, [kind |-> "call", def |-> made.defs + 1])]
          /\ call_depth' = call_depth + 1
      BY <2>1 DEF Call
    <3>3. /\ \A c \in Contexts : Len(frames'[c]) <= MaxNest
          /\ OpenCalls' = OpenCalls \cup {<< running, Len(Open) + 1 >>}
          /\ << running, Len(Open) + 1 >> \notin OpenCalls
      BY <3>1, <3>2, OpensCalls
    <3> QED
      BY <3>2, <3>3, FS_AddElement DEF DepthInv
  <2>2. CASE Rescue
    <3> DEFINE x == [kind |-> "rescue", exn |-> made.exns + 1, prev |-> rescue_context]
    <3>1. running \in Contexts /\ Room /\ x \in Frames /\ x.kind # "call"
      BY <2>2, CodeFacts DEF Rescue, RegisterTypes, Frames
    <3>2. frames' = [frames EXCEPT ![running] = Append(@, x)] /\ call_depth' = call_depth
      BY <2>2 DEF Rescue
    <3> HIDE DEF x
    <3> QED
      BY <3>1, <3>2, OpensCalls DEF DepthInv
  <2>3. CASE Return \/ EndRescue
    <3>1. running \in Contexts /\ Open # << >>
          /\ frames' = [frames EXCEPT ![running] = Shut(@)]
      BY <2>3, CodeFacts DEF Return, EndRescue
    <3>2. /\ \A c \in Contexts : Len(frames'[c]) <= MaxNest
          /\ OpenCalls' = OpenCalls \ {<< running, Len(Open) >>}
          /\ << running, Len(Open) >> \in OpenCalls <=> Innermost.kind = "call"
      BY <3>1, ClosesCalls
    <3>3. call_depth' = IF Innermost.kind = "call" THEN call_depth - 1 ELSE call_depth
      BY <2>3 DEF Return, EndRescue
    <3> QED
      BY <3>2, <3>3, FS_RemoveElement DEF DepthInv
  <2>4. CASE UNCHANGED registers
    BY <2>4 DEF registers, DepthInv, OpenCalls
  <2>5. Switch \/ Halted \/ UNCHANGED vars => UNCHANGED registers
    BY DEF Switch, New, Resume, ResumeInUse, Refused, Start, Yield, AfterYield, Finish,
           AfterResume, Halted, vars
  <2> QED
    BY <2>1, <2>2, <2>3, <2>4, <2>5 DEF Next, Evaluate
<1>3. DepthInv => DepthIsTotal
  BY DEF DepthInv, DepthIsTotal, OpenCalls
<1> QED
  BY <1>1, <1>2, <1>3, Switching, RegistersTyped, PTL DEF Spec

-----------------------------------------------------------------------------
(* The registers of flat programs.  The contexts that have started and not  *)
(* given control back are ranked by who resumed whom; what is open in one   *)
(* was opened before anything open in a higher one, so that the registers   *)
(* of struct Eval are a stack although the contexts are not.                *)

Live == {Main} \cup { f \in Fibers : ActiveFiber(f) }

\* Methods and rescue bodies are numbered as they are opened.
Number(x) == IF x.kind = "call" THEN x.def ELSE x.exn
Numbers(k) ==
  { n \in Nat : \E c \in Contexts : \E i \in 1..Len(frames[c]) :
                  frames[c][i].kind = k /\ Number(frames[c][i]) = n }
MadeOf(k) == IF k = "call" THEN made.defs ELSE made.exns

Latest(x, S) == (x \in S \/ (x = Nil /\ S = {})) /\ \A y \in S : y <= x

Ranks(rank) ==
  /\ rank \in [Contexts -> Nat] /\ rank[Main] = 0
  /\ \A c \in Live : c # running => rank[c] < rank[running]
  /\ \A c, d \in Live : c # d => rank[c] # rank[d]
  /\ \A f \in Fibers : ActiveFiber(f) => rank[f] = rank[caller_ctx[f]] + 1

InOrder(rank) ==
  \A c, d \in Live : \A i \in 1..Len(frames[c]), j \in 1..Len(frames[d]) :
    /\ frames[c][i].kind = frames[d][j].kind
    /\ rank[c] < rank[d] \/ (c = d /\ i < j)
    => Number(frames[c][i]) < Number(frames[d][j])

Stacked ==
  /\ \A c \in Contexts \ Live : frames[c] = << >>
  /\ \E rank : Ranks(rank) /\ InOrder(rank)
  /\ \A c \in Contexts : \A i \in 1..Len(frames[c]) :
        Number(frames[c][i]) \in 1..MadeOf(frames[c][i].kind)

DefsKnown ==
  /\ Len(active_defs) <= made.defs + 1
  /\ \A i, j \in 1..Len(active_defs) : i < j => active_defs[i] < active_defs[j]
  /\ \A d \in Nat :
        (\E i \in 1..Len(active_defs) : active_defs[i] = d) <=> d = TopEnv \/ d \in Numbers("call")

Handled ==
  /\ Latest(rescue_context, Numbers("rescue"))
  /\ \A c \in Contexts : \A i \in 1..Len(frames[c]) :
        frames[c][i].kind = "rescue" =>
          Latest(frames[c][i].prev, { n \in Numbers("rescue") : n < frames[c][i].exn })

FlatInv ==
  program.flat /\ made.defs < EvalMaxDepth /\ running # Lost => Stacked /\ DefsKnown /\ Handled

\* Who is live, in the code and just after a swapcontext.
LEMMA LiveFacts ==
  ASSUME SwitchInv, running # Lost
  PROVE  /\ running \in Live /\ Live \subseteq Contexts /\ Main \in Live
         /\ \A f \in Fibers : f \in Live <=> ActiveFiber(f)
         /\ \A c \in Contexts : point[c].at = "resume" => c \in Live
<1>1. OneRuns /\ running \in Contexts
  BY DEF SwitchInv, OneRuns
<1>2. \A f \in Fibers : f \in Live <=> ActiveFiber(f)
  BY Distinct DEF Live
<1>3. \A c \in Contexts : point[c].at = "resume" => c \in Live
  BY <1>1, <1>2 DEF OneRuns, ActiveFiber, Standing, Contexts, Live
<1>4. running \in Live
  BY <1>1, <1>2 DEF OneRuns, ActiveFiber, Contexts, Live
<1> QED
  BY <1>2, <1>3, <1>4 DEF Live, Contexts

LEMMA LiveStays ==
  ASSUME \A g \in Fibers : ActiveFiber(g)' <=> ActiveFiber(g)
  PROVE  Live' = Live
BY DEF Live

LEMMA FrameFacts ==
  ASSUME RegisterTypes
  PROVE  /\ \A c \in Contexts : frames[c] \in Seq(Frames) /\ Len(frames[c]) \in Nat
         /\ \A c \in Contexts : \A i \in 1..Len(frames[c]) :
              frames[c][i] \in Frames /\ Number(frames[c][i]) \in Nat
         /\ \A x \in Frames : /\ x.kind \in {"call", "rescue"} /\ Number(x) \in Nat
                              /\ x.kind = "rescue" => Number(x) = x.exn
         /\ made.defs \in Nat /\ made.exns \in Nat /\ \A k : MadeOf(k) \in Nat
<1>1. \A c \in Contexts : frames[c] \in Seq(Frames)
  BY DEF RegisterTypes
<1>2. \A c \in Contexts : Len(frames[c]) \in Nat
  BY <1>1, LenProperties
<1>3. \A x \in Frames : /\ x.kind \in {"call", "rescue"} /\ Number(x) \in Nat
                        /\ x.kind = "rescue" => Number(x) = x.exn
  BY DEF Frames, Number
<1>4. \A c \in Contexts : \A i \in 1..Len(frames[c]) : frames[c][i] \in Frames
  BY <1>1, ElementOfSeq
<1>5. made.defs \in Nat /\ made.exns \in Nat
  BY DEF RegisterTypes
<1> QED
  BY <1>1, <1>2, <1>3, <1>4, <1>5 DEF MadeOf

\* The innermost open method of the running context is the latest of all that are
\* open anywhere, and so is its innermost rescue body.
LEMMA InnermostIsLatest ==
  ASSUME SwitchInv, RegisterTypes, running # Lost, Stacked,
         NEW k \in 1..Len(Open), \A j \in 1..Len(Open) : Open[j].kind = Open[k].kind => j <= k
  PROVE  /\ \A c \in Contexts : \A i \in 1..Len(frames[c]) :
              frames[c][i].kind = Open[k].kind /\ ~(c = running /\ i = k) =>
                Number(frames[c][i]) < Number(Open[k])
         /\ Number(Open[k]) \in Numbers(Open[k].kind)
         /\ \A n \in Numbers(Open[k].kind) : n <= Number(Open[k])
<1>1. PICK rank : Ranks(rank) /\ InOrder(rank)
  BY DEF Stacked
<1>2. running \in Live /\ Live \subseteq Contexts /\ Open = frames[running]
  BY LiveFacts DEF Open
<1>3. ASSUME NEW c \in Contexts, NEW i \in 1..Len(frames[c]),
             frames[c][i].kind = Open[k].kind, ~(c = running /\ i = k)
      PROVE  Number(frames[c][i]) < Number(Open[k])
  <2>1. c \in Live
    <3>1. Len(frames[c]) # 0
      BY <1>3, FrameFacts
    <3> QED
      BY <3>1 DEF Stacked
  <2>2. rank[c] < rank[running] \/ (c = running /\ i < k)
    <3>1. c = running => i <= k /\ i # k
      BY <1>2, <1>3
    <3>2. c = running => i < k
      BY <1>2, <1>3, <3>1, FrameFacts
    <3> QED
      BY <1>1, <2>1, <3>2 DEF Ranks
  <2> QED
    BY <1>1, <1>2, <1>3, <2>1, <2>2 DEF InOrder
<1>4. Number(Open[k]) \in Numbers(Open[k].kind)
  BY <1>2, FrameFacts DEF Numbers
<1>5. ASSUME NEW n \in Numbers(Open[k].kind)
      PROVE  n <= Number(Open[k])
  <2>1. PICK c \in Contexts : \E i \in 1..Len(frames[c]) :
              frames[c][i].kind = Open[k].kind /\ Number(frames[c][i]) = n
    BY DEF Numbers
  <2>2. PICK i \in 1..Len(frames[c]) :
              frames[c][i].kind = Open[k].kind /\ Number(frames[c][i]) = n
    BY <2>1
  <2>3. n \in Nat /\ Number(Open[k]) \in Nat
    BY <1>4 DEF Numbers
  <2>4. CASE c = running /\ i = k
    BY <1>2, <2>2, <2>3, <2>4
  <2>5. CASE ~(c = running /\ i = k)
    BY <1>3, <2>2, <2>3, <2>5
  <2> QED
    BY <2>4, <2>5
<1> QED
  BY <1>3, <1>4, <1>5

\* What is opened is later than everything.
LEMMA OpensStacked ==
  ASSUME SwitchInv, RegisterTypes, running # Lost, Stacked, UNCHANGED switching,
         NEW x \in Frames, Number(x) = MadeOf(x.kind) + 1, MadeOf(x.kind)' = Number(x),
         \A k \in {"call", "rescue"} \ {x.kind} : MadeOf(k)' = MadeOf(k),
         frames' = [frames EXCEPT ![running] = Append(@, x)]
  PROVE  /\ Stacked'
         /\ Numbers(x.kind)' = Numbers(x.kind) \cup {Number(x)}
         /\ \A k : k # x.kind => Numbers(k)' = Numbers(k)
         /\ \A k : \A n \in Numbers(k) : n <= MadeOf(k)
         /\ \A c \in Contexts : \A i \in 1..Len(frames'[c]) :
              frames'[c][i] = x \/ (i \in 1..Len(frames[c]) /\ frames'[c][i] = frames[c][i])
<1> DEFINE n == Len(Open)
<1>1. /\ running \in Live /\ Live \subseteq Contexts /\ Open = frames[running]
      /\ Open \in Seq(Frames) /\ n \in Nat
  BY LiveFacts, FrameFacts DEF Open
<1>2. /\ Len(frames'[running]) = n + 1 /\ frames'[running][n + 1] = x
      /\ \A i \in 1..n : frames'[running][i] = frames[running][i]
      /\ \A c \in Contexts \ {running} : frames'[c] = frames[c]
  BY <1>1 DEF RegisterTypes
<1>3. /\ running' = running /\ caller_ctx' = caller_ctx /\ Live' = Live
      /\ \A f \in Fibers : ActiveFiber(f)' <=> ActiveFiber(f)
  BY DEF switching, Live, ActiveFiber, Standing
\* An old place or the new one.
<1>4. \A c \in Contexts : \A i \in 1..Len(frames'[c]) :
        \/ i \in 1..Len(frames[c]) /\ frames'[c][i] = frames[c][i]
        \/ c = running /\ i = n + 1 /\ frames'[c][i] = x
  BY <1>1, <1>2
<1>5. \A c \in Contexts : \A i \in 1..Len(frames[c]) :
        i \in 1..Len(frames'[c]) /\ frames'[c][i] = frames[c][i]
  BY <1>1, <1>2
<1>6. \A c \in Contexts : \A i \in 1..Len(frames[c]) :
        frames[c][i].kind = x.kind => Number(frames[c][i]) < Number(x)
  <2>1. MadeOf(x.kind) \in Nat
    BY FrameFacts
  <2> QED
    BY <2>1 DEF Stacked
<1>7. n + 1 \in 1..Len(frames'[running])
  BY <1>1, <1>2
<1>8. Numbers(x.kind)' = Numbers(x.kind) \cup {Number(x)}
  <2>1. Number(x) \in Numbers(x.kind)'
    BY <1>1, <1>2, <1>7, FrameFacts DEF Numbers
  <2>2. Numbers(x.kind) \subseteq Numbers(x.kind)'
    BY <1>5 DEF Numbers
  <2>3. ASSUME NEW m \in Numbers(x.kind)', m # Number(x)
        PROVE  m \in Numbers(x.kind)
    <3>1. m \in Nat
      BY DEF Numbers
    <3>2. PICK c \in Contexts : \E i \in 1..Len(frames'[c]) :
                 frames'[c][i].kind = x.kind /\ Number(frames'[c][i]) = m
      BY DEF Numbers
    <3>3. PICK i \in 1..Len(frames'[c]) :
                 frames'[c][i].kind = x.kind /\ Number(frames'[c][i]) = m
      BY <3>2
    <3>4. i \in 1..Len(frames[c]) /\ frames'[c][i] = frames[c][i]
      BY <1>4, <2>3, <3>3
    <3> QED
      BY <3>1, <3>3, <3>4 DEF Numbers
  <2> QED
    BY <2>1, <2>2, <2>3
<1>9. ASSUME NEW k, k # x.kind
      PROVE  Numbers(k)' = Numbers(k)
  <2>1. \A c \in Contexts : \A m \in Nat :
          (\E i \in 1..Len(frames'[c]) : frames'[c][i].kind = k /\ Number(frames'[c][i]) = m)
            <=> \E i \in 1..Len(frames[c]) : frames[c][i].kind = k /\ Number(frames[c][i]) = m
    BY <1>4, <1>5, <1>9
  <2> QED
    BY <2>1 DEF Numbers
<1>10. \A k : \A m \in Numbers(k) : m <= MadeOf(k)
  BY FrameFacts DEF Numbers, Stacked
<1>11. Stacked'
  <2>1. \A c \in Contexts \ Live' : frames'[c] = << >>
    BY <1>1, <1>2, <1>3 DEF Stacked
  <2>2. PICK rank : Ranks(rank) /\ InOrder(rank)
    BY DEF Stacked
  <2>3. Ranks(rank)'
    BY <1>3, <2>2 DEF Ranks
  <2>4. ASSUME NEW c \in Live, NEW d \in Live,
               NEW i \in 1..Len(frames'[c]), NEW j \in 1..Len(frames'[d]),
               frames'[c][i].kind = frames'[d][j].kind,
               rank[c] < rank[d] \/ (c = d /\ i < j)
        PROVE  Number(frames'[c][i]) < Number(frames'[d][j])
    <3>1. c \in Contexts /\ d \in Contexts
      BY <1>1
    <3>2. \/ i \in 1..Len(frames[c]) /\ frames'[c][i] = frames[c][i]
          \/ c = running /\ i = n + 1 /\ frames'[c][i] = x
      BY <1>4, <3>1
    <3>3. \/ j \in 1..Len(frames[d]) /\ frames'[d][j] = frames[d][j]
          \/ d = running /\ j = n + 1 /\ frames'[d][j] = x
      BY <1>4, <3>1
    <3>4. CASE c = running /\ i = n + 1
      <4>1. d # running => rank[d] < rank[running] /\ rank[d] \in Nat /\ rank[running] \in Nat
        BY <1>1, <2>2, <3>1 DEF Ranks
      <4>2. ~(rank[c] < rank[d])
        <5>1. rank[running] \in Nat
          BY <1>1, <2>2 DEF Ranks
        <5> QED
          BY <3>4, <4>1, <5>1
      <4>3. d = running /\ i < j
        BY <2>4, <3>4, <4>2
      <4>4. j <= n + 1
        BY <1>1, <1>2, <4>3
      <4> QED
        BY <1>1, <3>4, <4>3, <4>4
    <3>5. CASE i \in 1..Len(frames[c]) /\ frames'[c][i] = frames[c][i]
      <4>1. CASE j \in 1..Len(frames[d]) /\ frames'[d][j] = frames[d][j]
        BY <2>2, <2>4, <3>5, <4>1 DEF InOrder
      <4>2. CASE frames'[d][j] = x
        BY <1>6, <2>4, <3>1, <3>5, <4>2
      <4> QED
        BY <3>3, <4>1, <4>2
    <3> QED
      BY <3>2, <3>4, <3>5
  <2>5. InOrder(rank)'
    BY <1>3, <2>4 DEF InOrder
  <2>6. ASSUME NEW y \in Frames, y = x \/ Number(y) \in 1..MadeOf(y.kind)
        PROVE  Number(y) \in 1..MadeOf(y.kind)'
    <3>1. MadeOf(y.kind) \in Nat /\ MadeOf(x.kind) \in Nat
      BY FrameFacts
    <3>2. CASE y = x
      BY <3>1, <3>2
    <3>3. CASE y # x /\ y.kind = x.kind
      BY <2>6, <3>1, <3>3
    <3>4. CASE y # x /\ y.kind # x.kind
      BY <2>6, <3>1, <3>4, FrameFacts
    <3> QED
      BY <3>2, <3>3, <3>4
  <2>7. \A c \in Contexts : \A i \in 1..Len(frames'[c]) :
          /\ frames'[c][i] \in Frames
          /\ frames'[c][i] = x \/ Number(frames'[c][i]) \in 1..MadeOf(frames'[c][i].kind)
    <3>1. \A c \in Contexts : \A i \in 1..Len(frames[c]) :
            frames[c][i] \in Frames /\ Number(frames[c][i]) \in 1..MadeOf(frames[c][i].kind)
      BY FrameFacts DEF Stacked
    <3> QED
      BY <1>4, <3>1
  <2>8. (\A c \in Contexts : \A i \in 1..Len(frames[c]) :
           Number(frames[c][i]) \in 1..MadeOf(frames[c][i].kind))'
    BY <2>6, <2>7
  <2> QED
    BY <2>1, <2>3, <2>5, <2>8 DEF Stacked
<1> QED
  BY <1>4, <1>8, <1>9, <1>10, <1>11

\* What is closed was the latest of its kind.
LEMMA ShutsStacked ==
  ASSUME SwitchInv, RegisterTypes, running # Lost, Stacked, UNCHANGED switching,
         Open # << >>, frames' = [frames EXCEPT ![running] = Shut(@)], made' = made
  PROVE  /\ Stacked' /\ Innermost \in Frames
         /\ Number(Innermost) \in Numbers(Innermost.kind)
         /\ \A n \in Numbers(Innermost.kind) : n <= Number(Innermost)
         /\ \A k : Numbers(k)' = IF k = Innermost.kind THEN Numbers(k) \ {Number(Innermost)}
                                                     ELSE Numbers(k)
         /\ \A c \in Contexts : \A i \in 1..Len(frames'[c]) :
              /\ i \in 1..Len(frames[c]) /\ frames'[c][i] = frames[c][i]
              /\ ~(c = running /\ i = Len(Open))
<1> DEFINE n == Len(Open)
<1>1. /\ running \in Live /\ Live \subseteq Contexts /\ Open = frames[running]
      /\ Open \in Seq(Frames) /\ n \in Nat \ {0} /\ n \in 1..n
      /\ Innermost = Open[n] /\ Innermost \in Frames
  <2>1. running \in Live /\ Live \subseteq Contexts /\ Open = frames[running]
    BY LiveFacts DEF Open
  <2>2. Open \in Seq(Frames)
    BY <2>1, FrameFacts
  <2>3. n \in Nat \ {0}
    BY <2>2, EmptySeq
  <2> QED
    BY <2>1, <2>2, <2>3, ElementOfSeq DEF Innermost
<1>2. /\ Len(frames'[running]) = n - 1
      /\ \A i \in 1..n - 1 : frames'[running][i] = frames[running][i]
      /\ \A c \in Contexts \ {running} : frames'[c] = frames[c]
  <2>1. frames'[running] = SubSeq(Open, 1, n - 1)
    BY <1>1 DEF RegisterTypes, Shut
  <2>2. Len(SubSeq(Open, 1, n - 1)) = n - 1
    BY <1>1, ShutFacts DEF Shut
  <2>3. \A i \in 1..n - 1 : SubSeq(Open, 1, n - 1)[i] = Open[i]
    BY <1>1
  <2> QED
    BY <1>1, <2>1, <2>2, <2>3 DEF RegisterTypes
<1>3. /\ running' = running /\ caller_ctx' = caller_ctx /\ Live' = Live
      /\ \A f \in Fibers : ActiveFiber(f)' <=> ActiveFiber(f)
      /\ \A k : MadeOf(k)' = MadeOf(k)
  BY DEF switching, Live, ActiveFiber, Standing, MadeOf
<1>4. \A c \in Contexts : \A i \in 1..Len(frames'[c]) :
        /\ i \in 1..Len(frames[c]) /\ frames'[c][i] = frames[c][i]
        /\ ~(c = running /\ i = n)
  BY <1>1, <1>2
<1>5. \A c \in Contexts : \A i \in 1..Len(frames[c]) :
        \/ c = running /\ i = n
        \/ i \in 1..Len(frames'[c]) /\ frames'[c][i] = frames[c][i]
  BY <1>1, <1>2
<1>6. /\ \A c \in Contexts : \A i \in 1..Len(frames[c]) :
           frames[c][i].kind = Innermost.kind /\ ~(c = running /\ i = n) =>
             Number(frames[c][i]) < Number(Innermost)
      /\ Number(Innermost) \in Numbers(Innermost.kind)
      /\ \A m \in Numbers(Innermost.kind) : m <= Number(Innermost)
  <2>1. \A j \in 1..Len(Open) : Open[j].kind = Open[n].kind => j <= n
    BY <1>1
  <2> QED
    BY <1>1, <2>1, InnermostIsLatest
<1>7. ASSUME NEW k
      PROVE  Numbers(k)' = IF k = Innermost.kind THEN Numbers(k) \ {Number(Innermost)}
                                                ELSE Numbers(k)
  <2>1. Numbers(k)' = { m \in Nat : \E c \in Contexts : \E i \in 1..Len(frames'[c]) :
                          frames'[c][i].kind = k /\ Number(frames'[c][i]) = m }
    BY DEF Numbers
  <2>2. ASSUME NEW m \in Numbers(k), k # Innermost.kind \/ m # Number(Innermost)
        PROVE  m \in Numbers(k)'
    <3>1. PICK c \in Contexts : \E i \in 1..Len(frames[c]) :
                 frames[c][i].kind = k /\ Number(frames[c][i]) = m
      BY DEF Numbers
    <3>2. PICK i \in 1..Len(frames[c]) :
                 frames[c][i].kind = k /\ Number(frames[c][i]) = m
      BY <3>1
    <3>3. i \in 1..Len(frames'[c]) /\ frames'[c][i] = frames[c][i]
      BY <1>1, <1>5, <2>2, <3>2
    <3>4. m \in Nat
      BY DEF Numbers
    <3> QED
      BY <2>1, <3>2, <3>3, <3>4
  <2>3. ASSUME NEW m \in Numbers(k)'
        PROVE  m \in Numbers(k) /\ (k # Innermost.kind \/ m # Number(Innermost))
    <3>1. PICK c \in Contexts : \E i \in 1..Len(frames'[c]) :
                 frames'[c][i].kind = k /\ Number(frames'[c][i]) = m
      BY <2>1
    <3>2. PICK i \in 1..Len(frames'[c]) :
                 frames'[c][i].kind = k /\ Number(frames'[c][i]) = m
      BY <3>1
    <3>3. /\ i \in 1..Len(frames[c]) /\ frames'[c][i] = frames[c][i]
          /\ ~(c = running /\ i = n)
      BY <1>4
    <3>4. m \in Nat /\ Number(Innermost) \in Nat
      BY <1>1, <2>1, FrameFacts
    <3>5. m \in Numbers(k)
      BY <3>2, <3>3, <3>4 DEF Numbers
    <3>6. k = Innermost.kind => m < Number(Innermost)
      BY <1>6, <3>2, <3>3
    <3> QED
      BY <3>4, <3>5, <3>6
  <2> QED
    BY <1>6, <2>2, <2>3
<1>8. Stacked'
  <2>1. \A c \in Contexts \ Live' : frames'[c] = << >>
    BY <1>1, <1>2, <1>3 DEF Stacked
  <2>2. PICK rank : Ranks(rank) /\ InOrder(rank)
    BY DEF Stacked
  <2>3. Ranks(rank)'
    BY <1>3, <2>2 DEF Ranks
  <2>4. InOrder(rank)'
    BY <1>1, <1>3, <1>4, <2>2 DEF InOrder
  <2>5. (\A c \in Contexts : \A i \in 1..Len(frames[c]) :
           Number(frames[c][i]) \in 1..MadeOf(frames[c][i].kind))'
    BY <1>3, <1>4 DEF Stacked
  <2> QED
    BY <2>1, <2>3, <2>4, <2>5 DEF Stacked
<1> QED
  BY <1>1, <1>4, <1>6, <1>7, <1>8

\* Below the depth limit active_defs has room for the method that is called.
LEMMA CallFlat ==
  ASSUME SwitchInv, RegisterTypes, Stacked, DefsKnown, Handled, Call, made'.defs < EvalMaxDepth
  PROVE  Stacked' /\ DefsKnown' /\ Handled'
<1>1. /\ running # Lost /\ UNCHANGED << switching, rescue_context >>
      /\ frames' = [frames EXCEPT ![running] =
                      Append(@, [kind |-> "call", def |-> made.defs + 1])]
      /\ made' = [made EXCEPT !.defs = @ + 1]
      /\ active_defs' = PushDef(made.defs + 1)
  BY DEF Call, Calling, Coding
<1>2. PICK d \in Nat : d = made.defs + 1
  BY FrameFacts
<1>3. /\ made.defs \in Nat /\ made.exns \in Nat /\ made'.defs = d /\ made'.exns = made.exns
  BY <1>1, <1>2, FrameFacts DEF RegisterTypes
<1>4. PICK x \in Frames : x = [kind |-> "call", def |-> d]
  BY DEF Frames
<1>5. x.kind = "call" /\ Number(x) = d
  BY <1>4 DEF Number
<1>6. /\ MadeOf(x.kind) = made.defs /\ MadeOf(x.kind)' = d
      /\ \A k \in {"call", "rescue"} \ {x.kind} : MadeOf(k)' = MadeOf(k)
  BY <1>3, <1>5 DEF MadeOf
<1>7. frames' = [frames EXCEPT ![running] = Append(@, x)]
  BY <1>1, <1>2, <1>4
<1>8. /\ Stacked'
      /\ Numbers(x.kind)' = Numbers(x.kind) \cup {Number(x)}
      /\ \A k : k # x.kind => Numbers(k)' = Numbers(k)
      /\ \A k : \A m \in Numbers(k) : m <= MadeOf(k)
      /\ \A c \in Contexts : \A i \in 1..Len(frames'[c]) :
           frames'[c][i] = x \/ (i \in 1..Len(frames[c]) /\ frames'[c][i] = frames[c][i])
  BY <1>1, <1>2, <1>5, <1>6, <1>7, OpensStacked
<1>9. /\ Numbers("call")' = Numbers("call") \cup {d} /\ Numbers("rescue")' = Numbers("rescue")
      /\ \A m \in Numbers("call") : m < d
  <2>1. \A m \in Numbers("call") : m <= made.defs /\ m \in Nat
    BY <1>8 DEF MadeOf, Numbers
  <2> QED
    BY <1>2, <1>3, <1>5, <1>8, <2>1
<1>10. DefsKnown'
  <2> DEFINE n == Len(active_defs)
  <2>1. active_defs \in Seq(Nat) /\ n \in Nat /\ n <= made.defs + 1 /\ EvalMaxDepth \in Nat
    BY FibersAssumption DEF RegisterTypes, DefsKnown
  <2>2. active_defs' = Append(active_defs, d)
    BY <1>1, <1>2, <1>3, <2>1 DEF PushDef
  <2>3. /\ Len(active_defs') = n + 1 /\ active_defs'[n + 1] = d
        /\ \A i \in 1..n : active_defs'[i] = active_defs[i]
        /\ \A i \in 1..n + 1 : i = n + 1 \/ i \in 1..n
        /\ n + 1 \in 1..n + 1 /\ \A i \in 1..n : i \in 1..n + 1
    BY <2>1, <2>2
  <2>4. \A i \in 1..n : active_defs[i] \in Nat /\ active_defs[i] < d
    <3>1. ASSUME NEW i \in 1..n PROVE active_defs[i] \in Nat /\ active_defs[i] < d
      <4>1. active_defs[i] \in Nat
        BY <2>1
      <4>2. active_defs[i] = TopEnv \/ active_defs[i] \in Numbers("call")
        BY <4>1 DEF DefsKnown
      <4> QED
        BY <1>2, <1>3, <1>9, <4>1, <4>2 DEF TopEnv
    <3> QED
      BY <3>1
  <2>5. Len(active_defs') <= made'.defs + 1
    BY <1>2, <1>3, <2>1, <2>3
  <2>6. ASSUME NEW i \in 1..n + 1, NEW j \in 1..n + 1, i < j
        PROVE  active_defs'[i] < active_defs'[j]
    <3>1. i \in 1..n
      BY <2>1, <2>6
    <3>2. CASE j \in 1..n
      BY <2>3, <2>6, <3>1, <3>2 DEF DefsKnown
    <3>3. CASE j = n + 1
      BY <2>3, <2>4, <3>1, <3>3
    <3> QED
      BY <2>3, <3>2, <3>3
  <2>7. ASSUME NEW e \in Nat
        PROVE  (\E i \in 1..n + 1 : active_defs'[i] = e) <=> e = TopEnv \/ e \in Numbers("call")'
    <3>1. (\E i \in 1..n + 1 : active_defs'[i] = e) <=> e = d \/ \E i \in 1..n : active_defs[i] = e
      BY <2>3
    <3> QED
      BY <1>9, <3>1 DEF DefsKnown
  <2> QED
    BY <2>3, <2>5, <2>6, <2>7 DEF DefsKnown
<1>11. Handled'
  <2>1. Latest(rescue_context, Numbers("rescue"))'
    BY <1>1, <1>9 DEF Handled, Latest
  <2>2. ASSUME NEW c \in Contexts, NEW i \in 1..Len(frames'[c]), frames'[c][i].kind = "rescue"
        PROVE  Latest(frames'[c][i].prev, { m \in Numbers("rescue") : m < frames'[c][i].exn })
    BY <1>5, <1>8, <2>2 DEF Handled
  <2> QED
    BY <1>9, <2>1, <2>2 DEF Handled, Latest
<1> QED
  BY <1>8, <1>10, <1>11

\* The method that returns is the last of active_defs, whichever context it is in.
LEMMA ReturnFlat ==
  ASSUME SwitchInv, RegisterTypes, Stacked, DefsKnown, Handled, Return
  PROVE  Stacked' /\ DefsKnown' /\ Handled'
<1> DEFINE n == Len(active_defs)
           d == Innermost.def
<1>1. /\ running # Lost /\ UNCHANGED << switching, rescue_context, made >>
      /\ frames' = [frames EXCEPT ![running] = Shut(@)] /\ active_defs' = PopDef
      /\ Open # << >> /\ Innermost.kind = "call"
  BY DEF Return, Coding
<1>2. /\ Stacked' /\ Innermost \in Frames /\ d = Number(Innermost) /\ d \in Nat
      /\ d \in Numbers("call") /\ \A m \in Numbers("call") : m <= d
      /\ \A k : Numbers(k)' = IF k = Innermost.kind THEN Numbers(k) \ {Number(Innermost)}
                                                  ELSE Numbers(k)
      /\ \A c \in Contexts : \A i \in 1..Len(frames'[c]) :
           i \in 1..Len(frames[c]) /\ frames'[c][i] = frames[c][i]
  <2>1. d = Number(Innermost)
    BY <1>1 DEF Number
  <2>2. /\ Stacked' /\ Innermost \in Frames
        /\ d \in Numbers("call") /\ \A m \in Numbers("call") : m <= d
        /\ \A k : Numbers(k)' = IF k = Innermost.kind THEN Numbers(k) \ {Number(Innermost)}
                                                    ELSE Numbers(k)
        /\ \A c \in Contexts : \A i \in 1..Len(frames'[c]) :
             i \in 1..Len(frames[c]) /\ frames'[c][i] = frames[c][i]
    BY <1>1, <2>1, ShutsStacked
  <2> QED
    BY <2>1, <2>2 DEF Numbers
<1>3. Numbers("call")' = Numbers("call") \ {d} /\ Numbers("rescue")' = Numbers("rescue")
  BY <1>1, <1>2
<1>4. d # TopEnv
  <2>1. \A m \in Numbers("call") : m # 0
    BY DEF Numbers, Stacked
  <2> QED
    BY <1>2, <2>1 DEF TopEnv
<1>5. /\ active_defs \in Seq(Nat) /\ n \in Nat
      /\ \A i \in 1..n : active_defs[i] \in Nat /\ active_defs[i] <= d
  <2>1. active_defs \in Seq(Nat) /\ n \in Nat
    BY DEF RegisterTypes
  <2>2. ASSUME NEW i \in 1..n PROVE active_defs[i] \in Nat /\ active_defs[i] <= d
    <3>1. active_defs[i] \in Nat
      BY <2>1
    <3>2. active_defs[i] = TopEnv \/ active_defs[i] \in Numbers("call")
      BY <3>1 DEF DefsKnown
    <3> QED
      BY <1>2, <3>1, <3>2 DEF TopEnv
  <2> QED
    BY <2>1, <2>2
<1>6. n \in 1..n /\ active_defs[n] = d /\ \A i \in 1..n - 1 : active_defs[i] < d
  <2>1. PICK k \in 1..n : active_defs[k] = d
    BY <1>2 DEF DefsKnown
  <2>2. n \in 1..n
    BY <1>5, <2>1
  <2>3. k < n => FALSE
    <3>1. k < n => d < active_defs[n]
      BY <2>1, <2>2 DEF DefsKnown
    <3> QED
      BY <1>2, <1>5, <2>2, <3>1
  <2>4. k = n
    BY <1>5, <2>1, <2>3
  <2>5. \A i \in 1..n - 1 : i \in 1..n /\ i < n
    BY <1>5
  <2> QED
    BY <2>1, <2>2, <2>4, <2>5 DEF DefsKnown
<1>7. DefsKnown'
  <2>1. /\ Len(active_defs') = n - 1
        /\ \A i \in 1..n - 1 : active_defs'[i] = active_defs[i]
    <3>1. active_defs # << >> /\ n > 0
      BY <1>5, <1>6
    <3>2. active_defs' = SubSeq(active_defs, 1, n - 1)
      BY <1>1, <3>1 DEF PopDef, Shut
    <3>3. Len(active_defs') = n - 1
      BY <1>5, <3>1, <3>2, ShutFacts DEF Shut
    <3> QED
      BY <1>5, <3>2, <3>3
  <2>2. \A i \in 1..n : i = n \/ i \in 1..n - 1
    BY <1>5
  <2>3. \A i \in 1..n - 1 : i \in 1..n
    BY <1>5
  <2>4. Len(active_defs') <= made'.defs + 1
    BY <1>1, <1>5, <2>1, FrameFacts DEF DefsKnown
  <2>5. \A i, j \in 1..n - 1 : i < j => active_defs'[i] < active_defs'[j]
    BY <2>1, <2>3 DEF DefsKnown
  <2>6. ASSUME NEW e \in Nat
        PROVE  (\E i \in 1..n - 1 : active_defs'[i] = e) <=> e = TopEnv \/ e \in Numbers("call")'
    <3>1. \A i \in 1..n - 1 : active_defs[i] # d
      <4> HIDE DEF n, d
      <4>1. \A i \in 1..n - 1 : active_defs[i] \in Nat /\ active_defs[i] < d
        BY <1>5, <1>6, <2>3
      <4> QED
        BY <1>2, <4>1
    <3> HIDE DEF n, d
    <3>2. (\E i \in 1..n - 1 : active_defs'[i] = e) => e # d /\ \E i \in 1..n : active_defs[i] = e
      BY <2>1, <2>3, <3>1
    <3>3. e # d /\ (\E i \in 1..n : active_defs[i] = e) => \E i \in 1..n - 1 : active_defs'[i] = e
      BY <1>6, <2>1, <2>2
    <3>4. (\E i \in 1..n - 1 : active_defs'[i] = e) <=> e # d /\ \E i \in 1..n : active_defs[i] = e
      BY <3>2, <3>3
    <3> QED
      BY <1>3, <1>4, <3>4 DEF DefsKnown, n
  <2> QED
    BY <2>1, <2>4, <2>5, <2>6 DEF DefsKnown
<1>8. Handled'
  BY <1>1, <1>2, <1>3 DEF Handled, Latest
<1> QED
  BY <1>2, <1>7, <1>8

LEMMA RescueFlat ==
  ASSUME SwitchInv, RegisterTypes, Stacked, DefsKnown, Handled, Rescue
  PROVE  Stacked' /\ DefsKnown' /\ Handled'
<1>1. /\ running # Lost /\ UNCHANGED << switching, active_defs >>
      /\ frames' = [frames EXCEPT ![running] =
           Append(@, [kind |-> "rescue", exn |-> made.exns + 1, prev |-> rescue_context])]
      /\ made' = [made EXCEPT !.exns = @ + 1]
      /\ rescue_context' = made.exns + 1
  BY DEF Rescue, Coding
<1>2. PICK e \in Nat, p \in Nat : e = made.exns + 1 /\ p = rescue_context
  BY FrameFacts DEF RegisterTypes
<1>3. /\ made.defs \in Nat /\ made.exns \in Nat /\ made'.exns = e /\ made'.defs = made.defs
  BY <1>1, <1>2, FrameFacts DEF RegisterTypes
<1>4. PICK x \in Frames : x = [kind |-> "rescue", exn |-> e, prev |-> p]
  BY DEF Frames
<1>5. x.kind = "rescue" /\ Number(x) = e /\ x.exn = e /\ x.prev = p
  BY <1>4 DEF Number
<1>6. /\ MadeOf(x.kind) = made.exns /\ MadeOf(x.kind)' = e
      /\ \A k \in {"call", "rescue"} \ {x.kind} : MadeOf(k)' = MadeOf(k)
  BY <1>3, <1>5 DEF MadeOf
<1>7. frames' = [frames EXCEPT ![running] = Append(@, x)]
  BY <1>1, <1>2, <1>4
<1>8. /\ Stacked'
      /\ Numbers(x.kind)' = Numbers(x.kind) \cup {Number(x)}
      /\ \A k : k # x.kind => Numbers(k)' = Numbers(k)
      /\ \A k : \A m \in Numbers(k) : m <= MadeOf(k)
      /\ \A c \in Contexts : \A i \in 1..Len(frames'[c]) :
           frames'[c][i] = x \/ (i \in 1..Len(frames[c]) /\ frames'[c][i] = frames[c][i])
  BY <1>1, <1>2, <1>5, <1>6, <1>7, OpensStacked
<1>9. /\ Numbers("rescue")' = Numbers("rescue") \cup {e} /\ Numbers("call")' = Numbers("call")
      /\ \A m \in Numbers("rescue") : m \in Nat /\ m < e
  <2>1. \A m \in Numbers("rescue") : m <= made.exns /\ m \in Nat
    BY <1>8 DEF MadeOf, Numbers
  <2> QED
    BY <1>2, <1>3, <1>5, <1>8, <2>1
<1>10. DefsKnown'
  BY <1>1, <1>3, <1>9 DEF DefsKnown
<1>11. Handled'
  <2>1. Latest(rescue_context, Numbers("rescue"))'
    BY <1>1, <1>2, <1>9 DEF Latest
  <2>2. ASSUME NEW c \in Contexts, NEW i \in 1..Len(frames'[c]), frames'[c][i].kind = "rescue"
        PROVE  Latest(frames'[c][i].prev,
                      { m \in Numbers("rescue") \cup {e} : m < frames'[c][i].exn })
    <3>1. CASE frames'[c][i] = x
      <4>1. { m \in Numbers("rescue") \cup {e} : m < e } = Numbers("rescue")
        BY <1>9
      <4> QED
        BY <1>2, <1>5, <3>1, <4>1 DEF Handled
    <3>2. CASE i \in 1..Len(frames[c]) /\ frames'[c][i] = frames[c][i]
      <4>1. frames[c][i].exn \in Nat /\ frames[c][i].exn <= made.exns
        <5>1. frames[c][i].exn = Number(frames[c][i])
          BY <2>2, <3>2, FrameFacts
        <5>2. frames[c][i].exn \in 1..made.exns
          BY <2>2, <3>2, <5>1 DEF Stacked, MadeOf
        <5> QED
          BY <1>3, <5>2
      <4>2. ~(e < frames[c][i].exn)
        BY <1>2, <1>3, <4>1
      <4>3. { m \in Numbers("rescue") \cup {e} : m < frames[c][i].exn }
              = { m \in Numbers("rescue") : m < frames[c][i].exn }
        BY <4>2
      <4> QED
        BY <2>2, <3>2, <4>3 DEF Handled
    <3> QED
      BY <1>8, <3>1, <3>2
  <2> QED
    BY <1>9, <2>1, <2>2 DEF Handled, Latest
<1> QED
  BY <1>8, <1>10, <1>11

\* What rescue_context was before is the latest exception of the bodies still open.
LEMMA EndRescueFlat ==
  ASSUME SwitchInv, RegisterTypes, Stacked, DefsKnown, Handled, EndRescue
  PROVE  Stacked' /\ DefsKnown' /\ Handled'
<1> DEFINE R == Numbers("rescue")
<1>1. /\ running # Lost /\ UNCHANGED << switching, active_defs, made >>
      /\ frames' = [frames EXCEPT ![running] = Shut(@)]
      /\ rescue_context' = Innermost.prev
      /\ Open # << >> /\ Innermost.kind = "rescue"
  BY DEF EndRescue, Coding
<1>2. PICK d \in Nat, p \in Nat : d = Innermost.exn /\ p = Innermost.prev /\ d = Number(Innermost)
  <2>1. Innermost \in Frames
    BY <1>1, ShutsStacked
  <2> QED
    BY <1>1, <2>1 DEF Frames, Number
<1>3. /\ Stacked'
      /\ d \in R /\ \A m \in R : m <= d
      /\ \A k : Numbers(k)' = IF k = Innermost.kind THEN Numbers(k) \ {Number(Innermost)}
                                                  ELSE Numbers(k)
      /\ \A c \in Contexts : \A i \in 1..Len(frames'[c]) :
           i \in 1..Len(frames[c]) /\ frames'[c][i] = frames[c][i]
  BY <1>1, <1>2, ShutsStacked
<1>4. R' = R \ {d} /\ Numbers("call")' = Numbers("call") /\ R \subseteq Nat
  <2>1. R \subseteq Nat
    BY DEF Numbers
  <2>2. R' = R \ {d}
    BY <1>1, <1>2, <1>3
  <2>3. Numbers("call")' = Numbers("call")
    BY <1>1, <1>3
  <2> QED
    BY <2>1, <2>2, <2>3
<1>5. DefsKnown'
  BY <1>1, <1>4 DEF DefsKnown
<1>6. Latest(p, R \ {d})
  <2>1. Open = frames[running] /\ running \in Contexts /\ Len(Open) \in 1..Len(Open)
    <3>1. Open = frames[running] /\ running \in Contexts
      BY <1>1, LiveFacts DEF Open
    <3>2. Open \in Seq(Frames)
      BY <3>1, FrameFacts
    <3>3. Len(Open) \in Nat \ {0}
      BY <1>1, <3>2, EmptySeq
    <3> QED
      BY <3>1, <3>3
  <2>2. Latest(p, { m \in R : m < d })
    BY <1>1, <1>2, <2>1 DEF Handled, Innermost
  <2>3. { m \in R : m < d } = R \ {d}
    BY <1>3, <1>4
  <2> QED
    BY <2>2, <2>3
<1>7. ASSUME NEW c \in Contexts, NEW i \in 1..Len(frames'[c]), frames'[c][i].kind = "rescue"
      PROVE  Latest(frames'[c][i].prev, { m \in R \ {d} : m < frames'[c][i].exn })
  <2>1. i \in 1..Len(frames[c]) /\ frames'[c][i] = frames[c][i]
    BY <1>3
  <2>2. frames[c][i].exn \in R
    <3>1. frames[c][i].exn = Number(frames[c][i]) /\ Number(frames[c][i]) \in Nat
      BY <1>7, <2>1, FrameFacts
    <3> QED
      BY <1>7, <2>1, <3>1 DEF Numbers
  <2>3. ~(d < frames[c][i].exn)
    BY <1>3, <1>4, <2>2
  <2>4. { m \in R \ {d} : m < frames[c][i].exn } = { m \in R : m < frames[c][i].exn }
    BY <2>3
  <2> QED
    BY <1>7, <2>1, <2>4 DEF Handled
<1>8. Handled'
  <2>1. rescue_context' = p
    BY <1>1, <1>2
  <2>2. Latest(rescue_context, R)'
    BY <1>4, <1>6, <2>1 DEF Latest
  <2> QED
    BY <1>4, <1>7, <2>2 DEF Handled, Latest
<1> QED
  BY <1>3, <1>5, <1>8

\* Who resumes a fiber gives it the next rank; nothing is open in it yet.
LEMMA ResumeStacked ==
  ASSUME SwitchInv, Calling, NEW f \in Fibers, NEW v \in program.values,
         alive[f], Standing(f),
         resume_args' = [resume_args EXCEPT ![f] = v],
         point' = [point EXCEPT ![running] = Waiting(f, current)],
         current' = f,
         caller_ctx' = [caller_ctx EXCEPT ![f] = running],
         running' = f,
         UNCHANGED << alive, result, got, program, registers >>,
         Stacked
  PROVE  Stacked'
<1>1. /\ f # running /\ ~ActiveFiber(f)
      /\ \A g \in Fibers : ActiveFiber(g)' <=> g = f \/ ActiveFiber(g)
  BY ResumeInv
<1>2. /\ running \in Live /\ Live \subseteq Contexts /\ f \notin Live /\ Main \in Live
      /\ running # Lost /\ f \in Contexts /\ f # Main /\ Waits /\ running \in Contexts
  BY <1>1, CodeFacts, LiveFacts, Distinct DEF Calling, Coding, Contexts
<1>3. Live' = Live \cup {f}
  BY <1>1, <1>2 DEF Live
<1>4. /\ frames' = frames /\ made' = made /\ frames[f] = << >>
      /\ caller_ctx'[f] = running
      /\ \A g \in Fibers \ {f} : caller_ctx'[g] = caller_ctx[g]
      /\ \A k : MadeOf(k)' = MadeOf(k)
  BY <1>2 DEF registers, Stacked, SwitchInv, SwitchTypes, MadeOf
<1>5. PICK rank : Ranks(rank) /\ InOrder(rank)
  BY DEF Stacked
<1>6. PICK higher : higher = [rank EXCEPT ![f] = rank[running] + 1]
  OBVIOUS
<1>7. /\ higher \in [Contexts -> Nat] /\ higher[f] = rank[running] + 1
      /\ \A c \in Contexts \ {f} : higher[c] = rank[c] /\ rank[c] \in Nat
  BY <1>2, <1>5, <1>6 DEF Ranks
<1>8. \A c \in Live : c \in Contexts \ {f} /\ higher[c] < higher[f]
  <2>1. ASSUME NEW c \in Live PROVE c \in Contexts \ {f} /\ higher[c] < higher[f]
    <3>1. c \in Contexts \ {f} /\ running \in Contexts \ {f}
      BY <1>1, <1>2
    <3>2. c = running \/ rank[c] < rank[running]
      BY <1>5 DEF Ranks
    <3> QED
      BY <1>7, <3>1, <3>2
  <2> QED
    BY <2>1
<1>9. Ranks(higher)'
  <2>1. higher[Main] = 0
    BY <1>2, <1>5, <1>7, <1>8 DEF Ranks
  <2>2. \A c \in Live' : c # f => higher[c] < higher[f]
    BY <1>3, <1>8
  <2>3. ASSUME NEW c \in Live', NEW d \in Live', c # d
        PROVE  higher[c] # higher[d]
    <3>1. CASE c \in Live /\ d \in Live
      BY <1>5, <1>7, <1>8, <2>3, <3>1 DEF Ranks
    <3>2. CASE c = f \/ d = f
      <4>1. \A e \in Live : higher[e] # higher[f]
        BY <1>7, <1>8
      <4> QED
        BY <1>3, <2>3, <3>2, <4>1
    <3> QED
      BY <1>3, <3>1, <3>2
  <2>4. ASSUME NEW g \in Fibers, ActiveFiber(g)'
        PROVE  higher[g] = higher[caller_ctx'[g]] + 1
    <3>1. CASE g = f
      BY <1>1, <1>2, <1>4, <1>7, <3>1
    <3>2. CASE g # f
      <4>1. ActiveFiber(g)
        BY <1>1, <2>4, <3>2
      <4>2. /\ caller_ctx[g] \in Contexts /\ point[caller_ctx[g]].at = "resume"
            /\ rank[g] = rank[caller_ctx[g]] + 1
        BY <1>2, <1>5, <4>1 DEF Waits, Ranks
      <4>3. caller_ctx[g] # f
        BY <4>2 DEF Standing
      <4>4. g \in Contexts \ {f}
        BY <3>2 DEF Contexts
      <4> QED
        BY <1>4, <1>7, <3>2, <4>2, <4>3, <4>4
    <3> QED
      BY <3>1, <3>2
  <2>5. \A c \in Live' : c # running' => higher[c] < higher[running']
    BY <2>2
  <2> QED
    BY <1>7, <2>1, <2>3, <2>4, <2>5 DEF Ranks
<1>10. InOrder(higher)'
  <2>1. ASSUME NEW c \in Live', NEW d \in Live',
               NEW i \in 1..Len(frames[c]), NEW j \in 1..Len(frames[d]),
               frames[c][i].kind = frames[d][j].kind,
               higher[c] < higher[d] \/ (c = d /\ i < j)
        PROVE  Number(frames[c][i]) < Number(frames[d][j])
    <3>1. c # f /\ d # f
      BY <1>4
    <3>2. c \in Live /\ d \in Live
      BY <1>3, <3>1
    <3>3. rank[c] < rank[d] \/ (c = d /\ i < j)
      BY <1>7, <1>8, <2>1, <3>2
    <3> QED
      BY <1>5, <2>1, <3>2, <3>3 DEF InOrder
  <2> QED
    BY <1>4, <2>1 DEF InOrder
<1>11. \A c \in Contexts \ Live' : frames'[c] = << >>
  BY <1>3, <1>4 DEF Stacked
<1>12. (\A c \in Contexts : \A i \in 1..Len(frames[c]) :
          Number(frames[c][i]) \in 1..MadeOf(frames[c][i].kind))'
  BY <1>4 DEF Stacked
<1> QED
  BY <1>9, <1>10, <1>11, <1>12 DEF Stacked

\* Who gives control back has closed everything, and gives it to the rank below.
LEMMA GiveBackStacked ==
  ASSUME SwitchInv, Coding, running \in Fibers,
         NEW l \in {"yield", "ended"}, NEW v \in program.values,
         l = "yield" => alive' = alive,
         l = "ended" => alive' = [alive EXCEPT ![running] = FALSE],
         result' = [result EXCEPT ![running] = v],
         point' = [point EXCEPT ![running] = At(l)],
         running' = caller_ctx[running],
         UNCHANGED << current, caller_ctx, resume_args, got, program, registers >>,
         frames[running] = << >>, Stacked
  PROVE  Stacked'
<1>1. /\ running' \in Contexts
      /\ point[running'].at = "resume" /\ point[running'].of = running
      /\ ActiveFiber(running)
      /\ \A g \in Fibers : ActiveFiber(g)' <=> g # running /\ ActiveFiber(g)
  BY GiveBackInv
<1>2. PICK to \in Contexts : to = running'
  BY <1>1
<1>3. /\ running \in Live /\ Live \subseteq Contexts /\ to \in Live /\ to # running
      /\ to = caller_ctx[running]
  BY <1>1, <1>2, CodeFacts, LiveFacts DEF Coding
<1>4. Live' = Live \ {running}
  BY <1>1, Distinct DEF Live
<1>5. frames' = frames /\ made' = made /\ \A k : MadeOf(k)' = MadeOf(k)
  BY DEF registers, MadeOf
<1>6. PICK rank : Ranks(rank) /\ InOrder(rank)
  BY DEF Stacked
<1>7. Ranks(rank)'
  <2>1. rank[running] = rank[to] + 1
    BY <1>1, <1>3, <1>6 DEF Ranks
  <2>2. ASSUME NEW c \in Live', c # to
        PROVE  rank[c] < rank[to]
    <3>1. c \in Live /\ c # running
      BY <1>4
    <3>2. rank[c] < rank[running] /\ rank[c] # rank[to]
      BY <1>3, <1>6, <2>2, <3>1 DEF Ranks
    <3>3. rank[c] \in Nat /\ rank[to] \in Nat
      BY <1>3, <1>6, <3>1 DEF Ranks
    <3> QED
      BY <2>1, <3>2, <3>3
  <2>3. \A c, d \in Live' : c # d => rank[c] # rank[d]
    BY <1>4, <1>6 DEF Ranks
  <2>4. \A g \in Fibers : ActiveFiber(g)' => rank[g] = rank[caller_ctx'[g]] + 1
    BY <1>1, <1>6 DEF Ranks
  <2>5. \A c \in Live' : c # running' => rank[c] < rank[running']
    BY <1>2, <2>2
  <2> QED
    BY <1>6, <2>3, <2>4, <2>5 DEF Ranks
<1>8. InOrder(rank)'
  BY <1>4, <1>5, <1>6 DEF InOrder
<1>9. \A c \in Contexts \ Live' : frames'[c] = << >>
  BY <1>4, <1>5 DEF Stacked
<1>10. (\A c \in Contexts : \A i \in 1..Len(frames[c]) :
          Number(frames[c][i]) \in 1..MadeOf(frames[c][i].kind))'
  BY <1>5 DEF Stacked
<1> QED
  BY <1>7, <1>8, <1>9, <1>10 DEF Stacked

\* Steps after which the same contexts are live.
LEMMA StandStacked ==
  ASSUME Stacked, UNCHANGED << running, caller_ctx, registers >>,
         \A g \in Fibers : ActiveFiber(g)' <=> ActiveFiber(g)
  PROVE  Stacked'
<1>1. Live' = Live
  BY LiveStays
<1>2. frames' = frames /\ \A k : MadeOf(k)' = MadeOf(k)
  BY DEF registers, MadeOf
<1>3. PICK rank : Ranks(rank) /\ InOrder(rank)
  BY DEF Stacked
<1>4. Ranks(rank)' /\ InOrder(rank)'
  BY <1>1, <1>2, <1>3 DEF Ranks, InOrder
<1>5. (\A c \in Contexts : \A i \in 1..Len(frames[c]) :
          Number(frames[c][i]) \in 1..MadeOf(frames[c][i].kind))'
  BY <1>2 DEF Stacked
<1> QED
  BY <1>1, <1>2, <1>4, <1>5 DEF Stacked

LEMMA FlatInit == Init => FlatInv
<1> SUFFICES ASSUME Init PROVE Stacked /\ DefsKnown /\ Handled
  BY DEF FlatInv
<1>1. /\ \A c \in Contexts : frames[c] = << >> /\ Len(frames[c]) = 0
      /\ \A f \in Fibers : ~ActiveFiber(f)
      /\ running = Main
  BY DEF Init, ActiveFiber
<1>2. Live = {Main} /\ \A k : Numbers(k) = {}
  BY <1>1 DEF Live, Numbers
<1>3. PICK rank : rank = [c \in Contexts |-> 0]
  OBVIOUS
<1>4. Ranks(rank)
  BY <1>1, <1>2, <1>3 DEF Ranks, Contexts
<1>5. InOrder(rank)
  BY <1>1, <1>2 DEF InOrder, Contexts
<1>6. Stacked
  BY <1>1, <1>4, <1>5 DEF Stacked
<1>7. active_defs = << TopEnv >> /\ made.defs = 0 /\ rescue_context = Nil
  BY DEF Init
<1>8. DefsKnown
  BY <1>2, <1>7 DEF DefsKnown, TopEnv
<1>9. Handled
  BY <1>1, <1>2, <1>7 DEF Handled, Latest
<1> QED
  BY <1>6, <1>8, <1>9

LEMMA FlatStep ==
  ASSUME SwitchInv, RegisterTypes, FlatInv, [Next]_vars
  PROVE  FlatInv'
<1> SUFFICES ASSUME program'.flat, made'.defs < EvalMaxDepth, running' # Lost
             PROVE  Stacked' /\ DefsKnown' /\ Handled'
  BY DEF FlatInv
<1>1. program' = program /\ running # Lost
  <2>1. program' = program
    BY DEF Next, Switch, New, Resume, ResumeInUse, Refused, Start, Yield, AfterYield, Finish,
           AfterResume, Halted, vars, Evaluate, Call, Return, Rescue, EndRescue
  <2>2. Switch \/ Evaluate => running # Lost
    BY DEF Switch, New, Resume, ResumeInUse, Refused, Start, Yield, AfterYield, Finish,
           AfterResume, Evaluate, Call, Return, Rescue, EndRescue, Calling, Coding, Landed
  <2>3. Halted \/ UNCHANGED vars => running' = running
    BY DEF Halted, vars, switching
  <2> QED
    BY <2>1, <2>2, <2>3 DEF Next
<1>2. made'.defs = made.defs \/ made'.defs = made.defs + 1
  <2>1. Call => made'.defs = made.defs + 1
    BY DEF Call, RegisterTypes
  <2>2. Rescue => made'.defs = made.defs
    BY DEF Rescue, RegisterTypes
  <2>3. Switch \/ Return \/ EndRescue \/ Halted \/ UNCHANGED vars => made' = made
    BY DEF Switch, New, Resume, ResumeInUse, Refused, Start, Yield, AfterYield, Finish,
           AfterResume, Halted, vars, registers, Return, EndRescue
  <2> QED
    BY <2>1, <2>2, <2>3 DEF Next, Evaluate
<1>3. made.defs < EvalMaxDepth
  BY <1>2, FrameFacts, FibersAssumption
<1>4. Stacked /\ DefsKnown /\ Handled
  BY <1>1, <1>3 DEF FlatInv
<1>5. CASE Evaluate
  BY <1>4, <1>5, CallFlat, ReturnFlat, RescueFlat, EndRescueFlat DEF Evaluate
<1>6. UNCHANGED registers /\ Stacked' => DefsKnown' /\ Handled'
  <2>1. UNCHANGED registers => \A k : Numbers(k)' = Numbers(k)
    BY DEF registers, Numbers
  <2> QED
    BY <1>4, <2>1 DEF registers, DefsKnown, Handled, Latest
<1>7. CASE New
  BY <1>4, <1>6, <1>7, NewInv, StandStacked DEF New
<1>8. CASE Resume
  <2>1. PICK f \in Fibers, v \in program.values :
          /\ alive[f] /\ Standing(f)
          /\ resume_args' = [resume_args EXCEPT ![f] = v]
          /\ point' = [point EXCEPT ![running] = Waiting(f, current)]
          /\ current' = f
          /\ caller_ctx' = [caller_ctx EXCEPT ![f] = running]
          /\ running' = f
    BY <1>8 DEF Resume
  <2>2. Calling /\ UNCHANGED << alive, result, got, program, registers >>
    BY <1>8 DEF Resume
  <2> QED
    BY <1>4, <1>6, <2>1, <2>2, ResumeStacked
<1>9. ~ResumeInUse
  BY DEF ResumeInUse
<1>10. CASE Refused
  <2>1. got' \in [Contexts -> Received]
    BY <1>10 DEF Refused, SwitchInv, SwitchTypes, Received
  <2> QED
    BY <1>4, <1>6, <1>10, <2>1, StandInv, StandStacked DEF Refused
<1>11. CASE Start \/ AfterYield
  <2>1. running # Lost /\ point[running].at \in {"start", "yield"}
    BY <1>11 DEF Start, AfterYield, Landed
  <2>2. /\ got' = [got EXCEPT ![running] = resume_args[running]]
        /\ point' = [point EXCEPT ![running] = At("code")]
        /\ UNCHANGED << alive, current, running, caller_ctx, resume_args, result, program,
                        registers >>
    BY <1>11 DEF Start, AfterYield
  <2> QED
    BY <1>4, <1>6, <2>1, <2>2, TakeArgsInv, StandStacked
<1>12. CASE Yield
  <2>1. Coding /\ current # Main /\ frames[running] = << >>
    BY <1>1, <1>12 DEF Yield, Calling
  <2>2. running \in Fibers /\ current = running
    BY <2>1, CodeFacts DEF Contexts
  <2>3. PICK v \in program.values : result' = [result EXCEPT ![running] = v]
    BY <1>12, <2>2 DEF Yield
  <2> QED
    BY <1>4, <1>6, <1>12, <2>1, <2>2, <2>3, GiveBackStacked DEF Yield
<1>13. CASE Finish
  <2>1. Coding /\ running \in Fibers /\ frames[running] = << >>
    BY <1>13 DEF Finish
  <2>2. PICK v \in program.values : result' = [result EXCEPT ![running] = v]
    BY <1>13 DEF Finish
  <2> QED
    BY <1>4, <1>6, <1>13, <2>1, <2>2, GiveBackStacked DEF Finish
<1>14. CASE AfterResume
  BY <1>4, <1>6, <1>14, AfterResumeInv, StandStacked DEF AfterResume
<1>15. CASE Halted \/ UNCHANGED vars
  <2>1. UNCHANGED << alive, current, running, point, caller_ctx, resume_args, result, program, got,
                     registers >>
    BY <1>15 DEF Halted, vars, switching
  <2>2. \A g \in Fibers : ActiveFiber(g)' <=> ActiveFiber(g)
    BY <2>1 DEF ActiveFiber, Standing
  <2> QED
    BY <1>4, <1>6, <2>1, <2>2, StandStacked
<1> QED
  BY <1>5, <1>7, <1>8, <1>9, <1>10, <1>11, <1>12, <1>13, <1>14, <1>15 DEF Next, Switch

\* A fiber that is never suspended inside a method or a rescue body finds the
\* registers its own: its methods are in active_defs, so that return reaches them,
\* and bare raise and __cause__ take the exception it is rescuing; and the main
\* program outside all rescue bodies has no exception at hand. So for any number of
\* fibers and any nesting of resumes, methods and rescues below the depth limit.
THEOREM FlatFibersOwnRegisters == Spec => []OwnRegistersWhenFlat
<1>1. SwitchInv /\ RegisterTypes /\ FlatInv => OwnRegistersWhenFlat
  <2> SUFFICES ASSUME SwitchInv, RegisterTypes, FlatInv, program.flat,
                      made.defs < EvalMaxDepth, Coding
               PROVE  /\ \A i \in 1..Len(Open) : Open[i].kind = "call" =>
                            \E j \in 1..Len(active_defs) : active_defs[j] = Open[i].def
                      /\ \A i \in Rescues :
                            (\A j \in Rescues : j <= i) => rescue_context = Open[i].exn
                      /\ Rescues = {} /\ running = Main => rescue_context = Nil
    BY DEF OwnRegistersWhenFlat, OwnRegisters
  <2>1. /\ Stacked /\ DefsKnown /\ Handled /\ running # Lost
        /\ running \in Contexts /\ Open = frames[running]
    BY CodeFacts DEF FlatInv, Coding, Open
  <2>2. ASSUME NEW i \in 1..Len(Open), Open[i].kind = "call"
        PROVE  \E j \in 1..Len(active_defs) : active_defs[j] = Open[i].def
    <3>1. Open[i].def = Number(Open[i]) /\ Number(Open[i]) \in Nat
      BY <2>1, <2>2, FrameFacts DEF Number
    <3>2. Open[i].def \in Numbers("call")
      BY <2>1, <2>2, <3>1 DEF Numbers
    <3> QED
      BY <2>1, <3>1, <3>2 DEF DefsKnown
  <2>3. ASSUME NEW i \in Rescues, \A j \in Rescues : j <= i
        PROVE  rescue_context = Open[i].exn
    <3>1. i \in 1..Len(Open) /\ Open[i].kind = "rescue"
      BY DEF Rescues
    <3>2. \A j \in 1..Len(Open) : Open[j].kind = Open[i].kind => j <= i
      BY <2>3, <3>1 DEF Rescues
    <3>3. /\ Number(Open[i]) \in Numbers("rescue")
          /\ \A m \in Numbers("rescue") : m <= Number(Open[i])
      BY <2>1, <3>1, <3>2, InnermostIsLatest
    <3>4. Number(Open[i]) = Open[i].exn
      BY <2>1, <3>1, FrameFacts
    <3>5. rescue_context \in Numbers("rescue") /\ Number(Open[i]) <= rescue_context
      BY <2>1, <3>3 DEF Handled, Latest
    <3>6. rescue_context \in Nat /\ Number(Open[i]) \in Nat /\ rescue_context <= Number(Open[i])
      BY <3>3, <3>5 DEF Numbers
    <3> QED
      BY <3>4, <3>5, <3>6
  <2>4. ASSUME Rescues = {}, running = Main
        PROVE  rescue_context = Nil
    <3>1. PICK rank : Ranks(rank)
      BY <2>1 DEF Stacked
    <3>2. Live \subseteq Contexts
      BY <2>1, LiveFacts
    <3>3. \A c \in Live : c = Main
      <4>1. ASSUME NEW c \in Live, c # Main PROVE FALSE
        <5>1. rank[c] < rank[Main] /\ rank[Main] = 0 /\ rank[c] \in Nat
          BY <2>4, <3>1, <3>2, <4>1 DEF Ranks
        <5> QED
          BY <5>1
      <4> QED
        BY <4>1
    <3>4. \A c \in Contexts : \A i \in 1..Len(frames[c]) : frames[c][i].kind # "rescue"
      <4>1. ASSUME NEW c \in Contexts, NEW i \in 1..Len(frames[c]), frames[c][i].kind = "rescue"
            PROVE  FALSE
        <5>1. CASE c = Main
          BY <2>1, <2>4, <4>1, <5>1 DEF Rescues
        <5>2. CASE c # Main
          <6>1. frames[c] = << >>
            BY <2>1, <3>3, <5>2 DEF Stacked
          <6> QED
            BY <4>1, <6>1
        <5> QED
          BY <5>1, <5>2
      <4> QED
        BY <4>1
    <3>5. Numbers("rescue") = {}
      BY <3>4 DEF Numbers
    <3> QED
      BY <2>1, <3>5 DEF Handled, Latest
  <2> QED
    BY <2>2, <2>3, <2>4
<1> QED
  BY <1>1, FlatInit, FlatStep, Switching, RegistersTyped, PTL DEF Spec

=============================================================================
