---------------------------- MODULE Loader_proofs ----------------------------
(***************************************************************************)
(* Proofs about Loader: current_file is the file of the running code, no   *)
(* file is loaded twice, and at_exit handlers run latest first.  Each rests*)
(* on an invariant about the whole stack of pieces of code, of which the   *)
(* property speaks of the top only.                                        *)
(***************************************************************************)
EXTENDS Loader, SequenceTheorems, TLAPS

Hows == {"program", "require", "load", "method", "bare", "block", "handler"}

Activations ==
  [file : Texts, part : Parts, how : Hows, pc : Nat, saved : Texts, strayed : BOOLEAN]

Registered == [file : Texts, home : Texts, id : Nat, strayed : BOOLEAN]

LoaderTypes ==
  /\ stack \in Seq(Activations) /\ current \in Texts
  /\ DOMAIN home \subseteq Texts /\ \A t \in DOMAIN home : home[t] = t
  /\ loaded \in Seq(Files) /\ signal \in {"none", "error", "exit"}
  /\ handlers \in Seq(Registered) /\ left \in Seq(Registered)
  /\ phase \in {"program", "handlers", "over"}
  /\ ran \in Seq(Nat) /\ due \in Nat /\ circled \in BOOLEAN

\* The program and the handlers are called by main and by nothing else, what is
\* required is a file, and nothing runs when the run is over.
StackInv ==
  /\ \A i \in DOMAIN stack : stack[i].how = "require" => stack[i].file \in Files
  /\ \A i \in DOMAIN stack : i > 1 => stack[i].how \notin {"program", "handler"}
  /\ phase = "over" => stack = <<>>

\* What current_file will be when the k-th piece of code goes on.
CurrentIn(k) == IF k = Len(stack) THEN current ELSE stack[k + 1].saved

\* The i-th piece of code has called those up to the k-th without a receiver,
\* and none of them has strayed.
Line(i, k) ==
  /\ i <= k
  /\ stack[i].how # "bare" /\ stack[i].file # NoFile
  /\ \A j \in i .. k : ~stack[j].strayed
  /\ \A j \in i + 1 .. k : stack[j].how = "bare"
  /\ k < Len(stack) => stack[k + 1].how # "bare"

\* Every piece of code on the stack will find the file it is written in.
CurrentInv == \A i, k \in DOMAIN stack : Line(i, k) => CurrentIn(k) = stack[i].file

Settled(h) == ~h.strayed /\ h.file # NoFile => h.home = h.file

HandlersSettled ==
  /\ \A i \in DOMAIN handlers : Settled(handlers[i])
  /\ \A i \in DOMAIN left : Settled(left[i])

\* The files being required are pairwise different and not yet loaded.
RequiresDiffer ==
  \A i \in DOMAIN stack : stack[i].how = "require" =>
     /\ \A n \in DOMAIN loaded : loaded[n] # stack[i].file
     /\ \A j \in DOMAIN stack : j # i /\ stack[j].how = "require" => stack[j].file # stack[i].file

LoadedInv == circled \/ (IsInjective(loaded) /\ RequiresDiffer)

\* Handlers are numbered in the order of registration, and listed latest first.
IdsCountDown == \A i \in DOMAIN handlers : handlers[i].id = Len(handlers) + 1 - i

RanLatestFirst == Len(ran) <= due /\ \A i \in DOMAIN ran : ran[i] = due + 1 - i

LeftFollows ==
  /\ Len(ran) + Len(left) = due
  /\ \A k \in DOMAIN left : left[k].id = due + 1 - (Len(ran) + k)

OrderInv ==
  /\ phase = "program" => ran = <<>> /\ IdsCountDown
  /\ phase # "program" => RanLatestFirst
  /\ phase = "handlers" /\ (stack # <<>> \/ signal = "none") => LeftFollows
  /\ phase = "over" /\ signal = "none" => Len(ran) = due

LoaderInv ==
  LoaderTypes /\ StackInv /\ CurrentInv /\ HandlersSettled /\ LoadedInv /\ OrderInv

-----------------------------------------------------------------------------
(***************************************************************************)
(* What an action does to the stack and to current_file: one of six things.*)
(***************************************************************************)
Stays == stack' = stack /\ current' \in Texts /\ (stack # <<>> => current' = current)

Advances == stack # <<>> /\ Advance /\ current' = current

Strays == stack # <<>> /\ current' \in Texts /\ stack' = [stack EXCEPT ![Len(stack)].strayed = TRUE]

Pushes(file, part, how) ==
  /\ file \in Texts /\ part \in Parts /\ how \in Hows \ {"program", "handler"}
  /\ how = "require" => file \in Files
  /\ stack # <<>> /\ stack' = Append(stack, Activation(file, part, how))
  /\ current' \in Texts
  /\ IF how = "bare" THEN current' = current ELSE file # NoFile => current' = file

Pops ==
  /\ stack # <<>>
  /\ \/ stack' = Popped
     \/ stack' = IF Len(stack) = 1 THEN <<>> ELSE [Popped EXCEPT ![Len(stack) - 1].pc = @ + 1]
  /\ current' = Restored(Top)

StartsHandler ==
  /\ stack = <<>> /\ phase = "handlers" /\ left # <<>> /\ left' = Tail(left)
  /\ stack' = <<[Activation(Head(left).file, "helper", "handler")
                    EXCEPT !.strayed = Head(left).strayed]>>
  /\ current' = SwitchTo(Head(left).home)

LEMMA TopFacts ==
  ASSUME LoaderTypes, stack # <<>>
  PROVE /\ Len(stack) \in Nat \ {0} /\ Len(stack) \in DOMAIN stack
        /\ DOMAIN stack = 1 .. Len(stack)
        /\ Top = stack[Len(stack)] /\ Top \in Activations
BY EmptySeq, LenProperties, ElementOfSeq DEF LoaderTypes, Top, Last

LEMMA StackFacts ==
  ASSUME LoaderTypes
  PROVE /\ Len(stack) \in Nat /\ DOMAIN stack = 1 .. Len(stack)
        /\ \A i \in DOMAIN stack : stack[i] \in Activations
BY LenProperties, ElementOfSeq DEF LoaderTypes

LEMMA LeftFacts ==
  ASSUME LoaderTypes, left # <<>>
  PROVE /\ Head(left) \in Registered /\ Head(left) = left[1] /\ 1 \in DOMAIN left
        /\ Tail(left) \in Seq(Registered) /\ Len(Tail(left)) = Len(left) - 1
        /\ \A k \in 1 .. Len(Tail(left)) : Tail(left)[k] = left[k + 1] /\ k + 1 \in DOMAIN left
<1>1. left \in Seq(Registered)
  BY DEF LoaderTypes
<1>2. Len(left) \in Nat \ {0} /\ DOMAIN left = 1 .. Len(left) /\ Head(left) = left[1]
  BY <1>1, EmptySeq, LenProperties
<1>3. /\ Head(left) \in Registered
      /\ Tail(left) \in Seq(Registered) /\ Len(Tail(left)) = Len(left) - 1
      /\ \A k \in 1 .. Len(Tail(left)) : Tail(left)[k] = left[k + 1]
  BY <1>1, HeadTailProperties
<1> QED
  BY <1>2, <1>3

LEMMA SwitchToFacts ==
  ASSUME LoaderTypes, NEW f \in Texts
  PROVE SwitchTo(f) \in Texts /\ (f # NoFile => SwitchTo(f) = f)
BY DEF SwitchTo, LoaderTypes

-----------------------------------------------------------------------------
(***************************************************************************)
(* The stack after each of them, piece by piece.                           *)
(***************************************************************************)
SamePiece(a, b) == a.how = b.how /\ a.file = b.file /\ a.saved = b.saved

LEMMA AdvancesPieces ==
  ASSUME LoaderTypes, Advances
  PROVE /\ stack' \in Seq(Activations) /\ Len(stack') = Len(stack)
        /\ \A i \in DOMAIN stack :
              SamePiece(stack'[i], stack[i]) /\ stack'[i].strayed = stack[i].strayed
<1>1. stack[Len(stack)] \in Activations /\ Len(stack) \in DOMAIN stack
  BY TopFacts DEF Advances
<1>2. [stack[Len(stack)] EXCEPT !.pc = @ + 1] \in Activations
  BY <1>1 DEF Activations
<1>3. stack' = [stack EXCEPT ![Len(stack)] = [stack[Len(stack)] EXCEPT !.pc = @ + 1]]
  BY <1>1 DEF Advances, Advance, Advanced
<1>4. stack' \in Seq(Activations) /\ Len(stack') = Len(stack)
  BY <1>1, <1>2, <1>3, ExceptSeq DEF LoaderTypes
<1>5. ASSUME NEW i \in DOMAIN stack
      PROVE SamePiece(stack'[i], stack[i]) /\ stack'[i].strayed = stack[i].strayed
  <2>1. stack'[i] = IF i = Len(stack) THEN [stack[i] EXCEPT !.pc = @ + 1] ELSE stack[i]
    BY <1>3, <1>1, <1>5
  <2>2. stack[i] \in Activations
    BY <1>5, StackFacts
  <2> QED
    BY <2>1, <2>2 DEF SamePiece, Activations
<1> QED
  BY <1>4, <1>5

LEMMA StraysPieces ==
  ASSUME LoaderTypes, Strays
  PROVE /\ stack' \in Seq(Activations) /\ Len(stack') = Len(stack)
        /\ \A i \in DOMAIN stack :
              /\ SamePiece(stack'[i], stack[i])
              /\ stack'[i].strayed = (stack[i].strayed \/ i = Len(stack))
<1>1. stack[Len(stack)] \in Activations /\ Len(stack) \in DOMAIN stack
  BY TopFacts DEF Strays
<1>2. [stack[Len(stack)] EXCEPT !.strayed = TRUE] \in Activations
  BY <1>1 DEF Activations
<1>3. stack' = [stack EXCEPT ![Len(stack)] = [stack[Len(stack)] EXCEPT !.strayed = TRUE]]
  BY <1>1 DEF Strays
<1>4. stack' \in Seq(Activations) /\ Len(stack') = Len(stack)
  BY <1>1, <1>2, <1>3, ExceptSeq DEF LoaderTypes
<1>5. ASSUME NEW i \in DOMAIN stack
      PROVE /\ SamePiece(stack'[i], stack[i])
            /\ stack'[i].strayed = (stack[i].strayed \/ i = Len(stack))
  <2>1. stack'[i] = IF i = Len(stack) THEN [stack[i] EXCEPT !.strayed = TRUE] ELSE stack[i]
    BY <1>3, <1>1, <1>5
  <2>2. stack[i] \in Activations
    BY <1>5, StackFacts
  <2>3. SamePiece(stack'[i], stack[i])
    BY <2>1, <2>2 DEF SamePiece, Activations
  <2>4. i = Len(stack) => stack'[i].strayed = TRUE
    BY <2>1, <2>2 DEF Activations
  <2>5. i # Len(stack) => stack'[i].strayed = stack[i].strayed
    BY <2>1
  <2>6. stack[i].strayed \in BOOLEAN
    BY <2>2 DEF Activations
  <2> QED
    BY <2>3, <2>4, <2>5, <2>6
<1> QED
  BY <1>4, <1>5

LEMMA PushesPieces ==
  ASSUME LoaderTypes, NEW file, NEW part, NEW how, Pushes(file, part, how)
  PROVE /\ stack' \in Seq(Activations) /\ Len(stack') = Len(stack) + 1
        /\ \A i \in DOMAIN stack : stack'[i] = stack[i]
        /\ stack'[Len(stack) + 1].how = how /\ stack'[Len(stack) + 1].file = file
        /\ stack'[Len(stack) + 1].saved = current /\ stack'[Len(stack) + 1].strayed = FALSE
<1> DEFINE a == Activation(file, part, how)
<1>1. a \in Activations /\ a.how = how /\ a.file = file /\ a.saved = current /\ a.strayed = FALSE
  BY DEF Pushes, Activation, Activations, LoaderTypes
<1>2. stack' = Append(stack, a)
  BY DEF Pushes
<1> HIDE DEF a
<1> QED
  BY <1>1, <1>2, AppendProperties DEF LoaderTypes

LEMMA PopsPieces ==
  ASSUME LoaderTypes, Pops
  PROVE /\ stack' \in Seq(Activations) /\ Len(stack') = Len(stack) - 1
        /\ \A i \in 1 .. Len(stack) - 1 :
              /\ SamePiece(stack'[i], stack[i])
              /\ i < Len(stack) - 1 => stack'[i].strayed = stack[i].strayed
              /\ i = Len(stack) - 1 =>
                    stack'[i].strayed = (stack[i].strayed \/ (Top.how = "bare" /\ Top.strayed))
<1> DEFINE n == Len(stack) - 1
<1> DEFINE Last1(a) == IF Top.how = "bare" /\ Top.strayed THEN [a EXCEPT !.strayed = TRUE] ELSE a
<1>1. n \in Nat /\ Top \in Activations /\ \A i \in 1 .. n : stack[i] \in Activations
  BY TopFacts, StackFacts DEF Pops
<1>2. /\ Popped \in Seq(Activations) /\ Len(Popped) = n /\ DOMAIN Popped = 1 .. n
      /\ \A i \in 1 .. n : Popped[i] = IF i = n THEN Last1(stack[i]) ELSE stack[i]
  <2>1. Popped = [i \in 1 .. n |->
                    IF i = n /\ Top.how = "bare" /\ Top.strayed
                    THEN [stack[i] EXCEPT !.strayed = TRUE] ELSE stack[i]]
    BY DEF Popped
  <2>2. \A i \in 1 .. n : [stack[i] EXCEPT !.strayed = TRUE] \in Activations
    BY <1>1 DEF Activations
  <2>3. Popped \in [1 .. n -> Activations]
    BY <2>1, <2>2, <1>1
  <2>4. Popped \in Seq(Activations) /\ Len(Popped) = n /\ DOMAIN Popped = 1 .. n
    BY <2>3, <1>1, LenProperties
  <2> HIDE DEF n
  <2>5. \A i \in 1 .. n : Popped[i] = IF i = n THEN Last1(stack[i]) ELSE stack[i]
    BY <2>1
  <2> QED
    BY <2>4, <2>5
<1>3. \A i \in 1 .. n :
         /\ SamePiece(Popped[i], stack[i])
         /\ i < n => Popped[i].strayed = stack[i].strayed
         /\ i = n => Popped[i].strayed = (stack[i].strayed \/ (Top.how = "bare" /\ Top.strayed))
  <2> SUFFICES ASSUME NEW i \in 1 .. n
               PROVE /\ SamePiece(Popped[i], stack[i])
                     /\ i < n => Popped[i].strayed = stack[i].strayed
                     /\ i = n => Popped[i].strayed =
                                    (stack[i].strayed \/ (Top.how = "bare" /\ Top.strayed))
    OBVIOUS
  <2>1. stack[i] \in Activations
    BY <1>1
  <2>2. CASE i = n /\ Top.how = "bare" /\ Top.strayed
    <3>1. Popped[i] = [stack[i] EXCEPT !.strayed = TRUE]
      BY <1>2, <2>2
    <3>2. Popped[i].strayed = TRUE /\ SamePiece(Popped[i], stack[i])
      BY <3>1, <2>1 DEF SamePiece, Activations
    <3> HIDE DEF n
    <3>3. i = n /\ ~(i < n)
      BY <2>2, <1>1
    <3> QED
      BY <3>2, <3>3, <2>2
  <2>3. CASE ~(i = n /\ Top.how = "bare" /\ Top.strayed)
    <3>1. Popped[i] = stack[i]
      BY <1>2, <2>3
    <3>2. stack[i].strayed \in BOOLEAN
      BY <2>1 DEF Activations
    <3>3. i = n => stack[i].strayed = (stack[i].strayed \/ (Top.how = "bare" /\ Top.strayed))
      BY <3>2, <2>3
    <3> QED
      BY <3>1, <3>3 DEF SamePiece
  <2> QED
    BY <2>2, <2>3
<1>4. CASE stack' = Popped
  BY <1>4, <1>2, <1>3
<1>5. CASE stack' = IF Len(stack) = 1 THEN <<>> ELSE [Popped EXCEPT ![n].pc = @ + 1]
  <2>1. CASE n = 0
    <3>1. stack' = <<>> /\ 1 .. Len(stack) - 1 = {}
      BY <2>1, <1>5, <1>1, TopFacts DEF Pops
    <3>2. stack' \in Seq(Activations) /\ Len(stack') = 0
      BY <3>1, EmptySeq
    <3> QED
      BY <3>1, <3>2, <2>1
  <2>2. CASE n # 0
    <3>1. n \in DOMAIN Popped /\ Popped[n] \in Activations
      BY <2>2, <1>1, <1>2, ElementOfSeq
    <3>2. stack' = [Popped EXCEPT ![n] = [Popped[n] EXCEPT !.pc = @ + 1]]
      BY <3>1, <1>5, <1>1, <2>2
    <3>3. [Popped[n] EXCEPT !.pc = @ + 1] \in Activations
      BY <3>1 DEF Activations
    <3>4. stack' \in Seq(Activations) /\ Len(stack') = n
      BY <3>1, <3>2, <3>3, <1>2, ExceptSeq
    <3>5. ASSUME NEW i \in 1 .. n
          PROVE SamePiece(stack'[i], Popped[i]) /\ stack'[i].strayed = Popped[i].strayed
      <4>1. stack'[i] = IF i = n THEN [Popped[i] EXCEPT !.pc = @ + 1] ELSE Popped[i]
        BY <3>2, <3>5, <1>2
      <4>2. Popped[i] \in Activations
        BY <3>5, <1>2, ElementOfSeq
      <4> QED
        BY <4>1, <4>2 DEF SamePiece, Activations
    <3> HIDE DEF n
    <3>6. \A i \in 1 .. n : SamePiece(stack'[i], stack[i])
      BY <3>5, <1>3 DEF SamePiece
    <3> QED
      BY <3>4, <3>5, <3>6, <1>3 DEF n
  <2> QED
    BY <2>1, <2>2
<1> QED
  BY <1>4, <1>5 DEF Pops

LEMMA StartsHandlerPieces ==
  ASSUME LoaderTypes, StartsHandler
  PROVE /\ Head(left) \in Registered
        /\ stack' \in Seq(Activations) /\ Len(stack') = 1
        /\ stack'[1].how = "handler" /\ stack'[1].file = Head(left).file
        /\ stack'[1].strayed = Head(left).strayed
<1>1. Head(left) \in Registered
  BY LeftFacts DEF StartsHandler
<1> DEFINE a == [Activation(Head(left).file, "helper", "handler")
                    EXCEPT !.strayed = Head(left).strayed]
<1>2. /\ a \in Activations /\ a.how = "handler" /\ a.file = Head(left).file
      /\ a.strayed = Head(left).strayed
  BY <1>1 DEF Activation, Activations, Registered, Hows, Parts, LoaderTypes
<1>3. stack' = <<a>>
  BY DEF StartsHandler
<1> HIDE DEF a
<1> QED
  BY <1>1, <1>2, <1>3

-----------------------------------------------------------------------------
Quiet == Stays \/ Advances \/ Strays \/ Pops \/ StartsHandler

PushesUnder(hows) ==
  \E file \in Texts, part \in Parts, how \in hows \cap Hows : Pushes(file, part, how)

Shape == Quiet \/ PushesUnder(Hows)

LEMMA EnterPushes ==
  ASSUME LoaderTypes, stack # <<>>, NEW file \in Files, NEW how \in {"require", "load"},
         Enter(file, how)
  PROVE Pushes(file, "file", how) /\ PushesUnder({how})
<1>1. Pushes(file, "file", how) /\ file \in Texts /\ how \in Hows /\ "file" \in Parts
  BY LoaderAssumption DEF Enter, Pushes, Texts, Parts, Hows
<1> QED
  BY <1>1 DEF PushesUnder

LEMMA CallPushes ==
  ASSUME LoaderTypes, stack # <<>>, NEW s, Call(s)
  PROVE PushesUnder({"method", "bare", "block"})
<1>1. s.of \in Texts /\ home[s.of] = s.of
  BY DEF Call, LoaderTypes
<1>2. SwitchTo(home[s.of]) \in Texts /\ (s.of # NoFile => SwitchTo(home[s.of]) = s.of)
  BY <1>1, SwitchToFacts
<1>3. /\ Pushes(s.of, "helper", s.op) /\ "helper" \in Parts
      /\ s.op \in {"method", "bare", "block"} \cap Hows
  BY <1>1, <1>2 DEF Call, Pushes, Parts, Hows, LoaderTypes
<1> QED
  BY <1>1, <1>3 DEF PushesUnder

\* The statements that evaluate another piece of code, and those that do not.
LEMMA PushingStatements ==
  ASSUME LoaderTypes, stack # <<>>, NEW s
  PROVE /\ Require(s) => PushesUnder({"require"})
        /\ Load(s) \/ Call(s) => PushesUnder(Hows \ {"require"})
<1>1. ASSUME Require(s) PROVE PushesUnder({"require"})
  BY <1>1, EnterPushes DEF Require
<1>2. ASSUME Load(s) PROVE PushesUnder({"load"})
  BY <1>2, EnterPushes DEF Load
<1> QED
  BY <1>1, <1>2, CallPushes DEF PushesUnder, Hows

LEMMA QuietStatements ==
  ASSUME LoaderTypes, stack # <<>>, NEW s,
         \/ RequireAgain(s) \/ LoadFails(s) \/ RefusedBlock(s) \/ Raise(s) \/ Exit(s)
         \/ AtExit(s) \/ Return(s)
  PROVE Quiet
<1>1. CASE RefusedBlock(s)
  <2>1. home[s.of] \in Texts
    BY <1>1 DEF RefusedBlock, LoaderTypes
  <2> QED
    BY <2>1, <1>1, SwitchToFacts DEF RefusedBlock, Strays, Quiet
<1>2. CASE RequireAgain(s) \/ AtExit(s)
  BY <1>2 DEF RequireAgain, AtExit, Advances, Quiet
<1>3. CASE LoadFails(s) \/ Raise(s) \/ Exit(s)
  BY <1>3 DEF LoadFails, Raise, Exit, Fail, Stays, Quiet, LoaderTypes
<1>4. CASE Return(s)
  BY <1>4 DEF Return, Pops, Quiet
<1> QED
  BY <1>1, <1>2, <1>3, <1>4

LEMMA OtherStepsQuiet ==
  ASSUME LoaderTypes,
         \/ Rescue \/ Unwind \/ ProgramEnds \/ RunHandler \/ SkipHandler \/ RunEnds
         \/ UNCHANGED vars
  PROVE Quiet
<1>1. CASE Rescue
  BY <1>1 DEF Rescue, Advances, Quiet
<1>2. CASE Unwind
  BY <1>2 DEF Unwind, Pops, Quiet
<1>3. CASE RunHandler
  BY <1>3 DEF RunHandler, NextHandler, StartsHandler, Quiet
<1>4. CASE SkipHandler
  <2>1. Head(left).home \in Texts
    BY <1>4, LeftFacts DEF SkipHandler, Registered
  <2> QED
    BY <1>4, <2>1, SwitchToFacts DEF SkipHandler, Stays, Quiet
<1>5. CASE ProgramEnds \/ RunEnds \/ UNCHANGED vars
  BY <1>5 DEF ProgramEnds, RunEnds, vars, Stays, Quiet, LoaderTypes
<1> QED
  BY <1>1, <1>2, <1>3, <1>4, <1>5

\* So every step of the system has one of the shapes.
LEMMA NextShape == ASSUME LoaderTypes, [Next]_vars PROVE Shape
<1>1. CASE Step
  <2>1. stack # <<>>
    BY <1>1 DEF Step, Evaluating
  <2>2. PICK s : \/ Require(s) \/ RequireAgain(s) \/ Load(s) \/ LoadFails(s) \/ Call(s)
                 \/ RefusedBlock(s) \/ Raise(s) \/ Exit(s) \/ AtExit(s) \/ Return(s)
    BY <1>1 DEF Step
  <2>3. CASE Require(s) \/ Load(s) \/ Call(s)
    BY <2>1, <2>3, PushingStatements DEF PushesUnder, Shape
  <2> QED
    BY <2>1, <2>2, <2>3, QuietStatements DEF Shape
<1> QED
  BY <1>1, OtherStepsQuiet DEF Next, Shape

-----------------------------------------------------------------------------
LEMMA PopsCurrent == ASSUME LoaderTypes, Pops PROVE current' \in Texts
<1>1. Top \in Activations
  BY TopFacts DEF Pops
<1> QED
  BY <1>1 DEF Pops, Restored, Activations, LoaderTypes

LEMMA ShapeTypes ==
  ASSUME LoaderTypes, Shape PROVE stack' \in Seq(Activations) /\ current' \in Texts
<1>1. CASE Stays
  BY <1>1 DEF Stays, LoaderTypes
<1>2. CASE Advances
  BY <1>2, AdvancesPieces DEF Advances, LoaderTypes
<1>3. CASE Strays
  BY <1>3, StraysPieces DEF Strays
<1>4. CASE Pops
  BY <1>4, PopsPieces, PopsCurrent
<1>5. CASE StartsHandler
  <2>1. Head(left).home \in Texts
    BY <1>5, StartsHandlerPieces DEF Registered
  <2>2. current' \in Texts
    BY <1>5, <2>1, SwitchToFacts DEF StartsHandler
  <2> QED
    BY <1>5, <2>2, StartsHandlerPieces
<1>6. CASE PushesUnder(Hows)
  <2>1. PICK file \in Texts, part \in Parts, how \in Hows : Pushes(file, part, how)
    BY <1>6 DEF PushesUnder
  <2> QED
    BY <2>1, PushesPieces DEF Pushes
<1> QED
  BY <1>1, <1>2, <1>3, <1>4, <1>5, <1>6 DEF Shape, Quiet

\* home maps every text with a helper to itself: the def_file of a helper is
\* the file it is written in.
LEMMA EnterHome ==
  ASSUME LoaderTypes, NEW file \in Files, NEW how, Enter(file, how)
  PROVE DOMAIN home' \subseteq Texts /\ \A t \in DOMAIN home' : home'[t] = t
BY DEF Enter, LoaderTypes, Texts

LEMMA AtExitHandlers ==
  ASSUME LoaderTypes, stack # <<>>, NEW s, AtExit(s)
  PROVE /\ handlers' \in Seq(Registered) /\ Len(handlers') = Len(handlers) + 1
        /\ handlers'[1].id = Len(handlers) + 1
        /\ handlers'[1].home = current /\ handlers'[1].file = Top.file
        /\ handlers'[1].strayed <=> (Top.strayed \/ Top.how = "bare")
        /\ \A i \in 1 .. Len(handlers) : handlers'[i + 1] = handlers[i]
<1> DEFINE h == [file |-> Top.file, home |-> current, id |-> Len(handlers) + 1,
                 strayed |-> Top.strayed \/ Top.how = "bare"]
<1>1. Top \in Activations /\ handlers \in Seq(Registered) /\ Len(handlers) \in Nat
  BY TopFacts, LenProperties DEF LoaderTypes
<1>2. h \in Registered
  <2>1. (Top.strayed \/ Top.how = "bare") \in BOOLEAN
    OBVIOUS
  <2>2. Top.file \in Texts /\ current \in Texts /\ Len(handlers) + 1 \in Nat
    BY <1>1 DEF Activations, LoaderTypes
  <2> QED
    BY <2>1, <2>2 DEF Registered
<1>3. handlers' = <<h>> \o handlers
  BY DEF AtExit
<1>4. /\ h.id = Len(handlers) + 1 /\ h.home = current /\ h.file = Top.file
      /\ h.strayed <=> (Top.strayed \/ Top.how = "bare")
  OBVIOUS
<1> HIDE DEF h
<1>5. <<h>> \in Seq(Registered) /\ Len(<<h>>) = 1 /\ <<h>>[1] = h
  BY <1>2
<1>6. /\ handlers' \in Seq(Registered) /\ Len(handlers') = Len(handlers) + 1
      /\ \A i \in 1 .. Len(handlers) + 1 :
            handlers'[i] = IF i = 1 THEN h ELSE handlers[i - 1]
  BY <1>1, <1>3, <1>5, ConcatProperties
<1>7. handlers'[1] = h
  BY <1>1, <1>6
<1>8. ASSUME NEW i \in 1 .. Len(handlers) PROVE handlers'[i + 1] = handlers[i]
  BY <1>1, <1>6
<1> QED
  BY <1>4, <1>6, <1>7, <1>8

LEMMA ReturnLoaded ==
  ASSUME LoaderTypes, StackInv, stack # <<>>, NEW s, Return(s)
  PROVE loaded' \in Seq(Files)
<1>1. Top.how = "require" => Top.file \in Files
  BY TopFacts DEF StackInv
<1>2. Top.how = "require" => Append(loaded, Top.file) \in Seq(Files)
  BY <1>1, AppendProperties DEF LoaderTypes
<1> QED
  BY <1>2 DEF Return, MarkLoaded, LoaderTypes

LEMMA TypesStep ==
  ASSUME LoaderTypes, StackInv, [Next]_vars PROVE LoaderTypes'
<1>1. stack' \in Seq(Activations) /\ current' \in Texts
  BY NextShape, ShapeTypes
<1> DEFINE Rest == /\ DOMAIN home' \subseteq Texts /\ \A t \in DOMAIN home' : home'[t] = t
                   /\ loaded' \in Seq(Files) /\ signal' \in {"none", "error", "exit"}
                   /\ handlers' \in Seq(Registered) /\ left' \in Seq(Registered)
                   /\ phase' \in {"program", "handlers", "over"}
                   /\ ran' \in Seq(Nat) /\ due' \in Nat /\ circled' \in BOOLEAN
<1> SUFFICES Rest
  BY <1>1 DEF LoaderTypes
<1> HIDE DEF Rest
<1>2. CASE Step
  <2>1. stack # <<>> /\ UNCHANGED <<phase, left, ran, due>>
    BY <1>2 DEF Step, Evaluating
  <2>2. PICK s : \/ Require(s) \/ RequireAgain(s) \/ Load(s) \/ LoadFails(s) \/ Call(s)
                 \/ RefusedBlock(s) \/ Raise(s) \/ Exit(s) \/ AtExit(s) \/ Return(s)
    BY <1>2 DEF Step
  <2>3. CASE Require(s)
    <3>1. Resolved(s) \in Files /\ Enter(Resolved(s), "require")
      BY <2>3 DEF Require
    <3>2. DOMAIN home' \subseteq Texts /\ \A t \in DOMAIN home' : home'[t] = t
      BY <3>1, EnterHome
    <3> QED
      BY <2>1, <2>3, <3>2 DEF Require, LoaderTypes, Rest
  <2>4. CASE Load(s)
    <3>1. Resolved(s) \in Files /\ Enter(Resolved(s), "load")
      BY <2>4 DEF Load
    <3>2. DOMAIN home' \subseteq Texts /\ \A t \in DOMAIN home' : home'[t] = t
      BY <3>1, EnterHome
    <3> QED
      BY <2>1, <2>4, <3>2 DEF Load, LoaderTypes, Rest
  <2>5. CASE AtExit(s)
    <3>1. handlers' \in Seq(Registered)
      BY <2>1, <2>5, AtExitHandlers
    <3>2. UNCHANGED <<home, loaded, signal, circled>>
      BY <2>5 DEF AtExit
    <3> QED
      BY <2>1, <3>1, <3>2 DEF LoaderTypes, Rest
  <2>6. CASE Return(s)
    <3>1. loaded' \in Seq(Files)
      BY <2>1, <2>6, ReturnLoaded
    <3>2. UNCHANGED <<home, signal, handlers, circled>>
      BY <2>6 DEF Return
    <3> QED
      BY <2>1, <3>1, <3>2 DEF LoaderTypes, Rest
  <2>7. CASE RequireAgain(s) \/ LoadFails(s) \/ Call(s) \/ RefusedBlock(s) \/ Raise(s) \/ Exit(s)
    BY <2>1, <2>7
       DEF RequireAgain, LoadFails, Call, RefusedBlock, Raise, Exit, Fail, LoaderTypes, Rest
  <2> QED
    BY <2>2, <2>3, <2>4, <2>5, <2>6, <2>7
<1>3. CASE Rescue \/ Unwind \/ RunEnds \/ UNCHANGED vars
  BY <1>3 DEF Rescue, Unwind, RunEnds, vars, LoaderTypes, Rest
<1>4. CASE ProgramEnds
  <2>1. Len(handlers) \in Nat /\ <<>> \in Seq(Registered)
    BY LenProperties, EmptySeq DEF LoaderTypes, Rest
  <2> QED
    BY <1>4, <2>1 DEF ProgramEnds, AllHandlers, LoaderTypes, Rest
<1>5. CASE RunHandler
  <2>1. left # <<>> /\ left' = Tail(left) /\ ran' = Append(ran, Head(left).id)
    BY <1>5 DEF RunHandler, NextHandler
  <2>2. Head(left).id \in Nat /\ Tail(left) \in Seq(Registered)
    BY <2>1, LeftFacts DEF Registered
  <2>3. ran' \in Seq(Nat)
    BY <2>1, <2>2, AppendProperties DEF LoaderTypes, Rest
  <2> QED
    BY <1>5, <2>1, <2>2, <2>3 DEF RunHandler, LoaderTypes, Rest
<1>6. CASE SkipHandler
  <2>1. left # <<>> /\ left' = Tail(left)
    BY <1>6 DEF SkipHandler, NextHandler
  <2>2. left' \in Seq(Registered)
    BY <2>1, LeftFacts
  <2> QED
    BY <1>6, <2>2 DEF SkipHandler, LoaderTypes, Rest
<1> QED
  BY <1>2, <1>3, <1>4, <1>5, <1>6 DEF Next

LEMMA StackStep ==
  ASSUME LoaderTypes, StackInv, [Next]_vars PROVE StackInv'
<1>1. Shape /\ DOMAIN stack = 1 .. Len(stack) /\ Len(stack) \in Nat
  BY NextShape, StackFacts
<1>2. DOMAIN stack' = 1 .. Len(stack') /\ Len(stack') \in Nat
  BY <1>1, ShapeTypes, LenProperties
<1>3. /\ \A i \in DOMAIN stack' : stack'[i].how = "require" => stack'[i].file \in Files
      /\ \A i \in DOMAIN stack' : i > 1 => stack'[i].how \notin {"program", "handler"}
  <2>1. CASE Stays
    BY <2>1 DEF Stays, StackInv
  <2>2. CASE Advances
    BY <1>1, <1>2, <2>2, AdvancesPieces DEF StackInv, SamePiece
  <2>3. CASE Strays
    BY <1>1, <1>2, <2>3, StraysPieces DEF StackInv, SamePiece
  <2>4. CASE Pops
    <3>1. /\ Len(stack') = Len(stack) - 1
          /\ \A i \in 1 .. Len(stack) - 1 : SamePiece(stack'[i], stack[i])
      BY <2>4, PopsPieces
    <3>2. \A i \in DOMAIN stack' : i \in DOMAIN stack /\ i \in 1 .. Len(stack) - 1
      BY <1>1, <1>2, <3>1
    <3> QED
      BY <3>1, <3>2 DEF StackInv, SamePiece
  <2>5. CASE StartsHandler
    <3>1. Len(stack') = 1 /\ stack'[1].how = "handler"
      BY <2>5, StartsHandlerPieces
    <3>2. \A i \in DOMAIN stack' : i = 1
      BY <1>2, <3>1
    <3> QED
      BY <3>1, <3>2
  <2>6. CASE PushesUnder(Hows)
    <3>1. PICK file \in Texts, part \in Parts, how \in Hows : Pushes(file, part, how)
      BY <2>6 DEF PushesUnder
    <3>2. /\ Len(stack') = Len(stack) + 1 /\ \A i \in DOMAIN stack : stack'[i] = stack[i]
          /\ stack'[Len(stack')].how = how /\ stack'[Len(stack')].file = file
      BY <3>1, PushesPieces
    <3>3. how \notin {"program", "handler"} /\ (how = "require" => file \in Files)
      BY <3>1 DEF Pushes
    <3> QED
      BY <1>1, <1>2, <3>2, <3>3 DEF StackInv
  <2> QED
    BY <1>1, <2>1, <2>2, <2>3, <2>4, <2>5, <2>6 DEF Shape, Quiet
<1>4. phase' = "over" => stack' = <<>>
  <2>1. CASE Step
    BY <2>1 DEF Step, StackInv
  <2>2. CASE Rescue \/ Unwind \/ UNCHANGED vars
    BY <2>2 DEF Rescue, Unwind, StackInv, vars
  <2>3. CASE ProgramEnds \/ RunHandler \/ SkipHandler \/ RunEnds
    BY <2>3 DEF ProgramEnds, RunHandler, SkipHandler, RunEnds
  <2> QED
    BY <2>1, <2>2, <2>3 DEF Next
<1> QED
  BY <1>3, <1>4 DEF StackInv

-----------------------------------------------------------------------------
(***************************************************************************)
(* Files that are being required.                                          *)
(***************************************************************************)
NothingNewRequired ==
  \A i \in DOMAIN stack' : stack'[i].how = "require" =>
     i \in DOMAIN stack /\ stack[i].how = "require" /\ stack[i].file = stack'[i].file

LEMMA NotRequiring ==
  ASSUME LoaderTypes, Quiet \/ PushesUnder(Hows \ {"require"}) PROVE NothingNewRequired
<1>1. DOMAIN stack = 1 .. Len(stack) /\ Len(stack) \in Nat
  BY StackFacts
<1>2. DOMAIN stack' = 1 .. Len(stack') /\ Len(stack') \in Nat
  BY ShapeTypes, LenProperties DEF Shape, PushesUnder
<1>3. CASE Stays
  BY <1>3 DEF Stays, NothingNewRequired
<1>4. CASE Advances
  BY <1>1, <1>2, <1>4, AdvancesPieces DEF SamePiece, NothingNewRequired
<1>5. CASE Strays
  BY <1>1, <1>2, <1>5, StraysPieces DEF SamePiece, NothingNewRequired
<1>6. CASE Pops
  <2>1. /\ Len(stack') = Len(stack) - 1
        /\ \A i \in 1 .. Len(stack) - 1 : SamePiece(stack'[i], stack[i])
    BY <1>6, PopsPieces
  <2>2. \A i \in DOMAIN stack' : i \in DOMAIN stack /\ i \in 1 .. Len(stack) - 1
    BY <1>1, <1>2, <2>1
  <2> QED
    BY <2>1, <2>2 DEF SamePiece, NothingNewRequired
<1>7. CASE StartsHandler
  <2>1. Len(stack') = 1 /\ stack'[1].how = "handler"
    BY <1>7, StartsHandlerPieces
  <2>2. \A i \in DOMAIN stack' : i = 1
    BY <1>2, <2>1
  <2> QED
    BY <2>1, <2>2 DEF NothingNewRequired
<1>8. CASE PushesUnder(Hows \ {"require"})
  <2>1. PICK file \in Texts, part \in Parts, how \in Hows \ {"require"} : Pushes(file, part, how)
    BY <1>8 DEF PushesUnder
  <2>2. /\ Len(stack') = Len(stack) + 1 /\ \A i \in DOMAIN stack : stack'[i] = stack[i]
        /\ stack'[Len(stack) + 1].how = how
    BY <2>1, PushesPieces
  <2>3. how # "require"
    BY <2>1
  <2>4. \A i \in DOMAIN stack' : i \in DOMAIN stack \/ i = Len(stack) + 1
    BY <1>1, <1>2, <2>2
  <2> QED
    BY <2>2, <2>3, <2>4 DEF NothingNewRequired
<1> QED
  BY <1>3, <1>4, <1>5, <1>6, <1>7, <1>8 DEF Quiet

LEMMA NothingNewKeeps ==
  ASSUME LoadedInv, NothingNewRequired, loaded' = loaded, circled' = circled PROVE LoadedInv'
BY DEF LoadedInv, RequiresDiffer, NothingNewRequired

\* A file that is neither loaded nor being required begins to be.
LEMMA RequireKeeps ==
  ASSUME LoaderTypes, stack # <<>>, LoadedInv, NEW s, Require(s) PROVE LoadedInv'
<1> DEFINE f == Resolved(s)
<1>1. SUFFICES ASSUME ~circled' PROVE IsInjective(loaded') /\ RequiresDiffer'
  BY DEF LoadedInv
<1>2. /\ IsInjective(loaded) /\ RequiresDiffer /\ loaded' = loaded
      /\ \A i \in DOMAIN stack : stack[i].how = "require" => stack[i].file # f
  BY <1>1 DEF Require, LoadedInv
<1>3. \A n \in DOMAIN loaded : loaded[n] # f
  BY DEF Require, HasLoaded, ToSet
<1>4. f \in Files /\ Enter(f, "require")
  BY DEF Require
<1>5. Pushes(f, "file", "require")
  BY <1>4, EnterPushes
<1> HIDE DEF f
<1>6. /\ stack' \in Seq(Activations) /\ Len(stack') = Len(stack) + 1
      /\ \A i \in DOMAIN stack : stack'[i] = stack[i]
      /\ stack'[Len(stack) + 1].file = f
  BY <1>5, PushesPieces
<1>7. \A i \in DOMAIN stack' : i \in DOMAIN stack \/ i = Len(stack) + 1
  BY <1>6, StackFacts, LenProperties
<1>8. RequiresDiffer'
  BY <1>2, <1>3, <1>6, <1>7 DEF RequiresDiffer
<1> QED
  BY <1>2, <1>8

\* The file at the top is no longer being required, and is loaded.
LEMMA ReturnKeeps ==
  ASSUME LoaderTypes, StackInv, stack # <<>>, LoadedInv, NEW s, Return(s) PROVE LoadedInv'
<1>1. SUFFICES ASSUME ~circled' PROVE IsInjective(loaded') /\ RequiresDiffer'
  BY DEF LoadedInv
<1>2. IsInjective(loaded) /\ RequiresDiffer
  BY <1>1 DEF Return, LoadedInv
<1>3. Pops
  BY DEF Return, Pops
<1>4. /\ stack' \in Seq(Activations) /\ Len(stack') = Len(stack) - 1
      /\ \A i \in 1 .. Len(stack) - 1 : SamePiece(stack'[i], stack[i])
  BY <1>3, PopsPieces
<1>5. Len(stack) \in DOMAIN stack /\ Top = stack[Len(stack)] /\ DOMAIN stack = 1 .. Len(stack)
      /\ Len(stack) \in Nat
  BY TopFacts
<1>6. \A i \in DOMAIN stack' :
         i \in DOMAIN stack /\ i # Len(stack) /\ i \in 1 .. Len(stack) - 1
  BY <1>4, <1>5, LenProperties
<1>7. \A i \in DOMAIN stack' :
         stack'[i].how = stack[i].how /\ stack'[i].file = stack[i].file
  BY <1>4, <1>6 DEF SamePiece
<1>8. CASE Top.how # "require"
  <2>1. loaded' = loaded
    BY <1>8 DEF Return
  <2> QED
    BY <1>2, <1>6, <1>7, <2>1 DEF RequiresDiffer
<1>9. CASE Top.how = "require"
  <2>1. loaded' = Append(loaded, Top.file) /\ Top.file \in Files
    BY <1>5, <1>9 DEF Return, MarkLoaded, StackInv
  <2>2. loaded \in Seq(Files) /\ loaded' \in Seq(Files) /\ Len(loaded) \in Nat
        /\ DOMAIN loaded = 1 .. Len(loaded) /\ DOMAIN loaded' = 1 .. Len(loaded) + 1
        /\ loaded'[Len(loaded) + 1] = Top.file
        /\ \A n \in 1 .. Len(loaded) : loaded'[n] = loaded[n]
    BY <2>1, AppendProperties, LenProperties DEF LoaderTypes
  <2>3. \A n \in DOMAIN loaded : loaded[n] # Top.file
    BY <1>2, <1>5, <1>9 DEF RequiresDiffer
  <2>4. \A n \in DOMAIN loaded' : n \in DOMAIN loaded \/ n = Len(loaded) + 1
    BY <2>2
  <2>5. IsInjective(loaded')
    BY <1>2, <2>2, <2>3, <2>4 DEF IsInjective
  <2>6. \A i \in DOMAIN stack' : stack'[i].how = "require" => stack'[i].file # Top.file
    BY <1>2, <1>5, <1>6, <1>7, <1>9 DEF RequiresDiffer
  <2>7. RequiresDiffer'
    BY <1>2, <1>6, <1>7, <2>2, <2>4, <2>6 DEF RequiresDiffer
  <2> QED
    BY <2>5, <2>7
<1> QED
  BY <1>8, <1>9

LEMMA LoadedStep ==
  ASSUME LoaderTypes, StackInv, LoadedInv, [Next]_vars PROVE LoadedInv'
<1>1. ASSUME loaded' = loaded, circled' = circled, Quiet \/ PushesUnder(Hows \ {"require"})
      PROVE LoadedInv'
  BY <1>1, NotRequiring, NothingNewKeeps
<1>2. CASE Step
  <2>1. stack # <<>>
    BY <1>2 DEF Step, Evaluating
  <2>2. PICK s : \/ Require(s) \/ RequireAgain(s) \/ Load(s) \/ LoadFails(s) \/ Call(s)
                 \/ RefusedBlock(s) \/ Raise(s) \/ Exit(s) \/ AtExit(s) \/ Return(s)
    BY <1>2 DEF Step
  <2>3. CASE Require(s) \/ Return(s)
    BY <2>1, <2>3, RequireKeeps, ReturnKeeps
  <2>4. CASE Load(s) \/ Call(s)
    <3>1. loaded' = loaded /\ circled' = circled
      BY <2>4 DEF Load, Call
    <3> QED
      BY <1>1, <2>1, <2>4, <3>1, PushingStatements
  <2>5. CASE \/ RequireAgain(s) \/ LoadFails(s) \/ RefusedBlock(s) \/ Raise(s) \/ Exit(s)
             \/ AtExit(s)
    <3>1. loaded' = loaded /\ circled' = circled
      BY <2>5 DEF RequireAgain, LoadFails, RefusedBlock, Raise, Exit, AtExit
    <3> QED
      BY <1>1, <2>1, <2>5, <3>1, QuietStatements
  <2> QED
    BY <2>2, <2>3, <2>4, <2>5
<1>3. CASE ~Step
  <2>1. loaded' = loaded /\ circled' = circled
    BY <1>3 DEF Next, Rescue, Unwind, ProgramEnds, RunHandler, SkipHandler, RunEnds, vars
  <2> QED
    BY <1>1, <1>3, <2>1, OtherStepsQuiet DEF Next
<1> QED
  BY <1>2, <1>3

-----------------------------------------------------------------------------
(***************************************************************************)
(* current_file.                                                           *)
(***************************************************************************)
LEMMA StaysCurrent == ASSUME LoaderTypes, CurrentInv, Stays PROVE CurrentInv'
<1>1. CASE stack = <<>>
  BY <1>1 DEF Stays, CurrentInv
<1>2. CASE stack # <<>>
  BY <1>2 DEF Stays, CurrentInv, Line, CurrentIn
<1> QED
  BY <1>1, <1>2

LEMMA AdvancesCurrent == ASSUME LoaderTypes, CurrentInv, Advances PROVE CurrentInv'
<1>1. /\ DOMAIN stack = 1 .. Len(stack) /\ DOMAIN stack' = DOMAIN stack /\ Len(stack') = Len(stack)
      /\ Len(stack) \in Nat /\ current' = current
  BY AdvancesPieces, StackFacts, LenProperties DEF Advances
<1>2. \A i \in DOMAIN stack : /\ stack'[i].how = stack[i].how /\ stack'[i].file = stack[i].file
                              /\ stack'[i].saved = stack[i].saved
                              /\ stack'[i].strayed = stack[i].strayed
  BY AdvancesPieces DEF SamePiece
<1>3. ASSUME NEW i \in DOMAIN stack, NEW k \in DOMAIN stack, Line(i, k)'
      PROVE CurrentIn(k)' = stack'[i].file
  <2>1. Line(i, k)
    BY <1>1, <1>2, <1>3 DEF Line
  <2>2. CurrentIn(k) = stack[i].file
    BY <2>1 DEF CurrentInv
  <2> QED
    BY <1>1, <1>2, <2>2 DEF CurrentIn
<1> QED
  BY <1>1, <1>3 DEF CurrentInv

\* A line through the piece that strayed is no line any more.
LEMMA StraysCurrent == ASSUME LoaderTypes, CurrentInv, Strays PROVE CurrentInv'
<1>1. /\ DOMAIN stack = 1 .. Len(stack) /\ DOMAIN stack' = DOMAIN stack /\ Len(stack') = Len(stack)
      /\ Len(stack) \in Nat
  BY StraysPieces, StackFacts, LenProperties
<1>2. \A i \in DOMAIN stack : /\ stack'[i].how = stack[i].how /\ stack'[i].file = stack[i].file
                              /\ stack'[i].saved = stack[i].saved
  BY StraysPieces DEF SamePiece
<1>s. \A i \in DOMAIN stack : ~stack'[i].strayed => ~stack[i].strayed /\ i # Len(stack)
  BY StraysPieces, Zenon
<1>3. ASSUME NEW i \in DOMAIN stack, NEW k \in DOMAIN stack, Line(i, k)'
      PROVE CurrentIn(k)' = stack'[i].file
  <2>1. k # Len(stack)
    BY <1>1, <1>s, <1>3 DEF Line
  <2>2. Line(i, k)
    <3>1. /\ i <= k
          /\ stack'[i].how # "bare" /\ stack'[i].file # NoFile
          /\ \A j \in i .. k : ~stack'[j].strayed
          /\ \A j \in i + 1 .. k : stack'[j].how = "bare"
          /\ k < Len(stack') => stack'[k + 1].how # "bare"
      BY <1>3 DEF Line
    <3>2. /\ i .. k \subseteq DOMAIN stack /\ i + 1 .. k \subseteq DOMAIN stack
          /\ k < Len(stack) => k + 1 \in DOMAIN stack
      BY <1>1, <1>3
    <3>3. \A j \in i .. k : ~stack[j].strayed
      BY <1>s, <3>1, <3>2, Zenon
    <3>4. \A j \in i + 1 .. k : stack[j].how = "bare"
      BY <1>2, <3>1, <3>2, Zenon
    <3>5. k < Len(stack) => stack[k + 1].how # "bare"
      BY <1>1, <1>2, <3>1, <3>2
    <3>6. stack[i].how # "bare" /\ stack[i].file # NoFile
      BY <1>2, <1>3, <3>1
    <3> QED
      BY <3>1, <3>3, <3>4, <3>5, <3>6 DEF Line
  <2>3. CurrentIn(k) = stack[i].file
    BY <2>2 DEF CurrentInv
  <2> QED
    BY <1>1, <1>2, <2>1, <2>3 DEF CurrentIn
<1> QED
  BY <1>1, <1>3 DEF CurrentInv

\* The caller's line ends where it was if the callee saved current_file, and
\* goes on into the callee if not.
LEMMA PushesCurrent ==
  ASSUME LoaderTypes, CurrentInv, PushesUnder(Hows) PROVE CurrentInv'
<1>1. PICK file \in Texts, part \in Parts, how \in Hows : Pushes(file, part, how)
  BY DEF PushesUnder
<1> DEFINE n == Len(stack)
<1>2. /\ stack' \in Seq(Activations) /\ Len(stack') = n + 1
      /\ \A i \in DOMAIN stack : stack'[i] = stack[i]
      /\ stack'[n + 1].how = how /\ stack'[n + 1].file = file
      /\ stack'[n + 1].saved = current /\ stack'[n + 1].strayed = FALSE
  BY <1>1, PushesPieces
<1>3. /\ DOMAIN stack = 1 .. n /\ DOMAIN stack' = 1 .. n + 1 /\ n \in Nat
      /\ n \in DOMAIN stack
  BY <1>1, <1>2, TopFacts, LenProperties DEF Pushes
<1>4. how = "bare" => current' = current
  BY <1>1 DEF Pushes
<1>5. how # "bare" /\ file # NoFile => current' = file
  BY <1>1 DEF Pushes
<1>6. ASSUME NEW i \in DOMAIN stack', NEW k \in DOMAIN stack', Line(i, k)'
      PROVE CurrentIn(k)' = stack'[i].file
  <2>1. CASE k < n
    <3>1. i \in DOMAIN stack /\ k \in DOMAIN stack /\ k + 1 \in DOMAIN stack
      BY <1>3, <2>1, <1>6 DEF Line
    <3>2. Line(i, k)
      BY <1>2, <1>3, <1>6, <2>1, <3>1 DEF Line
    <3>3. CurrentIn(k) = stack[i].file
      BY <3>1, <3>2 DEF CurrentInv
    <3> QED
      BY <1>2, <1>3, <2>1, <3>1, <3>3 DEF CurrentIn
  <2>2. CASE k = n
    <3>1. i \in DOMAIN stack /\ k \in DOMAIN stack
      BY <1>3, <2>2, <1>6 DEF Line
    <3>2. Line(i, k)
      BY <1>2, <1>3, <1>6, <2>2, <3>1 DEF Line
    <3>3. current = stack[i].file
      BY <2>2, <3>1, <3>2 DEF CurrentInv, CurrentIn
    <3>4. n \in Nat
      BY StackFacts
    <3>5. k # Len(stack') /\ stack'[k + 1].saved = current
      <4> HIDE DEF n
      <4> QED
        BY <1>2, <2>2, <3>4
    <3> QED
      BY <1>2, <3>1, <3>3, <3>5 DEF CurrentIn
  <2>3. CASE k = n + 1 /\ i = n + 1
    BY <1>2, <1>3, <1>5, <1>6, <2>3 DEF Line, CurrentIn
  <2>4. CASE k = n + 1 /\ i # n + 1
    <3>1. i \in DOMAIN stack /\ i <= n
      BY <1>3, <2>4
    <3>2. how = "bare"
      BY <1>2, <1>3, <1>6, <2>4, <3>1 DEF Line
    <3>3. Line(i, n)
      BY <1>2, <1>3, <1>6, <2>4, <3>1 DEF Line
    <3>4. current = stack[i].file
      BY <1>3, <3>1, <3>3 DEF CurrentInv, CurrentIn
    <3> QED
      BY <1>2, <1>3, <1>4, <2>4, <3>1, <3>2, <3>4 DEF CurrentIn
  <2> QED
    BY <1>3, <2>1, <2>2, <2>3, <2>4
<1> QED
  BY <1>6 DEF CurrentInv

\* What the callee put back is what its caller's line needs.
LEMMA PopsCurrentFile ==
  ASSUME LoaderTypes, StackInv, CurrentInv, Pops PROVE CurrentInv'
<1> DEFINE n == Len(stack)
<1>1. /\ n \in Nat \ {0} /\ n \in DOMAIN stack /\ DOMAIN stack = 1 .. n
      /\ Top = stack[n] /\ Top \in Activations
  BY TopFacts DEF Pops
<1>2. /\ stack' \in Seq(Activations) /\ Len(stack') = n - 1
      /\ \A i \in 1 .. n - 1 :
            /\ stack'[i].how = stack[i].how /\ stack'[i].file = stack[i].file
            /\ stack'[i].saved = stack[i].saved
  BY PopsPieces DEF SamePiece
<1>s. \A i \in 1 .. n - 1 :
         ~stack'[i].strayed =>
            ~stack[i].strayed /\ (i = n - 1 => ~(Top.how = "bare" /\ Top.strayed))
  <2>1. n \in Int
    BY <1>1
  <2> HIDE DEF n
  <2>2. \A i \in 1 .. n - 1 : i < n - 1 \/ i = n - 1
    BY <2>1
  <2> QED
    BY <2>2, PopsPieces, Zenon DEF n
<1>3. DOMAIN stack' = 1 .. n - 1
  BY <1>2, LenProperties
<1>4. current' = Restored(Top)
  BY DEF Pops
<1>5. ASSUME NEW i \in DOMAIN stack', NEW k \in DOMAIN stack', Line(i, k)'
      PROVE CurrentIn(k)' = stack'[i].file
  <2>1. i \in 1 .. k /\ k \in 1 .. n - 1 /\ i \in DOMAIN stack /\ k \in DOMAIN stack /\ n > 1
    BY <1>1, <1>3, <1>5 DEF Line
  <2>2. /\ stack[i].how # "bare" /\ stack[i].file # NoFile
        /\ \A j \in i .. k : ~stack[j].strayed
        /\ \A j \in i + 1 .. k : stack[j].how = "bare"
    <3>1. \A j \in i .. k : j \in 1 .. n - 1 /\ j \in DOMAIN stack
      BY <1>1, <2>1
    <3>2. \A j \in i .. k : ~stack'[j].strayed
      BY <1>5 DEF Line
    <3>3. \A j \in i .. k : ~stack[j].strayed
      BY <1>s, <3>1, <3>2
    <3>4. \A j \in i + 1 .. k : stack'[j].how = "bare" /\ j \in i .. k
      BY <1>5, <2>1 DEF Line
    <3>5. \A j \in i + 1 .. k : stack[j].how = "bare"
      BY <1>2, <3>1, <3>4
    <3>6. i \in 1 .. n - 1
      BY <1>3
    <3>7. stack[i].how # "bare" /\ stack[i].file # NoFile
      BY <1>2, <1>5, <3>6 DEF Line
    <3> QED
      BY <3>3, <3>5, <3>7
  <2>3. CASE k < n - 1
    <3>1. /\ k + 1 \in 1 .. n - 1 /\ k < Len(stack') /\ k # Len(stack') /\ k # n
          /\ i \in 1 .. n - 1 /\ i <= k
      BY <1>1, <1>2, <2>1, <2>3
    <3>2. stack'[k + 1].how # "bare" /\ stack[k + 1].how # "bare"
      BY <1>2, <1>5, <3>1 DEF Line
    <3>3. Line(i, k)
      BY <2>2, <3>1, <3>2 DEF Line
    <3>4. stack[k + 1].saved = stack[i].file
      BY <2>1, <3>1, <3>3 DEF CurrentInv, CurrentIn
    <3> QED
      BY <1>2, <3>1, <3>4 DEF CurrentIn
  <2>4. CASE k = n - 1 /\ Top.how # "bare"
    <3>1. Line(i, k)
      BY <1>1, <2>1, <2>2, <2>4 DEF Line
    <3>2. stack[n].saved = stack[i].file
      BY <1>1, <2>1, <2>4, <3>1 DEF CurrentInv, CurrentIn
    <3>3. Top.how # "program"
      BY <1>1, <2>1 DEF StackInv
    <3>4. current' = stack[i].file
      BY <1>1, <1>4, <2>4, <3>2, <3>3 DEF Restored
    <3> QED
      BY <1>2, <2>1, <2>4, <3>4 DEF CurrentIn
  <2>5. CASE k = n - 1 /\ Top.how = "bare"
    <3>1. ~stack'[k].strayed
      BY <1>3, <1>5, <2>1 DEF Line
    <3>2. ~stack[n].strayed
      BY <1>1, <1>s, <2>1, <2>5, <3>1
    <3>3. Line(i, n)
      BY <1>1, <2>1, <2>2, <2>5, <3>2 DEF Line
    <3>4. current = stack[i].file
      BY <1>1, <2>1, <3>3 DEF CurrentInv, CurrentIn
    <3>5. current' = stack[i].file
      BY <1>4, <2>5, <3>4 DEF Restored
    <3> QED
      BY <1>2, <2>1, <2>5, <3>5 DEF CurrentIn
  <2> QED
    BY <1>1, <2>1, <2>3, <2>4, <2>5
<1> QED
  BY <1>5 DEF CurrentInv

LEMMA StartsHandlerCurrent ==
  ASSUME LoaderTypes, HandlersSettled, StartsHandler PROVE CurrentInv'
<1>1. /\ Head(left) \in Registered /\ Settled(Head(left))
  BY LeftFacts DEF StartsHandler, HandlersSettled
<1>2. /\ Len(stack') = 1 /\ DOMAIN stack' = {1}
      /\ stack'[1].file = Head(left).file /\ stack'[1].strayed = Head(left).strayed
  BY StartsHandlerPieces, LenProperties
<1>3. current' = SwitchTo(Head(left).home)
  BY DEF StartsHandler
<1>4. ASSUME ~Head(left).strayed, Head(left).file # NoFile PROVE current' = Head(left).file
  BY <1>1, <1>3, <1>4, SwitchToFacts DEF Settled, Registered
<1>5. ASSUME Line(1, 1)' PROVE CurrentIn(1)' = stack'[1].file
  BY <1>2, <1>4, <1>5 DEF Line, CurrentIn
<1> QED
  BY <1>2, <1>5 DEF CurrentInv

LEMMA CurrentStep ==
  ASSUME LoaderTypes, StackInv, CurrentInv, HandlersSettled, [Next]_vars PROVE CurrentInv'
BY NextShape, StaysCurrent, AdvancesCurrent, StraysCurrent, PushesCurrent, PopsCurrentFile,
   StartsHandlerCurrent DEF Shape, Quiet

-----------------------------------------------------------------------------
(***************************************************************************)
(* The handlers: where their blocks were made, and the order they run in.  *)
(***************************************************************************)
\* What a step does to the list of handlers and to those left to call.
LEMMA HandlersStep ==
  ASSUME LoaderTypes, [Next]_vars
  PROVE /\ handlers' = handlers \/ (stack # <<>> /\ \E s : AtExit(s))
        /\ \/ left' = left
           \/ left # <<>> /\ left' = Tail(left)
           \/ handlers' = handlers /\ (left' = <<>> \/ left' = handlers)
<1>1. CASE Step
  <2>1. PICK s : \/ Require(s) \/ RequireAgain(s) \/ Load(s) \/ LoadFails(s) \/ Call(s)
                 \/ RefusedBlock(s) \/ Raise(s) \/ Exit(s) \/ AtExit(s) \/ Return(s)
    BY <1>1 DEF Step
  <2>2. stack # <<>> /\ left' = left
    BY <1>1 DEF Step, Evaluating
  <2>3. ~AtExit(s) => handlers' = handlers
    BY <2>1 DEF Require, RequireAgain, Load, LoadFails, Call, RefusedBlock, Raise, Exit, Return
  <2> QED
    BY <2>2, <2>3
<1>2. CASE ~Step
  BY <1>2 DEF Next, Rescue, Unwind, ProgramEnds, RunHandler, SkipHandler, RunEnds, NextHandler,
              AllHandlers, vars
<1> QED
  BY <1>1, <1>2

\* A handler registered by code that has not strayed is of the file that
\* current_file names.
LEMMA AtExitSettled ==
  ASSUME LoaderTypes, CurrentInv, HandlersSettled, stack # <<>>, NEW s, AtExit(s)
  PROVE \A i \in DOMAIN handlers' : Settled(handlers'[i])
<1>1. /\ handlers' \in Seq(Registered) /\ Len(handlers') = Len(handlers) + 1
      /\ handlers'[1].home = current /\ handlers'[1].file = Top.file
      /\ handlers'[1].strayed <=> (Top.strayed \/ Top.how = "bare")
      /\ \A i \in 1 .. Len(handlers) : handlers'[i + 1] = handlers[i]
  BY AtExitHandlers
<1>2. /\ Len(handlers) \in Nat /\ DOMAIN handlers = 1 .. Len(handlers)
      /\ DOMAIN handlers' = 1 .. Len(handlers')
  BY <1>1, LenProperties DEF LoaderTypes
<1>3. Settled(handlers'[1])
  <2>1. SUFFICES ASSUME ~Top.strayed, Top.how # "bare", Top.file # NoFile
                 PROVE current = Top.file
    BY <1>1 DEF Settled
  <2>2. Len(stack) \in DOMAIN stack /\ Top = stack[Len(stack)] /\ Len(stack) \in Nat
    BY TopFacts
  <2>3. Line(Len(stack), Len(stack))
    BY <2>1, <2>2 DEF Line
  <2> QED
    BY <2>2, <2>3 DEF CurrentInv, CurrentIn
<1>4. ASSUME NEW i \in DOMAIN handlers', i # 1 PROVE Settled(handlers'[i])
  <2>1. i - 1 \in 1 .. Len(handlers) /\ (i - 1) + 1 = i
    BY <1>1, <1>2, <1>4
  <2>2. handlers'[i] = handlers[i - 1]
    BY <1>1, <2>1
  <2> QED
    BY <1>2, <2>1, <2>2 DEF HandlersSettled
<1> QED
  BY <1>3, <1>4

LEMMA SettledStep ==
  ASSUME LoaderTypes, CurrentInv, HandlersSettled, [Next]_vars PROVE HandlersSettled'
<1>1. \A i \in DOMAIN handlers' : Settled(handlers'[i])
  BY HandlersStep, AtExitSettled DEF HandlersSettled
<1>2. \A i \in DOMAIN left' : Settled(left'[i])
  <2>1. CASE left' = left \/ left' = handlers
    BY <2>1 DEF HandlersSettled
  <2>2. CASE left' = <<>>
    BY <2>2
  <2>3. CASE left # <<>> /\ left' = Tail(left)
    <3>1. DOMAIN left' = 1 .. Len(left')
      BY <2>3, LeftFacts, LenProperties
    <3> QED
      BY <2>3, <3>1, LeftFacts DEF HandlersSettled
  <2> QED
    BY <2>1, <2>2, <2>3, HandlersStep
<1> QED
  BY <1>1, <1>2 DEF HandlersSettled

LEMMA AtExitCountsDown ==
  ASSUME LoaderTypes, IdsCountDown, stack # <<>>, NEW s, AtExit(s) PROVE IdsCountDown'
<1>1. /\ handlers' \in Seq(Registered) /\ Len(handlers') = Len(handlers) + 1
      /\ handlers'[1].id = Len(handlers) + 1
      /\ \A i \in 1 .. Len(handlers) : handlers'[i + 1] = handlers[i]
  BY AtExitHandlers
<1>2. /\ Len(handlers) \in Nat /\ DOMAIN handlers = 1 .. Len(handlers)
      /\ DOMAIN handlers' = 1 .. Len(handlers')
  BY <1>1, LenProperties DEF LoaderTypes
<1>3. ASSUME NEW i \in DOMAIN handlers', i # 1
      PROVE handlers'[i].id = Len(handlers') + 1 - i
  <2>1. i - 1 \in 1 .. Len(handlers) /\ (i - 1) + 1 = i
    BY <1>1, <1>2, <1>3
  <2>2. handlers'[i].id = Len(handlers) + 1 - (i - 1)
    BY <1>1, <1>2, <2>1 DEF IdsCountDown
  <2> QED
    BY <1>1, <1>2, <2>1, <2>2
<1>4. handlers'[1].id = Len(handlers') + 1 - 1
  BY <1>1, <1>2
<1> QED
  BY <1>3, <1>4 DEF IdsCountDown

\* Running the first of the handlers left appends the next lower id.
LEMMA RunHandlerOrder ==
  ASSUME LoaderTypes, RanLatestFirst, LeftFollows, RunHandler
  PROVE RanLatestFirst' /\ LeftFollows'
<1> DEFINE r == Len(ran)
<1>1. left # <<>> /\ left' = Tail(left) /\ ran' = Append(ran, Head(left).id) /\ due' = due
  BY DEF RunHandler, NextHandler
<1>2. /\ r \in Nat /\ due \in Nat /\ Len(left) \in Nat /\ DOMAIN ran = 1 .. r
      /\ r + Len(left) = due
  BY LenProperties DEF LoaderTypes, LeftFollows
<1>3. /\ Head(left).id \in Nat /\ Head(left) = left[1] /\ 1 \in DOMAIN left
      /\ Len(left') = Len(left) - 1
      /\ \A k \in 1 .. Len(left') : left'[k] = left[k + 1] /\ k + 1 \in DOMAIN left
      /\ left' \in Seq(Registered)
  BY <1>1, LeftFacts DEF Registered
<1>4. Head(left).id = due + 1 - (r + 1)
  BY <1>3 DEF LeftFollows
<1>5. /\ ran' \in Seq(Nat) /\ Len(ran') = r + 1 /\ ran'[r + 1] = Head(left).id
      /\ \A i \in 1 .. r : ran'[i] = ran[i]
  BY <1>1, <1>3, AppendProperties DEF LoaderTypes
<1>6. DOMAIN ran' = 1 .. r + 1 /\ DOMAIN left' = 1 .. Len(left')
  BY <1>3, <1>5, LenProperties
<1>7. Len(left) # 0
  BY <1>1, EmptySeq DEF LoaderTypes
<1> HIDE DEF r
<1>8. \A i \in DOMAIN ran' : ran'[i] = due + 1 - i
  <2>1. \A i \in 1 .. r : ran[i] = due + 1 - i
    BY <1>2 DEF RanLatestFirst
  <2>2. \A i \in DOMAIN ran' : i \in 1 .. r \/ i = r + 1
    BY <1>2, <1>6
  <2> QED
    BY <1>4, <1>5, <2>1, <2>2
<1>9. ASSUME NEW k \in DOMAIN left' PROVE left'[k].id = due + 1 - (r + 1 + k)
  <2>1. k \in Nat /\ left'[k] = left[k + 1] /\ k + 1 \in DOMAIN left
    BY <1>3, <1>6
  <2>2. left[k + 1].id = due + 1 - (r + (k + 1))
    BY <2>1 DEF LeftFollows, r
  <2> QED
    BY <1>2, <2>1, <2>2
<1>10. RanLatestFirst'
  BY <1>1, <1>2, <1>5, <1>7, <1>8 DEF RanLatestFirst
<1>11. Len(ran') + Len(left') = due'
  BY <1>1, <1>2, <1>3, <1>5
<1>12. \A k \in DOMAIN left' : left'[k].id = due' + 1 - (Len(ran') + k)
  BY <1>1, <1>5, <1>9
<1>13. LeftFollows'
  BY <1>11, <1>12 DEF LeftFollows
<1> QED
  BY <1>10, <1>13

LEMMA ProgramEndsOrder == ASSUME LoaderTypes, OrderInv, ProgramEnds PROVE OrderInv'
<1>1. /\ ran = <<>> /\ ran' = ran /\ IdsCountDown /\ due' = Len(handlers)
      /\ phase' = IF signal = "error" THEN "over" ELSE "handlers"
      /\ left' = IF signal = "error" THEN <<>> ELSE handlers
      /\ signal' = signal
  BY DEF ProgramEnds, OrderInv, AllHandlers
<1>2. Len(handlers) \in Nat /\ Len(ran') = 0 /\ DOMAIN ran' = {}
  BY <1>1, LenProperties, EmptySeq DEF LoaderTypes
<1>3. RanLatestFirst'
  BY <1>1, <1>2 DEF RanLatestFirst
<1>4. phase' = "handlers" => LeftFollows'
  <2>1. SUFFICES ASSUME phase' = "handlers" PROVE LeftFollows'
    OBVIOUS
  <2>2. left' = handlers
    BY <1>1, <2>1
  <2>3. DOMAIN handlers = 1 .. Len(handlers)
    BY LenProperties DEF LoaderTypes
  <2>4. \A k \in DOMAIN handlers : handlers[k].id = Len(handlers) + 1 - (0 + k)
    BY <1>1, <1>2, <2>3 DEF IdsCountDown
  <2> QED
    BY <1>1, <1>2, <2>2, <2>4 DEF LeftFollows
<1>5. phase' # "program" /\ (phase' = "over" => signal' # "none")
  BY <1>1
<1> QED
  BY <1>3, <1>4, <1>5 DEF OrderInv

LEMMA OrderStep ==
  ASSUME LoaderTypes, StackInv, OrderInv, [Next]_vars PROVE OrderInv'
<1>1. ASSUME UNCHANGED <<phase, left, ran, due>>, phase = "program" => IdsCountDown',
             phase = "handlers" /\ (stack' # <<>> \/ signal' = "none") =>
                stack # <<>> \/ signal = "none",
             phase = "over" /\ signal' = "none" => signal = "none"
      PROVE OrderInv'
  BY <1>1 DEF OrderInv, RanLatestFirst, LeftFollows
<1>2. CASE Step
  <2>1. UNCHANGED <<phase, left, ran, due>> /\ stack # <<>> /\ phase # "over"
    BY <1>2 DEF Step, Evaluating
  <2>2. CASE handlers' = handlers
    BY <1>1, <2>1, <2>2 DEF OrderInv, IdsCountDown
  <2>3. CASE \E s : AtExit(s)
    BY <1>1, <2>1, <2>3, AtExitCountsDown DEF OrderInv
  <2> QED
    BY <2>2, <2>3, HandlersStep
<1>3. CASE Rescue \/ Unwind \/ UNCHANGED vars
  <2>1. UNCHANGED <<handlers, phase, left, ran, due>>
    BY <1>3 DEF Rescue, Unwind, vars
  <2>2. stack # <<>> \/ (stack' = stack /\ signal' = signal)
    BY <1>3 DEF Rescue, Unwind, vars
  <2>3. phase = "over" => stack = <<>>
    BY DEF StackInv
  <2> QED
    BY <1>1, <2>1, <2>2, <2>3 DEF OrderInv, IdsCountDown
<1>4. CASE ProgramEnds
  BY <1>4, ProgramEndsOrder
<1>5. CASE RunHandler
  <2>1. phase = "handlers" /\ phase' = phase /\ signal = "none"
    BY <1>5 DEF RunHandler
  <2>2. RanLatestFirst' /\ LeftFollows'
    BY <1>5, <2>1, RunHandlerOrder DEF OrderInv
  <2> QED
    BY <2>1, <2>2 DEF OrderInv
<1>6. CASE SkipHandler
  <2>1. /\ phase = "handlers" /\ phase' = phase /\ ran' = ran /\ due' = due
        /\ stack' = <<>> /\ signal' # "none"
    BY <1>6 DEF SkipHandler
  <2> QED
    BY <2>1 DEF OrderInv, RanLatestFirst
<1>7. CASE RunEnds
  <2>1. /\ phase = "handlers" /\ phase' = "over" /\ ran' = ran /\ due' = due
        /\ left = <<>> /\ signal' = signal
    BY <1>7 DEF RunEnds
  <2>2. RanLatestFirst'
    BY <2>1 DEF OrderInv, RanLatestFirst
  <2>3. signal = "none" => Len(ran) = due
    <3>1. Len(left) = 0 /\ Len(ran) \in Nat
      BY <2>1, EmptySeq, LenProperties DEF LoaderTypes
    <3> QED
      BY <2>1, <3>1 DEF OrderInv, LeftFollows
  <2> QED
    BY <2>1, <2>2, <2>3 DEF OrderInv
<1> QED
  BY <1>2, <1>3, <1>4, <1>5, <1>6, <1>7 DEF Next

-----------------------------------------------------------------------------
LEMMA InitInv == Init => LoaderInv
<1> SUFFICES ASSUME Init PROVE LoaderInv
  OBVIOUS
<1> DEFINE a == Activation(current, "file", "program")
<1>1. current \in Texts
  BY LoaderAssumption DEF Init, Texts
<1>2. /\ a \in Activations /\ a.how = "program" /\ a.file = current /\ ~a.strayed
  BY <1>1 DEF Activation, Activations, Hows, Parts
<1>3. stack = <<a>>
  BY DEF Init
<1> HIDE DEF a
<1>4. stack \in Seq(Activations) /\ DOMAIN stack = {1} /\ Len(stack) = 1 /\ stack[1] = a
  BY <1>2, <1>3
<1>5. LoaderTypes
  BY <1>1, <1>4, EmptySeq DEF Init, LoaderTypes
<1>6. StackInv
  BY <1>2, <1>4 DEF Init, StackInv
<1>7. CurrentInv
  BY <1>2, <1>4 DEF CurrentInv, CurrentIn, Line
<1>8. HandlersSettled
  BY DEF Init, HandlersSettled
<1>9. LoadedInv
  BY <1>2, <1>4 DEF Init, LoadedInv, RequiresDiffer, IsInjective
<1>10. OrderInv
  BY DEF Init, OrderInv, IdsCountDown
<1> QED
  BY <1>5, <1>6, <1>7, <1>8, <1>9, <1>10 DEF LoaderInv

LEMMA NextInv == LoaderInv /\ [Next]_vars => LoaderInv'
BY TypesStep, StackStep, CurrentStep, SettledStep, LoadedStep, OrderStep DEF LoaderInv

\* The registers of the loader keep their types; home gives every helper the
\* file it is written in.
THEOREM LoaderTypesCorrect == Spec => []LoaderTypes
<1>1. LoaderInv => LoaderTypes
  BY DEF LoaderInv
<1> QED
  BY InitInv, NextInv, <1>1, PTL DEF Spec

\* current_file is the file that the running code is written in, whoever called
\* whom and whatever failed in between, outside methods called without a
\* receiver and code that a refused block has led astray.
THEOREM CurrentFileCorrect == Spec => []CurrentFileHonest
<1>1. LoaderInv => CurrentFileHonest
  <2>1. SUFFICES ASSUME LoaderInv, stack # <<>>, Top.how # "bare", ~Top.strayed, Top.file # NoFile
                 PROVE current = Top.file
    BY DEF CurrentFileHonest, Evaluating
  <2>2. Len(stack) \in DOMAIN stack /\ Top = stack[Len(stack)] /\ Len(stack) \in Nat
    BY <2>1, TopFacts DEF LoaderInv
  <2>3. Line(Len(stack), Len(stack))
    BY <2>1, <2>2 DEF Line
  <2> QED
    BY <2>1, <2>2, <2>3 DEF LoaderInv, CurrentInv, CurrentIn
<1> QED
  BY InitInv, NextInv, <1>1, PTL DEF Spec

\* No file gets into loaded_files twice, unless one was required inside itself.
THEOREM LoadedOnceCorrect == Spec => []LoadedOnce
<1>1. LoaderInv => LoadedOnce
  BY DEF LoaderInv, LoadedInv, LoadedOnce
<1> QED
  BY InitInv, NextInv, <1>1, PTL DEF Spec

\* The handlers of at_exit run latest first, each once, and all of them if
\* nothing ended the run before.
THEOREM HandlersCorrect == Spec => []HandlersLatestFirst
<1>1. LoaderInv => HandlersLatestFirst
  <2>1. SUFFICES ASSUME LoaderInv, phase = "over"
                 PROVE /\ IsPrefix(ran, [i \in 1 .. due |-> due + 1 - i])
                       /\ signal = "none" => Len(ran) = due
    BY DEF HandlersLatestFirst
  <2> DEFINE down == [i \in 1 .. due |-> due + 1 - i]
  <2>2. /\ ran \in Seq(Nat) /\ due \in Nat /\ Len(ran) \in Nat /\ DOMAIN ran = 1 .. Len(ran)
        /\ RanLatestFirst
    BY <2>1, LenProperties DEF LoaderInv, LoaderTypes, OrderInv
  <2>3. Len(down) = due /\ \A i \in 1 .. due : down[i] = due + 1 - i
    BY <2>2
  <2> HIDE DEF down
  <2>4. \A i \in 1 .. Len(ran) : ran[i] = down[i]
    BY <2>2, <2>3 DEF RanLatestFirst
  <2>5. SubSeq(ran, 1, Len(ran)) = SubSeq(down, 1, Len(ran))
    <3>1. SubSeq(ran, 1, Len(ran)) = [i \in 1 .. Len(ran) |-> ran[i]]
      BY <2>2
    <3>2. SubSeq(down, 1, Len(ran)) = [i \in 1 .. Len(ran) |-> down[i]]
      BY <2>2, <2>3
    <3> QED
      BY <2>4, <3>1, <3>2
  <2>6. IsPrefix(ran, down)
    BY <2>2, <2>3, <2>5 DEF IsPrefix, RanLatestFirst
  <2>7. signal = "none" => Len(ran) = due
    BY <2>1 DEF LoaderInv, OrderInv
  <2> QED
    BY <2>6, <2>7 DEF down
<1> QED
  BY InitInv, NextInv, <1>1, PTL DEF Spec
=============================================================================
