----------------------------- MODULE Coroutines -----------------------------
(***************************************************************************)
(* What class Fiber promises to a program: resume starts a fiber or goes on *)
(* after its Fiber.yield, with the value given; Fiber.yield and the end of  *)
(* the block go back to whoever resumed it last, with the value given; a    *)
(* dead fiber cannot be resumed and the main program cannot yield.  There   *)
(* are no contexts, saved pointers or mailboxes here: a value is received   *)
(* in the step that hands over control.                                     *)
(***************************************************************************)
CONSTANTS
  Fibers,   \* the fibers a program may make
  Main,     \* the main program
  Values    \* what is passed by resume and Fiber.yield

VARIABLES
  status,   \* of each fiber
  resumer,  \* who waits for each active fiber
  control,  \* whose code runs: Main, a fiber, or Lost
  received  \* what each one got back last

vars == << status, resumer, control, received >>

Lost == "lost"
Nothing == "nothing"
FiberError == "FiberError"

Init ==
  /\ status = [f \in Fibers |-> "unmade"]
  /\ resumer = [f \in Fibers |-> Nothing]
  /\ control = Main
  /\ received = [c \in Fibers \cup {Main} |-> Nothing]

New(f) ==
  /\ control # Lost /\ status[f] = "unmade"
  /\ status' = [status EXCEPT ![f] = "suspended"]
  /\ UNCHANGED << resumer, control, received >>

Resume(f, v) ==
  /\ control # Lost /\ status[f] = "suspended"
  /\ status' = [status EXCEPT ![f] = "active"]
  /\ resumer' = [resumer EXCEPT ![f] = control]
  /\ control' = f
  /\ received' = [received EXCEPT ![f] = v]

\* The fiber that runs gives control and a value to its resumer, suspended
\* there (Fiber.yield) or for good.
GiveBack(next, v) ==
  /\ control \in Fibers
  /\ status' = [status EXCEPT ![control] = next]
  /\ resumer' = [resumer EXCEPT ![control] = Nothing]
  /\ control' = resumer[control]
  /\ received' = [received EXCEPT ![resumer[control]] = v]

\* resume of a dead fiber, Fiber.yield in the main program.
Refused(c) ==
  /\ control = c
  /\ c = Main \/ \E f \in Fibers : status[f] = "ended"
  /\ received' = [received EXCEPT ![c] = FiberError]
  /\ UNCHANGED << status, resumer, control >>

\* Resuming a fiber that is active is outside what the class supports.
Misuse(f) ==
  /\ control # Lost /\ status[f] = "active"
  /\ control' = Lost
  /\ UNCHANGED << status, resumer, received >>

Next ==
  \/ \E f \in Fibers : New(f) \/ Misuse(f)
  \/ \E f \in Fibers, v \in Values : Resume(f, v)
  \/ \E next \in {"suspended", "ended"}, v \in Values : GiveBack(next, v)
  \/ \E c \in Fibers \cup {Main} : Refused(c)

Spec == Init /\ [][Next]_vars
=============================================================================
