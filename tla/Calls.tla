------------------------------- MODULE Calls --------------------------------
(***************************************************************************)
(* A call of an operation whose result depends on nothing but its          *)
(* arguments: `call` is the last one, with its arguments and its result.   *)
(* The modules of pure algorithms extend this one and say which calls can  *)
(* be made; every call is made from the same idle state.                   *)
(***************************************************************************)
CONSTANT Nil  \* Ruby's nil

VARIABLE call

Idle == [op |-> "idle"]

NoCall == call = Idle

\* Make the call c, a record with the fields op, the arguments and res.
Make(c) == call = Idle /\ call' = c

\* The next call is made.
Back == call # Idle /\ call' = Idle
=============================================================================
