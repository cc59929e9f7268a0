------------------------------ MODULE MCArrays ------------------------------
(***************************************************************************)
(* Instance of Arrays for TLC: two integers and nil, arrays of up to       *)
(* MaxLen elements.  What the last operation returned decides nothing      *)
(* later, so states that differ in it only are explored once.              *)
(***************************************************************************)
EXTENDS Arrays

MCArguments == {<<>>, <<2, Nil>>}
MCBounds == {-1, 1, 3, Nil}

View == <<mem, frozen, loop>>
=============================================================================
