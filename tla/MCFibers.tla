------------------------------ MODULE MCFibers ------------------------------
(* Fibers for model checking: programs that pass values, and programs that   *)
(* call methods and rescue exceptions between the switches.                  *)
EXTENDS Fibers, TLC

CONSTANTS v, w

Kind(fl, vs, ds, es) == [flat |-> fl, values |-> vs, defs |-> ds, exns |-> es]
AllPrograms ==
  { Kind(FALSE, {v, w}, 0, 0), Kind(TRUE, {v}, 2, 2),
    Kind(FALSE, {v}, 4, 0), Kind(FALSE, {v}, 1, 2) }
NestedPrograms == { Kind(FALSE, {v}, 2, 0) }

Interchangeable == Permutations(Fibers)
=============================================================================
