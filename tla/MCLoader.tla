------------------------------ MODULE MCLoader ------------------------------
(***************************************************************************)
(* Instance of Loader for TLC: the program top/main with two files beside  *)
(* it, of which top/y does not parse, and two of the same names in lib,    *)
(* which $LOAD_PATH names first.                                           *)
(***************************************************************************)
EXTENDS Loader

MCMain == [dir |-> "top", name |-> "main"]
X == [dir |-> "top", name |-> "x"]
LibX == [dir |-> "lib", name |-> "x"]
MCBroken == {[dir |-> "top", name |-> "y"]}
MCFiles == {MCMain, X, LibX, [dir |-> "lib", name |-> "y"]} \cup MCBroken
MCLoadPath == <<"lib", "top">>

\* A rescue around what may fail in the loaded code, and everything without.
MCVocabulary ==
    {s \in Loading : s.safe => s.op = "require_relative" /\ s.name = "x"}
      \cup {s \in Calling : s.of # LibX /\ (s.safe => s.op \in {"method", "refused"})}
      \cup Others
=============================================================================
