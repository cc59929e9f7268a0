------------------------------ MODULE MCHashes ------------------------------
(***************************************************************************)
(* Instance of Hashes for TLC: two names, one of them with two keys that   *)
(* are equal but not identical.  What the last operation returned decides  *)
(* nothing later, and neither do the defaults, nor the slots behind the    *)
(* live ones while no iterator runs: an iterator reads a slot behind them  *)
(* only when its own block has removed an entry.  What an iterator has     *)
(* seen stops to matter when its block changes the hash, except to         *)
(* transform_keys!, and no property speaks of a hash in which              *)
(* transform_keys! has made two entries for one key.  States that differ   *)
(* in these only are explored once.                                        *)
(***************************************************************************)
EXTENDS Hashes

a1 == [name |-> "a", id |-> 1]
a2 == [name |-> "a", id |-> 2]
b1 == [name |-> "b", id |-> 1]

MCKeys == {a1, a2, b1}
MCOthers == {<<[key |-> a2, val |-> 1], [key |-> b1, val |-> Nil]>>}

LoopView ==
    IF loop = NoLoop \/ loop.op = "merge!" THEN loop
    ELSE IF loop.changes = 0 THEN loop
    ELSE IF loop.op = "transform_keys!" THEN [loop EXCEPT !.whole = <<>>]
    ELSE [loop EXCEPT !.whole = <<>>, !.seen = Len(loop.seen),
                      !.op = IF loop.op \in Visits /\ ~Stops(loop.op, 1) /\ ~Stops(loop.op, Nil)
                             THEN "visit" ELSE @]

View ==
    IF ~Unique(Live, Id) THEN <<"duplicates", mode, environ>>
    ELSE <<IF loop = NoLoop THEN Live ELSE mem, mode, environ, LoopView>>
=============================================================================
