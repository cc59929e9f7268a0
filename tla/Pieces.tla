------------------------------- MODULE Pieces -------------------------------
(***************************************************************************)
(* Pieces of sequences.  The methods of collections that keep some entries *)
(* walk over all of them and append those they keep to a new array.        *)
(***************************************************************************)
EXTENDS Integers, Sequences

\* The elements of s at the positions in places, in order.
Picked(s, places) ==
    LET kept[n \in 0 .. Len(s)] ==
            IF n = 0 THEN <<>>
            ELSE IF n \in places THEN Append(kept[n - 1], s[n]) ELSE kept[n - 1]
    IN  kept[Len(s)]
=============================================================================
