------------------------------ MODULE MCStreams -----------------------------
(***************************************************************************)
(* A File that writes and one that only reads, over a file of a few bytes. *)
(* The last call is left out of the view: it is there for the properties   *)
(* of steps, which are checked on every step.                              *)
(***************************************************************************)
EXTENDS Streams

MCContents == {<<>>, <<NL>>, <<X, NL>>, <<Lead, Cont>>, <<Cont>>}
MCPieces == {<<X>>, <<NL>>}

View == <<disk, full, files, within, ideal, others>>
=============================================================================
