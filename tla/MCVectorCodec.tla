---------------------------- MODULE MCVectorCodec ----------------------------
(***************************************************************************)
(* Every pair of vectors of equal length, of at most Dimension components  *)
(* from both sides of each boundary of the encoding.                       *)
(***************************************************************************)
EXTENDS VectorCodec

(* The ends of the range, and both sides of each change in the number of   *)
(* characters.                                                             *)
MCSample == {-255, -16, -15, -1, 0, 15, 16, 255}

=============================================================================
