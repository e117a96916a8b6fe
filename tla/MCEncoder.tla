----------------------------- MODULE MCEncoder -----------------------------
(***************************************************************************)
(* The encoder for TLC: two byte values, codes of widths that reach every  *)
(* number of left-over bits.                                               *)
(***************************************************************************)
EXTENDS EncoderProperties

MCPieces == {<<0>>, <<0, 0, 1>>, <<0, 0, 0, 0>>}

MCCoding ==
  [fixed   |-> [table |-> {0}, literal |-> {8}, match |-> {12}, end |-> {7}],
   dynamic |-> [table |-> {26}, literal |-> {3}, match |-> {5}, end |-> {2}]]
=============================================================================
