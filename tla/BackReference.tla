--------------------------- MODULE BackReference ---------------------------
(***************************************************************************)
(* What a match of length `length' at distance `distance' appends to the   *)
(* output of a decoder, for the modules that do not look into the loop     *)
(* which appends it; CopyMatch does.                                       *)
(***************************************************************************)
EXTENDS Naturals, Sequences

Min2(a, b) == IF a < b THEN a ELSE b
Max2(a, b) == IF a < b THEN b ELSE a

(* The last `distance' bytes, over and over, `length' bytes of it.         *)
Repeated(out, distance, length) ==
  [i \in 1 .. length |->
     out[Len(out) - distance + 1 + ((i - 1) % distance)]]

copy_from_distance(out, distance, length) ==
  out \o Repeated(out, distance, length)
=============================================================================
