------------------------------- MODULE MCLz77 -------------------------------
(***************************************************************************)
(* The match finder for TLC: two bytes, three bytes to a match, two        *)
(* hashes, so that every chain holds positions that differ.                *)
(***************************************************************************)
EXTENDS Lz77Properties

MCHash == [bytes \in [1 .. 3 -> Byte] |-> (bytes[1] + bytes[2] + bytes[3]) % 2]

OfLength(n) == [1 .. n -> Byte]
MCInputs == OfLength(1) \cup OfLength(3) \cup {s \in OfLength(7) : s[1] = 0}
              \cup {s \in OfLength(12) : \A i \in 1 .. 3 : s[i] = 0 /\ s[i + 9] = 1}
=============================================================================
