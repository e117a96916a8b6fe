---------------------------- MODULE SymbolTables ----------------------------
(***************************************************************************)
(* The length and distance symbols of src/symbol.rs: a match of a length   *)
(* and a distance is written as two symbols with extra bits and read back. *)
(***************************************************************************)
EXTENDS Integers, Sequences

CONSTANT Matches  \* pairs of a length and a distance

Row(base, extra_bits) == [base |-> base, extra_bits |-> extra_bits]

(* (base, extra bits) of the symbols from 257 and from 0.                  *)
LENGTH_TABLE ==
  << Row(3, 0), Row(4, 0), Row(5, 0), Row(6, 0), Row(7, 0), Row(8, 0),
     Row(9, 0), Row(10, 0), Row(11, 1), Row(13, 1), Row(15, 1), Row(17, 1),
     Row(19, 2), Row(23, 2), Row(27, 2), Row(31, 2), Row(35, 3), Row(43, 3),
     Row(51, 3), Row(59, 3), Row(67, 4), Row(83, 4), Row(99, 4), Row(115, 4),
     Row(131, 5), Row(163, 5), Row(195, 5), Row(227, 5), Row(258, 0) >>

DISTANCE_TABLE ==
  << Row(1, 0), Row(2, 0), Row(3, 0), Row(4, 0), Row(5, 1), Row(7, 1),
     Row(9, 2), Row(13, 2), Row(17, 3), Row(25, 3), Row(33, 4), Row(49, 4),
     Row(65, 5), Row(97, 5), Row(129, 6), Row(193, 6), Row(257, 7),
     Row(385, 7), Row(513, 8), Row(769, 8), Row(1025, 9), Row(1537, 9),
     Row(2049, 10), Row(3073, 10), Row(4097, 11), Row(6145, 11),
     Row(8193, 12), Row(12289, 12), Row(16385, 13), Row(24577, 13) >>

ASSUME SymbolTablesAssumption ==
  \A m \in Matches : /\ m[1] \in Nat /\ 3 <= m[1] /\ m[1] <= 258
                     /\ m[2] \in Nat /\ 1 <= m[2] /\ m[2] <= 32768

VARIABLES
  length, backward_distance,  \* the match
  written,           \* symbols and extra bits as written
  read, step         \* what a decoder has read of it; or refused to

svars == <<length, backward_distance, written, read, step>>

SInit == /\ \E m \in Matches : length = m[1] /\ backward_distance = m[2]
         /\ written = << >> /\ read = << >> /\ step = "write"

(* The first row, from the high end, whose base is no more than the value. *)
row(table, v) ==
  CHOOSE i \in DOMAIN table :
    /\ table[i].base <= v
    /\ \A j \in i + 1 .. Len(table) : table[j].base > v

symbol(table, first, v) ==
  LET r == table[row(table, v)] IN
  [code |-> first + row(table, v) - 1, extra_bits |-> r.extra_bits,
   extra |-> v - r.base]

length_to_symbol(v)   == symbol(LENGTH_TABLE, 257, v)
distance_to_symbol(v) == symbol(DISTANCE_TABLE, 0, v)

WriteMatch == /\ step = "write"
              /\ written' = <<length_to_symbol(length),
                              distance_to_symbol(backward_distance)>>
              /\ step' = "read"
              /\ UNCHANGED <<length, backward_distance, read>>

(* The decoder's side: extra bits in the number of its own table's row, of *)
(* which the writer has filled the lowest.                                 *)
value_of(table, first, s) ==
  LET r == table[s.code - first + 1]
  IN r.base + (s.extra % 2 ^ r.extra_bits)

(* Symbols beyond the tables are errors.                                   *)
InTables == /\ written[1].code \in 257 .. 285
            /\ written[2].code \in 0 .. Len(DISTANCE_TABLE) - 1

ReadMatch == /\ step = "read"
             /\ IF InTables
                  THEN /\ read' = <<value_of(LENGTH_TABLE, 257, written[1]),
                                    value_of(DISTANCE_TABLE, 0, written[2])>>
                       /\ step' = "done"
                  ELSE step' = "refused" /\ UNCHANGED read
             /\ UNCHANGED <<length, backward_distance, written>>

(* The match goes to copy_from_distance, which CopyMatch models.           *)
BothRead == step \in {"done", "refused"} /\ UNCHANGED svars

SNext == WriteMatch \/ ReadMatch \/ BothRead
SSpec == SInit /\ [][SNext]_svars

(* The extra bits hold what is over the base, so that the decoder reads    *)
(* the match that was written, and refuses none; 258 has a symbol of its   *)
(* own, though the range of the one before it reaches that far.            *)
MatchReadsBack ==
  /\ step # "refused"
  /\ \A i \in DOMAIN written :
       written[i].extra \in 0 .. 2 ^ written[i].extra_bits - 1
  /\ read # << >> => read = <<length, backward_distance>>
  /\ (written # << >> /\ length = 258) => written[1].code = 285
=============================================================================
