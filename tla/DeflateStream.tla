--------------------------- MODULE DeflateStream ---------------------------
(***************************************************************************)
(* The data every part of the decoder reads: compressed streams and the    *)
(* Huffman tables they describe.                                           *)
(*                                                                         *)
(* A compressed stream is abstracted to what a reader positioned at bit p  *)
(* would make of the bits that follow, one total function per reading      *)
(* context.  Every function is total on the bit positions of the stream,   *)
(* so a decoder that loses its place reads something else, as it would in  *)
(* the program.  Positions count from the first bit fed to the decoder;    *)
(* byte k holds the bits 8k .. 8k+7 (LSB first).                           *)
(***************************************************************************)
EXTENDS BackReference

CONSTANTS
  Byte,           \* the values of a decompressed byte
  StreamIds,      \* names of the compressed streams a caller may hold
  Streams,        \* Streams[i]: what the bits of stream i mean
  WholeSize,      \* WholeSize[i]: how many bytes the well-formed stream i has,
                  \* those of a container behind it not counted
  WholeData,      \* WholeData[i]: what it decodes to
  WINDOW_SIZE,    \* symbol.rs: no distance code reaches further back
  MAX_MATCH       \* symbol.rs: no length code announces a longer match

(* "forbidden" is symbol 286 or 287; "outOfTable" a distance symbol of 30  *)
(* or 31; "invalid" says that the bits match no code of the table.         *)
BlockTypes == {"stored", "fixed", "dynamic", "reserved"}
RleCodes   == {"length", "previous", "zeros3", "zeros11", "invalid"}
SymbolKinds == {"literal", "endOfBlock", "match", "forbidden", "invalid"}
DistKinds   == {"distance", "outOfTable", "invalid"}

MAX_BITS == 15

(* What from_code_lengths makes of a list of code lengths depends on: is   *)
(* the list accepted, its largest length, and the length of its            *)
(* END_OF_BLOCK (0: there is no such symbol or it has no code).            *)
CodeLengths(eobs) ==
  {l \in [ok : BOOLEAN, max : 1 .. MAX_BITS, eob : eobs] : l.eob <= l.max}

Headers  == [is_final : BOOLEAN, type : BlockTypes]
U16_MAX == 65535
LenWords == [ok : BOOLEAN, len : 0 .. U16_MAX]

(* A dynamic header: HDIST in range, HCLEN, HLIT + HDIST, and the three    *)
(* lists of code lengths that the rest of the block's header spells out.   *)
Dynamics == [hdist_ok : BOOLEAN, hclen : 4 .. 19, target_len : 258 .. 318,
             bitwidth : CodeLengths({0}), literal : CodeLengths(0 .. MAX_BITS),
             distance : CodeLengths({0})]

(* One run-length element of the code lengths: the symbol, the width of    *)
(* its code and how many lengths it stands for.                            *)
RleElements == [code : RleCodes, width : 1 .. MAX_BITS, repeat : 1 .. 138]

(* One literal/length symbol and, for a match, the distance that follows.  *)
(* The width of END_OF_BLOCK is that of the table in force, not a field.   *)
Symbols == [kind : SymbolKinds, width : 1 .. MAX_BITS, byte : Byte,
            extra : 0 .. 5, length : 1 .. MAX_MATCH,
            dkind : DistKinds, dwidth : 1 .. MAX_BITS,
            dextra : 0 .. 13, distance : 1 .. WINDOW_SIZE]

BitsOf(size) == 0 .. 8 * size

ASSUME StreamsAssumption ==
  /\ WINDOW_SIZE \in Nat \ {0}
  /\ MAX_MATCH \in Nat \ {0}
  /\ \A i \in StreamIds :
       /\ Streams[i].size    \in Nat
       /\ Streams[i].header  \in [BitsOf(Streams[i].size) -> Headers]
       /\ Streams[i].lens    \in [BitsOf(Streams[i].size) -> LenWords]
       /\ Streams[i].byte    \in [BitsOf(Streams[i].size) -> Byte]
       /\ Streams[i].dynamic \in [BitsOf(Streams[i].size) -> Dynamics]
       /\ Streams[i].rle     \in [BitsOf(Streams[i].size) -> RleElements]
       /\ Streams[i].symbol  \in [BitsOf(Streams[i].size) -> Symbols]

ASSUME WholeSizeAssumption ==
  /\ DOMAIN WholeSize \subseteq StreamIds
  /\ WholeData \in [DOMAIN WholeSize -> Seq(Byte)]
  /\ \A i \in DOMAIN WholeSize : WholeSize[i] \in 0 .. Streams[i].size
-----------------------------------------------------------------------------
(* The extra bits of a run-length symbol: codes 16, 17 and 18.             *)
RleExtraBits(code) == IF code = "previous" THEN 2
                      ELSE IF code = "zeros3" THEN 3
                      ELSE IF code = "zeros11" THEN 7 ELSE 0

(* A bug the runs catch: the END_OF_BLOCK width is not used.               *)
from_code_lengths_no_eob(lengths, default) ==
  [max |-> lengths.max, peek |-> lengths.max, eob |-> lengths.eob]

(* A decoding table.  `peek' is safely_peek_bits, how many bits decode     *)
(* asks for first: the width of END_OF_BLOCK when that symbol has a code,  *)
(* else the caller's default.  `eob' stands for the END_OF_BLOCK entries   *)
(* of `table'.                                                             *)
from_code_lengths(lengths, default) ==
  [max  |-> lengths.max,
   peek |-> Min2(lengths.max,
                 Max2(1, IF lengths.eob > 0 THEN lengths.eob ELSE default)),
   eob  |-> lengths.eob]

HuffmanDecoders == [max : 1 .. MAX_BITS, peek : 1 .. MAX_BITS,
                    eob : 0 .. MAX_BITS]

(* The two tables of block type 01 (symbol.rs): END_OF_BLOCK is 7 bits.    *)
fixed_literal_code_lengths  == [ok |-> TRUE, max |-> 9, eob |-> 7]
fixed_distance_code_lengths == [ok |-> TRUE, max |-> 5, eob |-> 0]

FixedLiteral  == from_code_lengths(fixed_literal_code_lengths, 9)
FixedDistance == from_code_lengths(fixed_distance_code_lengths, 7)

DynamicLiteral(dyn)  == from_code_lengths(dyn.literal, dyn.literal.max)
DynamicDistance(dyn) ==
  from_code_lengths(dyn.distance, DynamicLiteral(dyn).peek)
=============================================================================
