--------------------------- MODULE DynamicHeader ---------------------------
(***************************************************************************)
(* The description of its codes at the head of a dynamic block: how        *)
(* src/encode.rs shortens the code lengths to runs, and what the decoder   *)
(* of src/decode.rs makes of them.                                         *)
(*                                                                         *)
(* An element of the description is a tuple <<code, extra_bits, extra>>;   *)
(* how it is written as bits is the matter of Huffman and Encoder.  The    *)
(* widths of the literal and distance codes are what Huffman makes them.   *)
(***************************************************************************)
EXTENDS Integers, SequencesExt

CONSTANTS
  Literals,       \* widths of the literal codes an encoder may have,
  Distances,      \* and of its distance codes
  LITERALS_AT_LEAST, DISTANCES_AT_LEAST, BITWIDTHS_AT_LEAST,  \* 257, 1, 4
  BITWIDTH_CODE_ORDER

(* The tables of widths are as long as the counts at the head can say:     *)
(* 286 and 30 of them.                                                     *)
ASSUME DynamicHeaderAssumption ==
  /\ LITERALS_AT_LEAST \in Nat \ {0} /\ DISTANCES_AT_LEAST \in Nat \ {0}
  /\ BITWIDTHS_AT_LEAST \in 4 .. 19
  /\ \A widths \in Literals :
       /\ widths \in Seq(0 .. 15)
       /\ Len(widths) \in LITERALS_AT_LEAST .. LITERALS_AT_LEAST + 31
  /\ \A widths \in Distances :
       /\ widths \in Seq(0 .. 15)
       /\ Len(widths) \in DISTANCES_AT_LEAST .. DISTANCES_AT_LEAST + 31
  /\ Len(BITWIDTH_CODE_ORDER) = 19
  /\ \A code \in 0 .. 18 : Contains(BITWIDTH_CODE_ORDER, code)

VARIABLES
  literal, distance,   \* the widths of all the encoder's codes
  rest, count,         \* widths from the current run on; left of this run
  codes,               \* the elements so far
  hlit, hdist, hclen,  \* the counts, as the decoder reads them
  slots,               \* the 3-bit widths, in their order
  code_lengths,        \* what the decoder takes their widths to be
  all_code_lengths,    \* what it has made of the elements
  pc

counts  == <<hlit, hdist, hclen, slots>>
dvars   == <<literal, distance, rest, count, codes, counts, code_lengths,
             all_code_lengths, pc>>

Max2(a, b) == IF a < b THEN b ELSE a

(* One more than the last symbol in use.                                   *)
UsedUpTo(widths) ==
  CHOOSE n \in 0 .. Len(widths) :
    /\ n > 0 => widths[n] > 0
    /\ \A i \in n + 1 .. Len(widths) : widths[i] = 0
literal_code_count  == Max2(LITERALS_AT_LEAST, UsedUpTo(literal))
distance_code_count == Max2(DISTANCES_AT_LEAST, UsedUpTo(distance))

(* The widths the block needs, literals and distances as one sequence: a   *)
(* run may go from the one into the other.                                 *)
Needed == SubSeq(literal, 1, literal_code_count)
            \o SubSeq(distance, 1, distance_code_count)

(* How often the first of them occurs before another one.                  *)
RunLength(widths) ==
  CHOOSE n \in 1 .. Len(widths) :
    /\ n < Len(widths) => widths[n + 1] # widths[1]
    /\ \A i \in 1 .. n : widths[i] = widths[1]

DInit ==
  /\ literal \in Literals /\ distance \in Distances
  /\ rest = Needed /\ count = 0 /\ codes = << >>
  /\ hlit = 0 /\ hdist = 0 /\ hclen = 0 /\ slots = << >>
  /\ code_lengths = [c \in 0 .. 18 |-> 0] /\ all_code_lengths = << >>
  /\ pc = "run"
-----------------------------------------------------------------------------
(* build_bitwidth_codes: a run of zeros as codes 18, 17 and 0, any other   *)
(* as its width and codes 16.                                              *)

Write(code, extra_bits, extra) ==
  codes' = Append(codes, <<code, extra_bits, extra>>)

decoded == <<counts, code_lengths, all_code_lengths>>

BeginRun ==
  /\ pc = "run" /\ rest # << >>
  /\ IF rest[1] = 0
       THEN count' = RunLength(rest) /\ pc' = "zeros" /\ UNCHANGED codes
       ELSE count' = RunLength(rest) - 1 /\ pc' = "repeats"
            /\ Write(rest[1], 0, 0)
  /\ UNCHANGED <<literal, distance, rest, decoded>>

Amount(most) == IF count < most THEN count ELSE most

Emit(code, extra_bits, base, amount) ==
  /\ Write(code, extra_bits, amount - base)
  /\ count' = count - amount
  /\ UNCHANGED <<literal, distance, rest, decoded, pc>>

LongZeros   == pc = "zeros" /\ count >= 11 /\ Emit(18, 7, 11, Amount(138))
Zeros       == pc = "zeros" /\ count \in 3 .. 10 /\ Emit(17, 3, 3, count)
SingleZero  == pc = "zeros" /\ count \in 1 .. 2 /\ Emit(0, 0, 1, 1)

Repeat      == pc = "repeats" /\ count >= 3 /\ Emit(16, 2, 3, Amount(6))
SingleWidth == /\ pc = "repeats" /\ count \in 1 .. 2
               /\ Write(rest[1], 0, 0)
               /\ count' = count - 1
               /\ UNCHANGED <<literal, distance, rest, decoded, pc>>

EndRun == /\ pc \in {"zeros", "repeats"} /\ count = 0
          /\ rest' = SubSeq(rest, RunLength(rest) + 1, Len(rest))
          /\ pc' = "run"
          /\ UNCHANGED <<literal, distance, count, codes, decoded>>

(* The codes of the elements are as wide as Huffman makes them: here 7 for *)
(* every code that occurs.  Of their widths, in an order that has the rare *)
(* ones last, the zeros at the end are left out.                           *)
bitwidth(c) == IF \E i \in DOMAIN codes : codes[i][1] = c THEN 7 ELSE 0
Ordered == [i \in 1 .. 19 |-> bitwidth(BITWIDTH_CODE_ORDER[i])]

(* A bug the runs catch: the widths are counted one short.                 *)
bitwidth_code_count_short == Max2(BITWIDTHS_AT_LEAST, UsedUpTo(Ordered) - 1)

bitwidth_code_count == Max2(BITWIDTHS_AT_LEAST, UsedUpTo(Ordered))

WriteCounts == /\ pc = "run" /\ rest = << >>
               /\ hlit' = literal_code_count /\ hdist' = distance_code_count
               /\ hclen' = bitwidth_code_count
               /\ slots' = SubSeq(Ordered, 1, bitwidth_code_count)
               /\ pc' = "widths"
               /\ UNCHANGED <<literal, distance, rest, count, codes,
                              code_lengths, all_code_lengths>>
-----------------------------------------------------------------------------
(* The decoder.                                                            *)

ReadWidths == /\ pc = "widths"
              /\ code_lengths' =
                   [c \in 0 .. 18 |->
                      IF \E i \in DOMAIN slots : BITWIDTH_CODE_ORDER[i] = c
                        THEN slots[CHOOSE i \in DOMAIN slots :
                                     BITWIDTH_CODE_ORDER[i] = c]
                        ELSE 0]
              /\ pc' = "elements"
              /\ UNCHANGED <<literal, distance, rest, count, codes, counts,
                             all_code_lengths>>

Copies(value, n) == [i \in 1 .. n |-> value]

Expanded(element) ==
  CASE element[1] <= 15 -> <<element[1]>>
    [] element[1] = 16  -> Copies(Last(all_code_lengths), element[3] + 3)
    [] element[1] = 17  -> Copies(0, element[3] + 3)
    [] element[1] = 18  -> Copies(0, element[3] + 11)

(* An element after the other, until there are enough; an element without  *)
(* a code, a repetition of nothing or a run too long are refused.          *)
ReadElement ==
  /\ pc = "elements" /\ Len(all_code_lengths) < hlit + hdist
  /\ IF \/ codes = << >>
        \/ code_lengths[codes[1][1]] = 0
        \/ codes[1][1] = 16 /\ all_code_lengths = << >>
        \/ Len(all_code_lengths \o Expanded(codes[1])) > hlit + hdist
       THEN pc' = "refused" /\ UNCHANGED <<codes, all_code_lengths>>
       ELSE /\ all_code_lengths' = all_code_lengths \o Expanded(codes[1])
            /\ codes' = Tail(codes)
            /\ UNCHANGED pc
  /\ UNCHANGED <<literal, distance, rest, count, counts, code_lengths>>

ReadDone == /\ pc = "elements" /\ Len(all_code_lengths) = hlit + hdist
            /\ pc' = "done"
            /\ UNCHANGED <<literal, distance, rest, count, codes, counts,
                           code_lengths, all_code_lengths>>

AllRead == pc \in {"done", "refused"} /\ UNCHANGED dvars

DNext == \/ BeginRun \/ LongZeros \/ Zeros \/ SingleZero \/ Repeat
         \/ SingleWidth \/ EndRun \/ WriteCounts
         \/ ReadWidths \/ ReadElement \/ ReadDone \/ AllRead

DSpec == DInit /\ [][DNext]_dvars
-----------------------------------------------------------------------------
WidthOf(widths, i) == IF i \in DOMAIN widths THEN widths[i] ELSE 0

(* Every number fits the bits it is written in, and the counts are ones    *)
(* the decoder takes.  It refuses no description, and takes from it the    *)
(* width of every code the encoder has, those that are not sent being      *)
(* zero; not an element is left over.                                      *)
ReadsBack ==
  /\ \A i \in DOMAIN codes : codes[i][3] \in 0 .. 2 ^ codes[i][2] - 1
  /\ pc = "widths" =>
       /\ hlit - LITERALS_AT_LEAST \in 0 .. 31
       /\ hdist - DISTANCES_AT_LEAST \in 0 .. 31 /\ hdist <= Len(distance)
       /\ hclen - BITWIDTHS_AT_LEAST \in 0 .. 15
  /\ pc # "refused"
  /\ pc = "done" =>
       /\ codes = << >>
       /\ \A i \in DOMAIN literal :
            literal[i] = WidthOf(SubSeq(all_code_lengths, 1, hlit), i)
       /\ \A i \in DOMAIN distance :
            distance[i] = WidthOf(SubSeq(all_code_lengths, hlit + 1,
                                         hlit + hdist), i)
=============================================================================
