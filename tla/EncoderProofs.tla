--------------------------- MODULE EncoderProofs ---------------------------
(***************************************************************************)
(* Proofs, for every value of the constants, that the streaming encoder    *)
(* keeps its types, writes every bit and every byte once, ends the stream  *)
(* with one final block, a flush on a byte, and bounds what it buffers;    *)
(* that a container encoder makes a whole file of the stream inside; and   *)
(* that the writing adapter puts the stream into its sink.                 *)
(*                                                                         *)
(* Most invariants only hold with a description of the block under way:    *)
(* which phase it is in, what of its chunk is written, and where the call  *)
(* goes behind it.                                                         *)
(***************************************************************************)
EXTENDS EncoderProperties, MCEncoderCallers, DataLemmas

InBlock == {"emit", "stored", "align", "bytes", "symbols", "close"}

(* The phases of a call.                                                   *)
Phases ==
  /\ is_final = finishing
  /\ finishing => after = "idle" /\ input = << >> /\ pc \notin {"feed", "marker"}
  /\ pc \notin InBlock => chunk = << >> /\ cursor = 0
  /\ pc = "emit" => cursor = 0
  /\ pc = "symbols" => kind # "stored"
  /\ pc = "bytes" => bit_count = 0
  /\ pc = "close" => cursor = Len(chunk)
  /\ finishing /\ pc = "idle" => bit_count = 0

(* The last bytes of what a decoder makes of the stream are those of the   *)
(* chunk that are written, so that a match found there means the same.     *)
SymbolsInv ==
  pc = "symbols" =>
    /\ cursor <= Len(meaning)
    /\ \A i \in 1 .. cursor : meaning[Len(meaning) - cursor + i] = chunk[i]

(* An element goes where the bits so far end, and they end behind it.      *)
Extends(e) == /\ e \in Element
              /\ written' = Append(written, e)
              /\ e.at = Position(BitsBehind)
              /\ Position(BitsBehind)' = e.at + e.width

NothingWritten == /\ written' = written
                  /\ Position(BitsBehind)' = Position(BitsBehind)

-----------------------------------------------------------------------------
LEMMA Numbers ==
  ASSUME EncTypeOK
  PROVE  /\ output \in Nat /\ taken \in Nat /\ drained \in Nat
         /\ drained <= taken /\ drained <= output
         /\ bit_count \in 0 .. 7 /\ writer \in 0 .. 7
         /\ \A b \in Nat : Position(b) = 8 * (taken - drained + output) + b
         /\ \A b \in Nat : Position(b) \in Nat
         /\ BitsBehind \in 0 .. 7
<1>1. /\ output \in Nat /\ taken \in Nat /\ drained \in Nat
      /\ drained <= taken /\ drained <= output
      /\ bit_count \in 0 .. 7 /\ writer \in 0 .. 7
  BY EncoderAssumption DEF EncTypeOK
<1>2. \A b \in Nat : Position(b) = 8 * (taken - drained + output) + b
  BY DEF Position
<1>3. \A b \in Nat : Position(b) \in Nat
  BY <1>1, <1>2
<1>4. BitsBehind \in 0 .. 7
  BY <1>1 DEF BitsBehind
<1> QED BY <1>1, <1>2, <1>3, <1>4

LEMMA ElementsAppended ==
  ASSUME NEW s \in Seq(Element), NEW e \in Element
  PROVE  /\ Append(s, e) \in Seq(Element)
         /\ Len(Append(s, e)) = Len(s) + 1 /\ Len(s) \in Nat
         /\ \A i \in 1 .. Len(s) : Append(s, e)[i] = s[i]
         /\ Append(s, e)[Len(s) + 1] = e
  OBVIOUS

LEMMA IsContents ==
  /\ \A f \in BOOLEAN, k \in BlockKinds : <<"header", f, k>> \in Contents
  /\ <<"pad">> \in Contents /\ <<"end">> \in Contents
  /\ \A s \in Seq(Byte) : <<"bytes", s>> \in Contents
  /\ \A c \in Byte : <<"literal", c>> \in Contents
  /\ \A l, d \in Nat : <<"match", l, d>> \in Contents
  BY DEF Contents

LEMMA Divide8 ==
  ASSUME NEW x \in Nat
  PROVE  /\ x \div 8 \in Nat /\ x % 8 \in 0 .. 7
         /\ x = 8 * (x \div 8) + (x % 8)
  OBVIOUS

(* What write_bits does, where the bits so far end behind `from'.          *)
LEMMA WriteBits ==
  ASSUME EncTypeOK, NEW from \in 0 .. 7, NEW n \in Nat, NEW what \in Contents,
         write_bits(from, n, what)
  PROVE  /\ [at |-> Position(from), width |-> n, what |-> what] \in Element
         /\ written' = Append(written, [at |-> Position(from), width |-> n,
                                        what |-> what])
         /\ written' \in Seq(Element)
         /\ output' \in Nat /\ output' >= output
         /\ writer' \in 0 .. 7
         /\ 8 * output' + writer' = 8 * output + from + n
<1>1. output \in Nat /\ Position(from) \in Nat /\ written \in Seq(Element)
  <2>1. written \in Seq(Element)
    BY DEF EncTypeOK
  <2>2. from \in Nat
    OBVIOUS
  <2> QED BY <2>1, <2>2, Numbers
<1>2. [at |-> Position(from), width |-> n, what |-> what] \in Element
  BY <1>1 DEF Element
<1>3. written' = Append(written, [at |-> Position(from), width |-> n,
                                  what |-> what])
      /\ output' = output + (from + n) \div 8 /\ writer' = (from + n) % 8
  BY DEF write_bits
<1>4. written' \in Seq(Element)
  BY <1>1, <1>2, <1>3, ElementsAppended
<1>5. /\ (from + n) \div 8 \in Nat /\ (from + n) % 8 \in 0 .. 7
      /\ from + n = 8 * ((from + n) \div 8) + ((from + n) % 8)
  BY Divide8
<1> QED BY <1>1, <1>2, <1>3, <1>4, <1>5

LEMMA AlignToByte ==
  ASSUME EncTypeOK, align_to_byte
  PROVE  LET e == [at |-> Position(writer), width |-> (8 - writer) % 8,
                   what |-> <<"pad">>]
         IN  /\ e \in Element
             /\ written' = Append(written, e)
             /\ written' \in Seq(Element)
             /\ output' \in Nat /\ output' >= output
             /\ writer' = 0
             /\ 8 * output' = 8 * output + writer + e.width
<1> DEFINE w == (8 - writer) % 8
           e == [at |-> Position(writer), width |-> w, what |-> <<"pad">>]
<1>1. /\ output \in Nat /\ Position(writer) \in Nat /\ writer \in 0 .. 7
      /\ written \in Seq(Element)
  <2>1. written \in Seq(Element)
    BY DEF EncTypeOK
  <2>2. writer \in 0 .. 7 /\ writer \in Nat
    BY Numbers
  <2> QED BY <2>1, <2>2, Numbers
<1>2. w = IF writer > 0 THEN 8 - writer ELSE 0
  BY <1>1
<1> HIDE DEF w
<1>3. e \in Element
  BY <1>1, <1>2, IsContents DEF Element
<1>4. written' = Append(written, e) /\ writer' = 0
      /\ output' = output + IF writer > 0 THEN 1 ELSE 0
  BY DEF align_to_byte, w
<1>5. written' \in Seq(Element)
  BY <1>1, <1>3, <1>4, ElementsAppended
<1>6. e.width = w
  OBVIOUS
<1> HIDE DEF e
<1>7. output' \in Nat /\ output' >= output
      /\ 8 * output' = 8 * output + writer + e.width
  BY <1>1, <1>2, <1>4, <1>6
<1> QED BY <1>3, <1>4, <1>5, <1>7 DEF e, w
-----------------------------------------------------------------------------
(* What is UNCHANGED in the steps of a call, one by one.                   *)
LEMMA OuterSame ==
  ASSUME outer' = outer
  PROVE  /\ kind' = kind /\ limit' = limit /\ drained' = drained
         /\ finishing' = finishing /\ fed' = fed /\ call' = call
         /\ answer' = answer /\ taken' = taken /\ reset_at' = reset_at
  BY DEF outer, options, caller

(* How far the bits reach after a step that moves them.                    *)
LEMMA PositionMoves ==
  ASSUME EncTypeOK, outer' = outer, NEW n \in Nat, output' \in Nat,
         NEW b \in 0 .. 7, NEW c \in 0 .. 7,
         BitsBehind = b, BitsBehind' = c,
         8 * output' + c = 8 * output + b + n
  PROVE  Position(BitsBehind)' = Position(BitsBehind) + n
<1>1. output \in Nat /\ taken \in Nat /\ drained \in Nat
  BY Numbers
<1>2. Position(BitsBehind) = 8 * (taken - drained + output) + b
  BY DEF Position
<1>3. Position(BitsBehind)' = 8 * (taken - drained + output') + c
  BY OuterSame DEF Position
<1> DEFINE o == output'
<1>4. o \in Nat /\ 8 * o + c = 8 * output + b + n
  OBVIOUS
<1> HIDE DEF o
<1>5. 8 * (taken - drained + o) + c
        = 8 * (taken - drained + output) + b + n
  BY <1>1, <1>4
<1> QED BY <1>2, <1>3, <1>5 DEF o

LEMMA StoredHeaderTypes ==
  ASSUME EncTypeOK, Phases, StoredHeader
  PROVE  /\ EncTypeOK'
         /\ Extends([at |-> Position(bit_count), width |-> 3,
                     what |-> <<"header", FinalFlag, "stored">>])
<1>1. /\ pc = "stored" /\ pc' = "align"
      /\ write_bits(bit_count, 3, <<"header", FinalFlag, "stored">>)
      /\ outer' = outer /\ input' = input /\ bit_count' = bit_count
      /\ block' = block /\ cursor' = cursor /\ meaning' = meaning
  BY DEF StoredHeader
<1>2. bit_count \in 0 .. 7
  BY Numbers
<1>3. <<"header", FinalFlag, "stored">> \in Contents
  <2>1. FinalFlag \in BOOLEAN
    BY DEF EncTypeOK, FinalFlag
  <2>2. "stored" \in BlockKinds
    BY DEF BlockKinds
  <2> QED BY <2>1, <2>2, IsContents
<1> DEFINE e == [at |-> Position(bit_count), width |-> 3,
                 what |-> <<"header", FinalFlag, "stored">>]
<1>4. /\ e \in Element /\ written' = Append(written, e)
      /\ written' \in Seq(Element) /\ output' \in Nat /\ output' >= output
      /\ writer' \in 0 .. 7
      /\ 8 * output' + writer' = 8 * output + bit_count + 3
  BY <1>1, <1>2, <1>3, WriteBits
<1>5. EncTypeOK'
  BY <1>1, <1>4, OuterSame, Numbers DEF EncTypeOK, Places, block
<1>6. BitsBehind = bit_count /\ BitsBehind' = writer'
  BY <1>1 DEF BitsBehind
<1>7. Position(BitsBehind)' = Position(BitsBehind) + 3
  BY <1>1, <1>2, <1>4, <1>6, PositionMoves
<1>8. e.at = Position(BitsBehind) /\ e.width = 3
  BY <1>6
<1> QED BY <1>4, <1>5, <1>7, <1>8 DEF Extends
LEMMA StoredAlignTypes ==
  ASSUME EncTypeOK, Phases, StoredAlign
  PROVE  /\ EncTypeOK'
         /\ Extends([at |-> Position(writer), width |-> (8 - writer) % 8,
                     what |-> <<"pad">>])
<1> DEFINE e == [at |-> Position(writer), width |-> (8 - writer) % 8,
                 what |-> <<"pad">>]
<1>1. /\ pc = "align" /\ pc' = "bytes" /\ align_to_byte /\ bit_count' = 0
      /\ outer' = outer /\ input' = input
      /\ block' = block /\ cursor' = cursor /\ meaning' = meaning
  BY DEF StoredAlign
<1>2. /\ e \in Element /\ written' = Append(written, e)
      /\ written' \in Seq(Element) /\ output' \in Nat /\ output' >= output
      /\ writer' = 0
      /\ 8 * output' = 8 * output + writer + e.width
  BY <1>1, AlignToByte
<1>3. EncTypeOK'
  BY <1>1, <1>2, OuterSame, Numbers DEF EncTypeOK, Places, block
<1>4. e.at = Position(writer) /\ e.what = <<"pad">> /\ e.width \in Nat
  BY <1>2 DEF Element
<1> HIDE DEF e
<1>5. BitsBehind = writer /\ BitsBehind' = 0 /\ writer \in 0 .. 7
  BY <1>1, Numbers DEF BitsBehind
<1>6. Position(BitsBehind)' = Position(BitsBehind) + e.width
  <2> DEFINE o == output'
             n == e.width
  <2>1. o \in Nat /\ n \in Nat /\ 8 * o = 8 * output + writer + n
    BY <1>2, <1>4
  <2>2. output \in Nat
    BY Numbers
  <2> HIDE DEF o, n
  <2>3. 8 * o + 0 = 8 * output + writer + n
    BY <2>1, <2>2, <1>5
  <2> QED BY <1>1, <1>5, <2>1, <2>3, PositionMoves DEF o, n
<1> QED BY <1>2, <1>3, <1>4, <1>5, <1>6 DEF Extends, e

(* The piece of a chunk that goes into one stored block.                   *)
LEMMA Piece ==
  ASSUME EncTypeOK
  PROVE  LET bytes == SubSeq(chunk, cursor + 1, cursor + sub_len) IN
         /\ sub_len \in Nat /\ sub_len <= MAX_STORED_BLOCK
         /\ cursor + sub_len \in 0 .. Len(chunk) /\ cursor \in Nat
         /\ Len(chunk) \in Nat /\ chunk \in Seq(Byte)
         /\ bytes \in Seq(Byte) /\ Len(bytes) = sub_len
         /\ \A i \in 1 .. sub_len : bytes[i] = chunk[cursor + i]
<1>1. chunk \in Seq(Byte) /\ cursor \in 0 .. Len(chunk) /\ Len(chunk) \in Nat
  BY LenProperties DEF EncTypeOK
<1>2. /\ sub_len \in Nat /\ sub_len <= MAX_STORED_BLOCK
      /\ cursor + sub_len \in 0 .. Len(chunk) /\ cursor \in Nat
  BY <1>1, EncoderAssumption DEF sub_len, Min2
<1> DEFINE n == cursor + sub_len
           bytes == SubSeq(chunk, cursor + 1, n)
<1>3. \A i \in cursor + 1 .. n : chunk[i] \in Byte
  BY <1>1, <1>2, ElementOfSeq
<1>4. /\ bytes \in Seq(Byte)
      /\ Len(bytes) = IF cursor + 1 <= n THEN n - (cursor + 1) + 1 ELSE 0
      /\ \A i \in 1 .. n - (cursor + 1) + 1 : bytes[i] = chunk[cursor + 1 + i - 1]
  BY <1>2, <1>3, SubSeqProperties
<1>5. Len(bytes) = sub_len
  BY <1>2, <1>4
<1>6. \A i \in 1 .. sub_len : bytes[i] = chunk[cursor + i]
  BY <1>2, <1>4
<1> QED BY <1>1, <1>2, <1>4, <1>5, <1>6

LEMMA StoredBytesTypes ==
  ASSUME EncTypeOK, Phases, StoredBytes
  PROVE  LET bytes == SubSeq(chunk, cursor + 1, cursor + sub_len) IN
         /\ EncTypeOK'
         /\ Extends([at |-> Position(0), width |-> 32 + 8 * sub_len,
                     what |-> <<"bytes", bytes>>])
<1> DEFINE bytes == SubSeq(chunk, cursor + 1, cursor + sub_len)
           e == [at |-> Position(0), width |-> 32 + 8 * sub_len,
                 what |-> <<"bytes", bytes>>]
<1>1. /\ pc = "bytes" /\ written' = Append(written, e)
      /\ output' = output + 4 + sub_len
      /\ meaning' = meaning \o bytes
      /\ IF is_last THEN pc' = after /\ cursor' = 0 /\ chunk' = << >>
                    ELSE /\ pc' = "stored" /\ cursor' = cursor + sub_len
                         /\ chunk' = chunk
      /\ outer' = outer /\ input' = input /\ bit_count' = bit_count
      /\ after' = after /\ is_final' = is_final /\ writer' = writer
  BY DEF StoredBytes
<1>2. /\ sub_len \in Nat /\ cursor + sub_len \in 0 .. Len(chunk)
      /\ bytes \in Seq(Byte)
  BY Piece
<1> HIDE DEF bytes
<1>3. e \in Element
  <2>1. Position(0) \in Nat /\ 32 + 8 * sub_len \in Nat
    BY <1>2, Numbers
  <2>2. <<"bytes", bytes>> \in Contents
    BY <1>2, IsContents
  <2> QED BY <2>1, <2>2 DEF Element
<1>4. e.at = Position(0) /\ e.width = 32 + 8 * sub_len
  OBVIOUS
<1> HIDE DEF e
<1>5. written' \in Seq(Element)
  BY <1>1, <1>3, ElementsAppended DEF EncTypeOK
<1>6. meaning' \in Seq(Byte)
  BY <1>1, <1>2, ConcatProperties DEF EncTypeOK
<1>7. chunk' \in Seq(Byte) /\ cursor' \in 0 .. Len(chunk')
  <2>1. CASE is_last
    BY <1>1, <2>1, EmptySeq
  <2>2. CASE ~ is_last
    BY <1>1, <1>2, <2>2 DEF EncTypeOK
  <2> QED BY <2>1, <2>2
<1>8. pc' \in Places
  BY <1>1 DEF EncTypeOK, Places
<1>9. output' \in Nat /\ output' >= output
  <2>1. output \in Nat
    BY Numbers
  <2> QED BY <1>1, <1>2, <2>1
<1>10. EncTypeOK'
  BY <1>1, <1>5, <1>6, <1>7, <1>8, <1>9, OuterSame, Numbers DEF EncTypeOK
<1>11. BitsBehind = 0 /\ BitsBehind' = 0
  <2>1. bit_count = 0
    BY <1>1 DEF Phases
  <2>2. after \in {"idle", "feed", "marker"}
    BY DEF EncTypeOK
  <2> QED BY <1>1, <2>1, <2>2 DEF BitsBehind
<1>12. Position(BitsBehind)' = Position(BitsBehind) + (32 + 8 * sub_len)
  <2>1. output \in Nat
    BY Numbers
  <2>2. 8 * output' + 0 = 8 * output + 0 + (32 + 8 * sub_len)
    BY <1>1, <1>2, <2>1
  <2> QED BY <1>1, <1>2, <1>9, <1>11, <2>2, PositionMoves
<1> QED BY <1>1, <1>3, <1>4, <1>10, <1>11, <1>12 DEF Extends, e, bytes

(* The widths in Coding are numbers.                                       *)
LEMMA CodingWidths ==
  ASSUME EncTypeOK, kind # "stored"
  PROVE  /\ Coding[kind].table \subseteq Nat
         /\ Coding[kind].literal \subseteq Nat
         /\ Coding[kind].match \subseteq Nat
         /\ Coding[kind].end \subseteq Nat
<1>1. kind \in Kinds \ {"stored"}
  BY DEF EncTypeOK
<1>2. Coding[kind] \in Widths
  BY <1>1, EncoderAssumption
<1> QED BY <1>2 DEF Widths

(* An element written with write_bits where the bits so far end.           *)
LEMMA WrittenAt ==
  ASSUME EncTypeOK, outer' = outer, NEW from \in 0 .. 7, NEW n \in Nat,
         NEW what \in Contents, write_bits(from, n, what),
         BitsBehind = from, BitsBehind' = writer'
  PROVE  Extends([at |-> Position(from), width |-> n, what |-> what])
<1> DEFINE e == [at |-> Position(from), width |-> n, what |-> what]
<1>1. /\ e \in Element /\ written' = Append(written, e) /\ output' \in Nat
      /\ writer' \in 0 .. 7
      /\ 8 * output' + writer' = 8 * output + from + n
  BY WriteBits
<1>2. Position(BitsBehind)' = Position(BitsBehind) + n
  BY <1>1, PositionMoves
<1>3. e.at = Position(BitsBehind) /\ e.width = n
  OBVIOUS
<1> QED BY <1>1, <1>2, <1>3 DEF Extends
-----------------------------------------------------------------------------
(* The next n bytes of the chunk.                                          *)
NextPart(n) == SubSeq(chunk, cursor + 1, cursor + n)

LEMMA NextBytes ==
  ASSUME EncTypeOK, NEW n \in Nat, cursor + n <= Len(chunk)
  PROVE  /\ NextPart(n) \in Seq(Byte) /\ Len(NextPart(n)) = n
         /\ \A i \in 1 .. n : NextPart(n)[i] = chunk[cursor + i]
         /\ SubSeq(chunk, cursor + 1, Len(chunk))
              = NextPart(n) \o SubSeq(chunk, cursor + n + 1, Len(chunk))
<1>1. chunk \in Seq(Byte) /\ cursor \in 0 .. Len(chunk) /\ Len(chunk) \in Nat
  BY LenProperties DEF EncTypeOK
<1> DEFINE k == cursor + n
<1>2. k \in Nat /\ k <= Len(chunk)
  BY <1>1
<1>3. \A i \in cursor + 1 .. k : chunk[i] \in Byte
  BY <1>1, <1>2, ElementOfSeq
<1>4. /\ SubSeq(chunk, cursor + 1, k) \in Seq(Byte)
      /\ Len(SubSeq(chunk, cursor + 1, k))
           = IF cursor + 1 <= k THEN k - (cursor + 1) + 1 ELSE 0
      /\ \A i \in 1 .. k - (cursor + 1) + 1 :
           SubSeq(chunk, cursor + 1, k)[i] = chunk[cursor + 1 + i - 1]
  BY <1>1, <1>2, <1>3, SubSeqProperties, SMTT(30)
<1>5. SubSeq(chunk, cursor + 1, k) \o SubSeq(chunk, k + 1, Len(chunk))
        = SubSeq(chunk, cursor + 1, Len(chunk))
  <2>1. /\ cursor + 1 \in 1 .. Len(chunk) + 1
        /\ k \in (cursor + 1) - 1 .. Len(chunk)
        /\ Len(chunk) \in k .. Len(chunk)
    BY <1>1, <1>2
  <2> QED BY <1>1, <2>1, ConcatAdjacentSubSeq
<1>6. /\ Len(SubSeq(chunk, cursor + 1, k)) = n
      /\ \A i \in 1 .. n : SubSeq(chunk, cursor + 1, k)[i] = chunk[cursor + i]
  BY <1>1, <1>4
<1> QED BY <1>4, <1>5, <1>6 DEF NextPart

(* A decoder that is given the next n bytes of the chunk.                  *)
LEMMA MeaningGrows ==
  ASSUME EncTypeOK, SymbolsInv, pc = "symbols",
         NEW n \in Nat, cursor + n <= Len(chunk),
         meaning' = meaning \o NextPart(n),
         cursor' = cursor + n, chunk' = chunk
  PROVE  /\ meaning' \in Seq(Byte) /\ cursor' \in 0 .. Len(chunk')
         /\ SymbolsInv'
<1>1. /\ meaning \in Seq(Byte) /\ Len(meaning) \in Nat
      /\ cursor \in 0 .. Len(chunk) /\ Len(chunk) \in Nat
  BY LenProperties DEF EncTypeOK
<1> DEFINE b == NextPart(n)
           m == meaning \o b
<1>2. /\ b \in Seq(Byte) /\ Len(b) = n
      /\ \A i \in 1 .. n : b[i] = chunk[cursor + i]
  BY NextBytes
<1> HIDE DEF b
<1>3. /\ m \in Seq(Byte) /\ Len(m) = Len(meaning) + n
      /\ \A i \in 1 .. Len(meaning) + n :
           m[i] = IF i <= Len(meaning) THEN meaning[i] ELSE b[i - Len(meaning)]
  BY <1>1, <1>2, ConcatProperties
<1> HIDE DEF m
<1>4. cursor <= Len(meaning)
      /\ \A i \in 1 .. cursor : meaning[Len(meaning) - cursor + i] = chunk[i]
  BY DEF SymbolsInv
<1>5. ASSUME NEW i \in 1 .. cursor + n
      PROVE  m[Len(m) - (cursor + n) + i] = chunk[i]
  <2> DEFINE j == Len(meaning) - cursor + i
  <2>1. Len(m) - (cursor + n) + i = j
    BY <1>1, <1>3
  <2>2. j \in 1 .. Len(meaning) + n
        /\ (i <= cursor <=> j <= Len(meaning))
        /\ j - Len(meaning) = i - cursor
    BY <1>1, <1>4
  <2>3. i <= cursor => meaning[j] = chunk[i]
    BY <1>1, <1>4
  <2> HIDE DEF j
  <2>4. m[j] = IF j <= Len(meaning) THEN meaning[j] ELSE b[j - Len(meaning)]
    BY <1>3, <2>2
  <2>5. CASE i <= cursor
    BY <2>1, <2>2, <2>3, <2>4, <2>5
  <2>6. CASE i > cursor
    <3>1. m[j] = b[i - cursor]
      <4>1. ~ (i <= cursor)
        BY <1>1, <2>6
      <4> QED BY <2>2, <2>4, <4>1
    <3>2. i - cursor \in 1 .. n /\ cursor + (i - cursor) = i
      BY <1>1, <2>6
    <3> QED BY <1>2, <2>1, <3>1, <3>2
  <2>7. i <= cursor \/ i > cursor
    BY <1>1
  <2> QED BY <2>5, <2>6, <2>7
<1>6. cursor + n <= Len(m) /\ cursor + n \in 0 .. Len(chunk)
  BY <1>1, <1>3, <1>4
<1>7. meaning' = m
  BY DEF m, b
<1>8. SymbolsInv'
  BY <1>5, <1>6, <1>7 DEF SymbolsInv
<1> QED BY <1>3, <1>6, <1>7, <1>8

(* A match in the chunk so far is one in what a decoder has so far.        *)
LEMMA MatchMeans ==
  ASSUME EncTypeOK, SymbolsInv, pc = "symbols",
         NEW length \in Nat, NEW distance \in 1 .. Reach,
         IsMatch(length, distance)
  PROVE  /\ cursor + length <= Len(chunk)
         /\ distance <= cursor
         /\ copy_from_distance(meaning, distance, length)
              = meaning \o NextPart(length)
<1>1. /\ Len(meaning) \in Nat
      /\ chunk \in Seq(Byte) /\ cursor \in 0 .. Len(chunk) /\ Len(chunk) \in Nat
  BY LenProperties DEF EncTypeOK
<1>2. Len(Seen) = cursor /\ \A i \in 1 .. cursor : Seen[i] = chunk[i]
  BY <1>1, TakeProperties DEF Seen
<1>3. distance \in Nat /\ 1 <= distance /\ distance <= cursor
  BY <1>1, <1>2, EncoderAssumption DEF Reach, Min2
<1>4. cursor + length <= Len(chunk)
      /\ NextPart(length) = Repeated(Seen, distance, length)
  BY DEF IsMatch, NextPart
<1>5. cursor <= Len(meaning)
      /\ \A i \in 1 .. cursor : meaning[Len(meaning) - cursor + i] = chunk[i]
  BY DEF SymbolsInv
<1>6. ASSUME NEW i \in 1 .. length
      PROVE  Seen[Len(Seen) - distance + 1 + ((i - 1) % distance)]
               = meaning[Len(meaning) - distance + 1 + ((i - 1) % distance)]
  <2> DEFINE r == (i - 1) % distance
             j == cursor - distance + 1 + r
  <2>1. r \in 0 .. distance - 1
    BY <1>3
  <2> HIDE DEF r
  <2>2. j \in 1 .. cursor
    BY <1>1, <1>3, <2>1
  <2>3. Len(meaning) - distance + 1 + r = Len(meaning) - cursor + j
    BY <1>1, <1>3, <2>1
  <2> HIDE DEF j
  <2>4. Seen[j] = meaning[Len(meaning) - cursor + j]
    BY <1>2, <1>5, <2>2
  <2> QED BY <1>2, <2>3, <2>4 DEF j, r
<1>7. Repeated(Seen, distance, length) = Repeated(meaning, distance, length)
  BY <1>6 DEF Repeated
<1> QED BY <1>3, <1>4, <1>7 DEF copy_from_distance
-----------------------------------------------------------------------------
LEMMA EmitHuffmanTypes ==
  ASSUME EncTypeOK, Phases, SymbolsInv, EmitHuffman
  PROVE  /\ EncTypeOK' /\ SymbolsInv'
         /\ \E e : Extends(e) /\ e.what = <<"header", is_final, kind>>
<1>1. PICK t \in Coding[kind].table :
        write_bits(bit_count, 3 + t, <<"header", is_final, kind>>)
  BY DEF EmitHuffman
<1>2. /\ pc = "emit" /\ kind # "stored" /\ pc' = "symbols"
      /\ outer' = outer /\ input' = input /\ bit_count' = bit_count
      /\ block' = block /\ cursor' = cursor /\ meaning' = meaning
  BY DEF EmitHuffman
<1>3. 3 + t \in Nat /\ bit_count \in 0 .. 7
  BY <1>2, CodingWidths, Numbers
<1>4. <<"header", is_final, kind>> \in Contents
  <2>1. is_final \in BOOLEAN /\ kind \in BlockKinds
    BY EncoderAssumption DEF EncTypeOK
  <2> QED BY <2>1, IsContents
<1> DEFINE e == [at |-> Position(bit_count), width |-> 3 + t,
                 what |-> <<"header", is_final, kind>>]
<1>5. BitsBehind = bit_count /\ BitsBehind' = writer'
  BY <1>2 DEF BitsBehind
<1>6. Extends(e)
  BY <1>1, <1>2, <1>3, <1>4, <1>5, WrittenAt
<1>7. /\ written' \in Seq(Element) /\ output' \in Nat /\ output' >= output
      /\ writer' \in 0 .. 7
  BY <1>1, <1>3, <1>4, WriteBits
<1>8. EncTypeOK'
  BY <1>2, <1>7, OuterSame, Numbers DEF EncTypeOK, Places, block
<1>9. SymbolsInv'
  <2>1. cursor' = 0
    BY <1>2 DEF Phases
  <2>2. Len(meaning') \in Nat
    BY <1>8, LenProperties DEF EncTypeOK
  <2> QED BY <2>1, <2>2 DEF SymbolsInv
<1> QED BY <1>6, <1>8, <1>9

LEMMA WriteLiteralTypes ==
  ASSUME EncTypeOK, Phases, SymbolsInv, WriteLiteral
  PROVE  /\ EncTypeOK' /\ SymbolsInv'
         /\ \E e : Extends(e) /\ e.what[1] = "literal"
         /\ cursor + 1 <= Len(chunk) /\ cursor' = cursor + 1
         /\ meaning' = meaning \o NextPart(1)
<1>1. PICK w \in Coding[kind].literal :
        write_bits(writer, w, <<"literal", chunk[cursor + 1]>>)
  BY DEF WriteLiteral
<1>2. /\ pc = "symbols" /\ cursor < Len(chunk) /\ cursor' = cursor + 1
      /\ meaning' = Append(meaning, chunk[cursor + 1])
      /\ outer' = outer /\ input' = input /\ bit_count' = bit_count
      /\ pc' = pc /\ after' = after /\ chunk' = chunk /\ is_final' = is_final
  BY DEF WriteLiteral, block
<1>3. w \in Nat /\ writer \in 0 .. 7
  <2>1. kind # "stored"
    BY <1>2 DEF Phases
  <2> QED BY <2>1, CodingWidths, Numbers
<1>4. /\ cursor \in Nat /\ Len(chunk) \in Nat /\ cursor + 1 <= Len(chunk)
      /\ chunk[cursor + 1] \in Byte
  <2>1. chunk \in Seq(Byte) /\ cursor \in 0 .. Len(chunk) /\ Len(chunk) \in Nat
    BY LenProperties DEF EncTypeOK
  <2>2. cursor + 1 \in 1 .. Len(chunk)
    BY <1>2, <2>1
  <2> QED BY <2>1, <2>2, ElementOfSeq
<1>5. <<"literal", chunk[cursor + 1]>> \in Contents
  BY <1>4, IsContents
<1> DEFINE e == [at |-> Position(writer), width |-> w,
                 what |-> <<"literal", chunk[cursor + 1]>>]
<1>6. BitsBehind = writer /\ BitsBehind' = writer'
  BY <1>2 DEF BitsBehind
<1>7. Extends(e) /\ e.what[1] = "literal"
  BY <1>1, <1>2, <1>3, <1>5, <1>6, WrittenAt
<1>8. meaning' = meaning \o NextPart(1)
  <2>1. /\ NextPart(1) \in Seq(Byte) /\ Len(NextPart(1)) = 1
        /\ NextPart(1)[1] = chunk[cursor + 1]
    <3>1. /\ NextPart(1) \in Seq(Byte) /\ Len(NextPart(1)) = 1
          /\ \A i \in 1 .. 1 : NextPart(1)[i] = chunk[cursor + i]
      BY <1>4, NextBytes
    <3> QED BY <3>1
  <2>2. NextPart(1) = <<chunk[cursor + 1]>>
    BY <2>1
  <2>3. meaning \in Seq(Byte)
    BY DEF EncTypeOK
  <2>4. Append(meaning, chunk[cursor + 1]) = meaning \o <<chunk[cursor + 1]>>
    BY <1>4, <2>3, AppendIsConcat
  <2> QED BY <1>2, <2>2, <2>4
<1>9. /\ meaning' \in Seq(Byte) /\ cursor' \in 0 .. Len(chunk')
      /\ SymbolsInv'
  BY <1>2, <1>4, <1>8, MeaningGrows
<1>10. /\ written' \in Seq(Element) /\ output' \in Nat /\ output' >= output
       /\ writer' \in 0 .. 7
  BY <1>1, <1>3, <1>5, WriteBits
<1>11. EncTypeOK'
  BY <1>2, <1>9, <1>10, OuterSame, Numbers DEF EncTypeOK, Places
<1> QED BY <1>2, <1>4, <1>7, <1>8, <1>9, <1>11

LEMMA WriteMatchTypes ==
  ASSUME EncTypeOK, Phases, SymbolsInv, WriteMatch
  PROVE  /\ EncTypeOK' /\ SymbolsInv'
         /\ \E e : /\ Extends(e) /\ e.what[1] = "match"
                   /\ e.what[3] \in Nat /\ e.what[3] <= cursor
         /\ \E n \in Nat : /\ cursor + n <= Len(chunk)
                           /\ cursor' = cursor + n
                           /\ meaning' = meaning \o NextPart(n)
<1>1. PICK n \in MIN_MATCH .. MAX_MATCH, d \in 1 .. Reach :
        /\ IsMatch(n, d)
        /\ \E w \in Coding[kind].match :
             write_bits(writer, w, <<"match", n, d>>)
        /\ meaning' = copy_from_distance(meaning, d, n)
        /\ cursor' = cursor + n
  BY DEF WriteMatch
<1>2. PICK w \in Coding[kind].match : write_bits(writer, w, <<"match", n, d>>)
  BY <1>1
<1>3. /\ pc = "symbols"
      /\ outer' = outer /\ input' = input /\ bit_count' = bit_count
      /\ pc' = pc /\ after' = after /\ chunk' = chunk /\ is_final' = is_final
  BY DEF WriteMatch, block
<1>4. w \in Nat /\ writer \in 0 .. 7 /\ n \in Nat
  <2>1. kind # "stored"
    BY <1>3 DEF Phases
  <2>2. n \in Nat
    BY EncoderAssumption
  <2>3. writer \in 0 .. 7
    BY Numbers
  <2> QED BY <2>1, <2>2, <2>3, CodingWidths
<1>5. /\ cursor + n <= Len(chunk) /\ d <= cursor
      /\ copy_from_distance(meaning, d, n) = meaning \o NextPart(n)
  BY <1>1, <1>3, <1>4, MatchMeans
<1>6. d \in Nat
  <2>1. Reach \in Int
    <3>1. chunk \in Seq(Byte) /\ cursor \in 0 .. Len(chunk)
      BY DEF EncTypeOK
    <3>2. Len(Seen) = cursor
      BY <3>1, TakeProperties DEF Seen
    <3>3. cursor \in Int
      BY <3>1, LenProperties
    <3> QED BY <3>2, <3>3, EncoderAssumption DEF Reach, Min2
  <2> QED BY <2>1
<1>7. <<"match", n, d>> \in Contents
  BY <1>4, <1>6, IsContents
<1> DEFINE e == [at |-> Position(writer), width |-> w,
                 what |-> <<"match", n, d>>]
<1>8. BitsBehind = writer /\ BitsBehind' = writer'
  BY <1>3 DEF BitsBehind
<1>9. Extends(e) /\ e.what = <<"match", n, d>>
  BY <1>2, <1>3, <1>4, <1>7, <1>8, WrittenAt
<1>10. /\ meaning' \in Seq(Byte) /\ cursor' \in 0 .. Len(chunk')
       /\ SymbolsInv'
  BY <1>1, <1>3, <1>4, <1>5, MeaningGrows
<1>11. /\ written' \in Seq(Element) /\ output' \in Nat /\ output' >= output
       /\ writer' \in 0 .. 7
  BY <1>2, <1>4, <1>7, WriteBits
<1>12. EncTypeOK'
  BY <1>3, <1>10, <1>11, OuterSame, Numbers, SMTT(30) DEF EncTypeOK, Places
<1> HIDE DEF e
<1>13. e.what[1] = "match" /\ e.what[3] = d
  BY <1>9
<1> QED BY <1>1, <1>4, <1>5, <1>6, <1>9, <1>10, <1>12, <1>13

LEMMA WriteEndTypes ==
  ASSUME EncTypeOK, Phases, SymbolsInv, WriteEnd
  PROVE  /\ EncTypeOK' /\ SymbolsInv'
         /\ \E e : Extends(e) /\ e.what[1] = "end"
<1>1. PICK w \in Coding[kind].end : write_bits(writer, w, <<"end">>)
  BY DEF WriteEnd
<1>2. /\ pc = "symbols" /\ pc' = "close"
      /\ outer' = outer /\ input' = input /\ bit_count' = bit_count
      /\ block' = block /\ cursor' = cursor /\ meaning' = meaning
  BY DEF WriteEnd
<1>3. w \in Nat /\ writer \in 0 .. 7
  <2>1. kind # "stored"
    BY <1>2 DEF Phases
  <2> QED BY <2>1, CodingWidths, Numbers
<1> DEFINE e == [at |-> Position(writer), width |-> w, what |-> <<"end">>]
<1>4. BitsBehind = writer /\ BitsBehind' = writer'
  BY <1>2 DEF BitsBehind
<1>5. Extends(e) /\ e.what[1] = "end"
  BY <1>1, <1>2, <1>3, <1>4, IsContents, WrittenAt
<1>6. /\ written' \in Seq(Element) /\ output' \in Nat /\ output' >= output
      /\ writer' \in 0 .. 7
  BY <1>1, <1>3, IsContents, WriteBits
<1>7. EncTypeOK'
  BY <1>2, <1>6, OuterSame, Numbers DEF EncTypeOK, Places, block
<1>8. SymbolsInv'
  BY <1>2 DEF SymbolsInv
<1> QED BY <1>5, <1>7, <1>8

LEMMA CloseBlockTypes ==
  ASSUME EncTypeOK, Phases, SymbolsInv, CloseBlock
  PROVE  /\ EncTypeOK' /\ SymbolsInv'
         /\ IF is_final THEN \E e : Extends(e) /\ e.what[1] = "pad"
                        ELSE NothingWritten
<1>1. /\ pc = "close" /\ pc' = after /\ cursor' = 0 /\ chunk' = << >>
      /\ outer' = outer /\ input' = input /\ after' = after
      /\ is_final' = is_final /\ meaning' = meaning
      /\ IF is_final THEN align_to_byte /\ bit_count' = 0
                     ELSE /\ bit_count' = writer /\ writer' = 0
                          /\ output' = output /\ written' = written
  BY DEF CloseBlock, KeepBits
<1>2. after \in {"idle", "feed", "marker"}
  BY DEF EncTypeOK
<1>3. BitsBehind = writer /\ BitsBehind' = bit_count' /\ writer \in 0 .. 7
  BY <1>1, <1>2, Numbers DEF BitsBehind
<1>4. SymbolsInv'
  BY <1>1, <1>2 DEF SymbolsInv
<1>5. /\ chunk' \in Seq(Byte) /\ cursor' \in 0 .. Len(chunk')
      /\ pc' \in Places
  BY <1>1, <1>2, EmptySeq DEF Places
<1>6. CASE is_final
  <2> DEFINE e == [at |-> Position(writer), width |-> (8 - writer) % 8,
                   what |-> <<"pad">>]
  <2>1. align_to_byte /\ bit_count' = 0
    BY <1>1, <1>6
  <2>2. /\ e \in Element /\ written' = Append(written, e)
        /\ written' \in Seq(Element) /\ output' \in Nat /\ output' >= output
        /\ writer' = 0
        /\ 8 * output' = 8 * output + writer + e.width
    BY <2>1, AlignToByte
  <2>3. e.at = Position(writer) /\ e.what = <<"pad">> /\ e.width \in Nat
    BY <2>2 DEF Element
  <2> HIDE DEF e
  <2>4. EncTypeOK'
    BY <1>1, <1>5, <2>1, <2>2, OuterSame, Numbers DEF EncTypeOK
  <2>5. Position(BitsBehind)' = Position(BitsBehind) + e.width
    <3> DEFINE o == output'
               n == e.width
    <3>1. o \in Nat /\ n \in Nat /\ 8 * o = 8 * output + writer + n
      BY <2>2, <2>3
    <3>2. output \in Nat
      BY Numbers
    <3> HIDE DEF o, n
    <3>3. 8 * o + 0 = 8 * output + writer + n
      BY <3>1, <3>2, <1>3
    <3> QED BY <1>1, <1>3, <2>1, <3>1, <3>3, PositionMoves DEF o, n
  <2>6. Extends(e)
    BY <1>3, <2>2, <2>3, <2>5 DEF Extends
  <2> QED BY <1>4, <1>6, <2>3, <2>4, <2>6
<1>7. CASE ~ is_final
  <2>1. bit_count' = writer /\ writer' = 0 /\ output' = output
        /\ written' = written
    BY <1>1, <1>7
  <2>2. EncTypeOK'
    BY <1>1, <1>3, <1>5, <2>1, OuterSame, Numbers DEF EncTypeOK
  <2>3. NothingWritten
    BY <1>1, <1>3, <2>1, OuterSame DEF NothingWritten, Position
  <2> QED BY <1>4, <1>7, <2>2, <2>3
<1> QED BY <1>6, <1>7
-----------------------------------------------------------------------------
(* The steps that write nothing, and leave the block under way alone or    *)
(* begin one.                                                              *)

LEMMA FeedTypes ==
  ASSUME EncTypeOK, NEW data \in Pieces, Feed(data)
  PROVE  EncTypeOK' /\ SymbolsInv' /\ NothingWritten
<1>1. /\ pc = "idle" /\ pc' = "feed"
      /\ fed' = fed \o data /\ input' = input \o data
      /\ kind' = kind /\ limit' = limit /\ output' = output
      /\ drained' = drained /\ bit_count' = bit_count
      /\ finishing' = finishing /\ taken' = taken /\ after' = after
      /\ chunk' = chunk /\ is_final' = is_final /\ cursor' = cursor
      /\ writer' = writer /\ written' = written /\ meaning' = meaning
      /\ reset_at' = reset_at
  BY DEF Feed, Call, options, block, history
<1>2. data \in Seq(Byte) /\ fed \in Seq(Byte) /\ input \in Seq(Byte)
  BY EncoderAssumption DEF EncTypeOK
<1>3. /\ fed' \in Seq(Byte) /\ input' \in Seq(Byte)
      /\ Len(fed') = Len(fed) + Len(data)
  BY <1>1, <1>2, ConcatProperties
<1>4. reset_at' \in 0 .. Len(fed')
  <2>1. Len(fed) \in Nat /\ Len(data) \in Nat /\ reset_at \in 0 .. Len(fed)
    BY <1>2, LenProperties DEF EncTypeOK
  <2>2. Len(fed) + Len(data) \in Nat /\ reset_at <= Len(fed) + Len(data)
    BY <2>1
  <2> QED BY <1>1, <1>3, <2>1, <2>2
<1>5. EncTypeOK'
  BY <1>1, <1>3, <1>4 DEF EncTypeOK, Places
<1>6. NothingWritten
  BY <1>1 DEF NothingWritten, Position, BitsBehind
<1> QED BY <1>1, <1>5, <1>6 DEF SymbolsInv

LEMMA FeedLoopTypes ==
  ASSUME EncTypeOK, Phases, FeedLoop
  PROVE  EncTypeOK' /\ SymbolsInv' /\ NothingWritten
<1>1. /\ pc = "feed" /\ outer' = outer /\ output' = output
      /\ bit_count' = bit_count /\ cursor' = cursor /\ writer' = writer
      /\ written' = written /\ meaning' = meaning
      /\ IF Full THEN /\ chunk' = SubSeq(input, 1, limit)
                      /\ is_final' = FALSE /\ after' = "feed"
                      /\ input' = SubSeq(input, limit + 1, Len(input))
                      /\ pc' = "emit"
                 ELSE /\ pc' = "idle" /\ input' = input /\ chunk' = chunk
                      /\ is_final' = is_final /\ after' = after
  BY DEF FeedLoop, emit_block_chunk, history, block
<1>2. NothingWritten
  BY <1>1, OuterSame DEF NothingWritten, Position, BitsBehind
<1>3. cursor = 0
  BY <1>1 DEF Phases, InBlock
<1>4. CASE Full
  <2>1. input \in Seq(Byte) /\ Len(input) \in Nat /\ limit \in 0 .. Len(input)
    BY <1>4, LenProperties, EncoderAssumption DEF EncTypeOK, Full
  <2>2. /\ SubSeq(input, 1, limit) \in Seq(Byte)
        /\ Len(SubSeq(input, 1, limit)) = limit
    BY <2>1, TakeProperties
  <2>3. SubSeq(input, limit + 1, Len(input)) \in Seq(Byte)
    BY <2>1, DropProperties
  <2>4. /\ chunk' \in Seq(Byte) /\ cursor' \in 0 .. Len(chunk')
        /\ input' \in Seq(Byte)
        /\ pc' \in Places /\ after' \in {"idle", "feed", "marker"}
        /\ is_final' \in BOOLEAN
    <3>1. /\ chunk' = SubSeq(input, 1, limit) /\ cursor' = 0
          /\ input' = SubSeq(input, limit + 1, Len(input))
          /\ pc' = "emit" /\ after' = "feed" /\ is_final' = FALSE
      BY <1>1, <1>3, <1>4
    <3>2. chunk' \in Seq(Byte) /\ Len(chunk') = limit /\ input' \in Seq(Byte)
      BY <2>2, <2>3, <3>1
    <3>3. cursor' \in 0 .. Len(chunk')
      BY <2>1, <3>1, <3>2
    <3>4. pc' \in Places
      BY <3>1 DEF Places
    <3> QED BY <3>1, <3>2, <3>3, <3>4
  <2>5. EncTypeOK'
    BY <1>1, <2>4, OuterSame DEF EncTypeOK
  <2> QED BY <1>1, <1>2, <1>4, <2>5 DEF SymbolsInv
<1>5. CASE ~ Full
  <2>1. EncTypeOK'
    BY <1>1, <1>5, OuterSame DEF EncTypeOK, Places
  <2> QED BY <1>1, <1>2, <1>5, <2>1 DEF SymbolsInv
<1> QED BY <1>4, <1>5

LEMMA FinishTypes ==
  ASSUME EncTypeOK, Phases, Finish
  PROVE  EncTypeOK' /\ SymbolsInv' /\ NothingWritten
<1>1. /\ pc = "idle" /\ pc' = "emit"
      /\ kind' = kind /\ limit' = limit /\ output' = output
      /\ drained' = drained /\ bit_count' = bit_count
      /\ finishing' = TRUE /\ fed' = fed /\ taken' = taken
      /\ chunk' = input /\ is_final' = TRUE /\ after' = "idle"
      /\ input' = << >> /\ cursor' = cursor
      /\ writer' = writer /\ written' = written /\ meaning' = meaning
      /\ reset_at' = reset_at
  BY DEF Finish, Call, emit_block_chunk, options, history
<1>2. cursor = 0
  BY <1>1 DEF Phases, InBlock
<1>3. input \in Seq(Byte) /\ << >> \in Seq(Byte) /\ 0 \in 0 .. Len(input)
  BY EmptySeq, LenProperties DEF EncTypeOK
<1>4. EncTypeOK'
  BY <1>1, <1>2, <1>3 DEF EncTypeOK, Places
<1>5. NothingWritten
  BY <1>1 DEF NothingWritten, Position, BitsBehind
<1> QED BY <1>1, <1>4, <1>5 DEF SymbolsInv

LEMMA SyncFlushTypes ==
  ASSUME EncTypeOK, Phases, SyncFlush
  PROVE  EncTypeOK' /\ SymbolsInv' /\ NothingWritten
<1>1. /\ pc = "idle"
      /\ kind' = kind /\ limit' = limit /\ output' = output
      /\ drained' = drained /\ bit_count' = bit_count
      /\ finishing' = finishing /\ fed' = fed /\ taken' = taken
      /\ input' = << >> /\ cursor' = cursor
      /\ writer' = writer /\ written' = written /\ meaning' = meaning
      /\ reset_at' = reset_at
      /\ IF input # << >>
           THEN /\ pc' = "emit" /\ chunk' = input /\ is_final' = FALSE
                /\ after' = "marker"
           ELSE /\ pc' = "marker" /\ chunk' = chunk /\ is_final' = is_final
                /\ after' = after
  BY DEF SyncFlush, Call, emit_block_chunk, options, history, block
<1>2. cursor = 0
  BY <1>1 DEF Phases, InBlock
<1>3. input \in Seq(Byte) /\ << >> \in Seq(Byte) /\ 0 \in 0 .. Len(input)
  BY EmptySeq, LenProperties DEF EncTypeOK
<1>4. EncTypeOK'
  BY <1>1, <1>2, <1>3 DEF EncTypeOK, Places
<1>5. NothingWritten
  BY <1>1 DEF NothingWritten, Position, BitsBehind
<1> QED BY <1>1, <1>4, <1>5 DEF SymbolsInv

LEMMA MarkerTypes ==
  ASSUME EncTypeOK, Phases, Marker
  PROVE  EncTypeOK' /\ SymbolsInv' /\ NothingWritten
<1>1. /\ pc = "marker" /\ pc' = "stored" /\ outer' = outer /\ input' = input
      /\ output' = output /\ bit_count' = bit_count /\ cursor' = cursor
      /\ writer' = writer /\ written' = written /\ meaning' = meaning
      /\ chunk' = << >> /\ is_final' = FALSE /\ after' = "idle"
  BY DEF Marker, emit_block_chunk, history
<1>2. cursor = 0
  BY <1>1 DEF Phases, InBlock
<1>3. << >> \in Seq(Byte) /\ 0 \in 0 .. Len(<< >>)
  BY EmptySeq
<1>4. EncTypeOK'
  BY <1>1, <1>2, <1>3, OuterSame DEF EncTypeOK, Places
<1>5. NothingWritten
  BY <1>1, OuterSame DEF NothingWritten, Position, BitsBehind
<1> QED BY <1>1, <1>4, <1>5 DEF SymbolsInv

LEMMA EmitStoredTypes ==
  ASSUME EncTypeOK, EmitStored
  PROVE  EncTypeOK' /\ SymbolsInv' /\ NothingWritten
<1>1. /\ pc = "emit" /\ pc' = "stored" /\ outer' = outer /\ input' = input
      /\ output' = output /\ bit_count' = bit_count /\ cursor' = cursor
      /\ writer' = writer /\ written' = written /\ meaning' = meaning
      /\ chunk' = chunk /\ is_final' = is_final /\ after' = after
  BY DEF EmitStored, history, block
<1>2. EncTypeOK'
  BY <1>1, OuterSame DEF EncTypeOK, Places
<1>3. NothingWritten
  BY <1>1, OuterSame DEF NothingWritten, Position, BitsBehind
<1> QED BY <1>1, <1>2, <1>3 DEF SymbolsInv

(* A refused call, a second finish and a history that is dropped.          *)
Aside == Refused \/ ResetHistory

LEMMA AsideSame ==
  ASSUME Aside
  PROVE  /\ pc = "idle" /\ pc' = pc /\ kind' = kind /\ limit' = limit
         /\ input' = input /\ output' = output /\ drained' = drained
         /\ bit_count' = bit_count /\ finishing' = finishing /\ fed' = fed
         /\ taken' = taken /\ after' = after /\ chunk' = chunk
         /\ is_final' = is_final /\ cursor' = cursor /\ writer' = writer
         /\ written' = written /\ meaning' = meaning
         /\ reset_at' \in {reset_at, Len(fed)}
<1>1. CASE ResetHistory
  BY <1>1 DEF ResetHistory, options, caller, block, history
<1>2. ASSUME NEW name, NEW a, AfterFinish(name, a)
      PROVE  /\ pc = "idle" /\ pc' = pc /\ kind' = kind /\ limit' = limit
             /\ input' = input /\ output' = output /\ drained' = drained
             /\ bit_count' = bit_count /\ finishing' = finishing /\ fed' = fed
             /\ taken' = taken /\ after' = after /\ chunk' = chunk
             /\ is_final' = is_final /\ cursor' = cursor /\ writer' = writer
             /\ written' = written /\ meaning' = meaning
             /\ reset_at' = reset_at
  BY <1>2 DEF AfterFinish, options, block, history
<1> QED BY <1>1, <1>2 DEF Aside, Refused

LEMMA AsideTypes ==
  ASSUME EncTypeOK, Aside
  PROVE  EncTypeOK' /\ SymbolsInv' /\ NothingWritten
<1>1. Len(fed) \in 0 .. Len(fed)
  BY LenProperties DEF EncTypeOK
<1>2. EncTypeOK'
  BY <1>1, AsideSame DEF EncTypeOK
<1>3. NothingWritten
  BY AsideSame DEF NothingWritten, Position, BitsBehind
<1> QED BY <1>2, <1>3, AsideSame DEF SymbolsInv

LEMMA AdvanceTypes ==
  ASSUME EncTypeOK, NEW n \in Advances \cup {output - drained}, Advance(n)
  PROVE  EncTypeOK' /\ SymbolsInv' /\ NothingWritten
<1>1. /\ pc = "idle" /\ n <= output - drained /\ taken' = taken + n
      /\ Compact(drained + n)
      /\ pc' = pc /\ kind' = kind /\ limit' = limit /\ input' = input
      /\ bit_count' = bit_count /\ finishing' = finishing /\ fed' = fed
      /\ after' = after /\ chunk' = chunk
      /\ is_final' = is_final /\ cursor' = cursor /\ writer' = writer
      /\ written' = written /\ meaning' = meaning /\ reset_at' = reset_at
  BY DEF Advance, options, caller, block, history
<1>2. /\ output \in Nat /\ taken \in Nat /\ drained \in Nat
      /\ drained <= taken /\ drained <= output
  BY Numbers
<1>3. n \in Nat /\ COMPACT_THRESHOLD \in Nat
  BY <1>2, EncoderAssumption
<1>4. CASE drained + n >= COMPACT_THRESHOLD
  <2>1. output' = output - (drained + n) /\ drained' = 0
    BY <1>1, <1>4 DEF Compact
  <2>2. /\ output' \in Nat /\ drained' \in 0 .. COMPACT_THRESHOLD - 1
        /\ taken' \in Nat /\ drained' <= output' /\ drained' <= taken'
    BY <1>1, <1>2, <2>1, EncoderAssumption
  <2>3. EncTypeOK'
    BY <1>1, <2>2 DEF EncTypeOK
  <2>4. taken' - drained' + output' = taken - drained + output
    BY <1>1, <1>2, <1>3, <2>1
  <2>5. NothingWritten
    BY <1>1, <2>4 DEF NothingWritten, Position, BitsBehind
  <2> QED BY <1>1, <2>3, <2>5 DEF SymbolsInv
<1>5. CASE drained + n < COMPACT_THRESHOLD
  <2>1. output' = output /\ drained' = drained + n
    BY <1>1, <1>2, <1>3, <1>5 DEF Compact
  <2>2. /\ output' \in Nat /\ drained' \in 0 .. COMPACT_THRESHOLD - 1
        /\ taken' \in Nat /\ drained' <= output' /\ drained' <= taken'
    BY <1>1, <1>2, <1>3, <1>5, <2>1
  <2>3. EncTypeOK'
    BY <1>1, <2>2 DEF EncTypeOK
  <2>4. taken' - drained' + output' = taken - drained + output
    BY <1>1, <1>2, <1>3, <2>1
  <2>5. NothingWritten
    BY <1>1, <2>4 DEF NothingWritten, Position, BitsBehind
  <2> QED BY <1>1, <2>3, <2>5 DEF SymbolsInv
<1>6. drained + n >= COMPACT_THRESHOLD \/ drained + n < COMPACT_THRESHOLD
  BY <1>2, <1>3
<1> QED BY <1>4, <1>5, <1>6
-----------------------------------------------------------------------------
(* Nothing moves in a step that is none.                                   *)
LEMMA Stutter ==
  ASSUME evars' = evars
  PROVE  /\ outer' = outer /\ input' = input /\ output' = output
         /\ bit_count' = bit_count /\ pc' = pc /\ after' = after
         /\ chunk' = chunk /\ is_final' = is_final /\ cursor' = cursor
         /\ writer' = writer /\ written' = written /\ meaning' = meaning
  BY DEF evars, block, history

(* Every step keeps the types, and writes nothing or an element that goes  *)
(* where the last one ended.                                               *)
LEMMA TypesNext ==
  ASSUME EncTypeOK, Phases, SymbolsInv, [ENext]_evars
  PROVE  EncTypeOK' /\ SymbolsInv' /\ (NothingWritten \/ \E e : Extends(e))
<1>1. ASSUME NEW data \in Pieces, Feed(data)
      PROVE  EncTypeOK' /\ SymbolsInv' /\ NothingWritten
  BY <1>1, FeedTypes
<1>2. CASE Finish
  BY <1>2, FinishTypes
<1>3. CASE SyncFlush
  BY <1>3, SyncFlushTypes
<1>4. CASE Aside
  BY <1>4, AsideTypes
<1>5. ASSUME NEW n \in Advances \cup {output - drained}, Advance(n)
      PROVE  EncTypeOK' /\ SymbolsInv' /\ NothingWritten
  BY <1>5, AdvanceTypes
<1>6. CASE FeedLoop
  BY <1>6, FeedLoopTypes
<1>7. CASE Marker
  BY <1>7, MarkerTypes
<1>8. CASE EmitStored
  BY <1>8, EmitStoredTypes
<1>9. CASE StoredHeader
  <2>1. SymbolsInv'
    BY <1>9 DEF StoredHeader, SymbolsInv
  <2> QED BY <1>9, <2>1, StoredHeaderTypes
<1>10. CASE StoredAlign
  <2>1. SymbolsInv'
    BY <1>10 DEF StoredAlign, SymbolsInv
  <2> QED BY <1>10, <2>1, StoredAlignTypes
<1>11. CASE StoredBytes
  <2>1. SymbolsInv'
    BY <1>11 DEF StoredBytes, SymbolsInv, EncTypeOK
  <2> QED BY <1>11, <2>1, StoredBytesTypes
<1>12. CASE EmitHuffman
  BY <1>12, EmitHuffmanTypes
<1>13. CASE WriteLiteral
  BY <1>13, WriteLiteralTypes
<1>14. CASE WriteMatch
  BY <1>14, WriteMatchTypes
<1>15. CASE WriteEnd
  BY <1>15, WriteEndTypes
<1>16. CASE CloseBlock
  BY <1>16, CloseBlockTypes
<1>17. CASE UNCHANGED evars
  <2>1. EncTypeOK'
    BY <1>17, Stutter, OuterSame DEF EncTypeOK
  <2>2. SymbolsInv' /\ NothingWritten
    BY <1>17, Stutter, OuterSame DEF SymbolsInv, NothingWritten, Position,
       BitsBehind
  <2> QED BY <2>1, <2>2
<1> QED
  BY <1>1, <1>2, <1>3, <1>4, <1>5, <1>6, <1>7, <1>8, <1>9, <1>10, <1>11,
     <1>12, <1>13, <1>14, <1>15, <1>16, <1>17 DEF ENext, EStep, Aside

(* The phases follow each other.                                           *)
LEMMA PhasesNext ==
  ASSUME EncTypeOK, Phases, [ENext]_evars
  PROVE  Phases'
<1>1. ASSUME NEW data \in Pieces, Feed(data) PROVE Phases'
  BY <1>1 DEF Feed, Call, options, block, Phases, InBlock
<1>2. CASE Finish
  BY <1>2 DEF Finish, Call, emit_block_chunk, options, Phases, InBlock
<1>3. CASE SyncFlush
  <2>1. CASE input # << >>
    <3>1. /\ pc = "idle" /\ pc' = "emit" /\ ~ finishing /\ ~ finishing'
          /\ cursor' = cursor
      BY <1>3, <2>1 DEF SyncFlush, Call, emit_block_chunk
    <3>2. /\ finishing \in BOOLEAN /\ is_final' = FALSE
          /\ finishing' = finishing /\ pc = "idle"
      BY <1>3, <2>1 DEF SyncFlush, Call, emit_block_chunk, EncTypeOK
    <3>3. cursor = 0
      BY <3>2 DEF Phases, InBlock
    <3> QED BY <3>1, <3>2, <3>3 DEF Phases, InBlock
  <2>2. CASE input = << >>
    BY <1>3, <2>2 DEF SyncFlush, Call, options, block, Phases, InBlock
  <2> QED BY <2>1, <2>2
<1>4. CASE Aside
  BY <1>4, AsideSame DEF Phases
<1>5. ASSUME NEW n \in Advances \cup {output - drained}, Advance(n)
      PROVE  Phases'
  BY <1>5 DEF Advance, options, caller, block, Phases
<1>6. CASE FeedLoop
  <2>1. /\ ~ finishing /\ cursor = 0 /\ chunk = << >> /\ is_final = finishing
        /\ pc = "feed" /\ outer' = outer /\ bit_count' = bit_count
        /\ cursor' = cursor
    BY <1>6 DEF FeedLoop, Phases, InBlock
  <2>2. finishing' = finishing /\ finishing \in BOOLEAN
    BY <2>1, OuterSame DEF EncTypeOK
  <2>3. CASE Full
    <3>1. pc' = "emit" /\ is_final' = FALSE
      BY <1>6, <2>3 DEF FeedLoop, emit_block_chunk
    <3> QED BY <2>1, <2>2, <3>1 DEF Phases, InBlock
  <2>4. CASE ~ Full
    <3>1. pc' = "idle" /\ is_final' = is_final /\ chunk' = chunk
      BY <1>6, <2>4 DEF FeedLoop, block
    <3> QED BY <2>1, <2>2, <3>1 DEF Phases, InBlock
  <2> QED BY <2>3, <2>4
<1>7. CASE Marker
  <2>1. /\ ~ finishing /\ pc = "marker" /\ pc' = "stored" /\ outer' = outer
        /\ is_final' = FALSE
    BY <1>7 DEF Marker, emit_block_chunk, Phases
  <2>2. finishing' = finishing /\ finishing \in BOOLEAN
    BY <2>1, OuterSame DEF EncTypeOK
  <2> QED BY <2>1, <2>2 DEF Phases, InBlock
<1>8. CASE EmitStored
  BY <1>8, OuterSame DEF EmitStored, block, Phases, InBlock
<1>9. CASE StoredHeader
  BY <1>9, OuterSame DEF StoredHeader, block, Phases, InBlock
<1>10. CASE StoredAlign
  BY <1>10, OuterSame DEF StoredAlign, block, Phases, InBlock
<1>11. CASE StoredBytes
  <2>1. /\ pc = "bytes" /\ outer' = outer /\ input' = input
        /\ bit_count' = bit_count /\ after' = after /\ is_final' = is_final
        /\ \/ pc' = after /\ cursor' = 0 /\ chunk' = << >>
           \/ pc' = "stored"
    BY <1>11 DEF StoredBytes
  <2>2. finishing' = finishing /\ after \in {"idle", "feed", "marker"}
    BY <2>1, OuterSame DEF EncTypeOK
  <2> QED BY <2>1, <2>2 DEF Phases, InBlock
<1>12. CASE EmitHuffman
  BY <1>12, OuterSame DEF EmitHuffman, block, Phases, InBlock
<1>13. CASE WriteLiteral
  BY <1>13, OuterSame DEF WriteLiteral, block, Phases, InBlock
<1>14. CASE WriteMatch
  BY <1>14, OuterSame DEF WriteMatch, block, Phases, InBlock
<1>15. CASE WriteEnd
  BY <1>15, OuterSame DEF WriteEnd, block, Phases, InBlock
<1>16. CASE CloseBlock
  BY <1>16, OuterSame DEF CloseBlock, Phases, InBlock, EncTypeOK
<1>17. CASE UNCHANGED evars
  BY <1>17, Stutter, OuterSame DEF Phases
<1> QED
  BY <1>1, <1>2, <1>3, <1>4, <1>5, <1>6, <1>7, <1>8, <1>9, <1>10, <1>11,
     <1>12, <1>13, <1>14, <1>15, <1>16, <1>17 DEF ENext, EStep, Aside

IInv == EncTypeOK /\ Phases /\ SymbolsInv

LEMMA InitIInv == EInit => IInv
<1> SUFFICES ASSUME EInit PROVE IInv
  OBVIOUS
<1>1. /\ \A S : << >> \in Seq(S)
      /\ Len(<< >>) = 0
  BY EmptySeq
<1>2. EncTypeOK
  <2>1. COMPACT_THRESHOLD \in Nat \ {0} /\ 0 \in 0 .. Len(<< >>)
    BY <1>1, EncoderAssumption
  <2>2. 0 \in 0 .. COMPACT_THRESHOLD - 1
    BY <2>1
  <2>3. "idle" \in Places
    BY DEF Places
  <2>4. << >> \in Seq(Byte) /\ << >> \in Seq(Element)
    BY <1>1
  <2>5. /\ output \in Nat /\ taken \in Nat /\ drained <= output
        /\ drained <= taken /\ drained \in 0 .. COMPACT_THRESHOLD - 1
        /\ bit_count \in 0 .. 7 /\ writer \in 0 .. 7
    BY <2>2 DEF EInit
  <2>6. /\ finishing \in BOOLEAN /\ is_final \in BOOLEAN
        /\ pc \in Places /\ after \in {"idle", "feed", "marker"}
        /\ kind \in Kinds /\ limit \in Limits
    BY <2>3 DEF EInit
  <2>7. /\ input \in Seq(Byte) /\ fed \in Seq(Byte) /\ meaning \in Seq(Byte)
        /\ chunk \in Seq(Byte) /\ written \in Seq(Element)
        /\ cursor \in 0 .. Len(chunk) /\ reset_at \in 0 .. Len(fed)
    BY <2>1, <2>4 DEF EInit
  <2> QED BY <2>5, <2>6, <2>7 DEF EncTypeOK
<1>3. Phases /\ SymbolsInv
  BY DEF EInit, Phases, InBlock, SymbolsInv
<1> QED BY <1>2, <1>3 DEF IInv

LEMMA NextIInv == IInv /\ [ENext]_evars => IInv'
  BY TypesNext, PhasesNext DEF IInv

LEMMA Invariance == ESpec => []IInv
  BY InitIInv, NextIInv, PTL DEF ESpec

(* The state keeps its types, whatever is called in whatever order: fewer  *)
(* than eight bits wait, the consumed part of the output stays below the   *)
(* threshold, and every element has a width and a place.                   *)
THEOREM EncoderTypes == ESpec => []EncTypeOK
  BY Invariance, PTL DEF IInv
-----------------------------------------------------------------------------
(* The elements tile the stream: all a step does is to extend them.        *)
LEMMA TileNext ==
  ASSUME EncTypeOK, BitsTile, NothingWritten \/ \E e : Extends(e)
  PROVE  BitsTile'
<1>1. CASE NothingWritten
  BY <1>1 DEF NothingWritten, BitsTile
<1>2. ASSUME NEW e, Extends(e) PROVE BitsTile'
  <2>1. /\ e \in Element /\ written' = Append(written, e)
        /\ e.at = Position(BitsBehind)
        /\ Position(BitsBehind)' = e.at + e.width
    BY <1>2 DEF Extends
  <2>2. written \in Seq(Element)
    BY DEF EncTypeOK
  <2>3. /\ Len(written') = Len(written) + 1 /\ Len(written) \in Nat
        /\ \A i \in 1 .. Len(written) : written'[i] = written[i]
        /\ written'[Len(written) + 1] = e
    BY <2>1, <2>2, ElementsAppended
  <2>4. e.at = IF written = << >> THEN 0
               ELSE written[Len(written)].at + written[Len(written)].width
    BY <2>1 DEF BitsTile
  <2>5. written' # << >>
    BY <2>1, <2>2, AppendProperties
  <2>6. written'[1].at = 0
    <3>1. CASE written = << >>
      <4>1. Len(written) = 0
        BY <3>1, EmptySeq
      <4> QED BY <2>3, <2>4, <3>1, <4>1
    <3>2. CASE written # << >>
      <4>1. 1 \in 1 .. Len(written)
        BY <2>2, <2>3, <3>2, EmptySeq
      <4> QED BY <2>3, <3>2, <4>1 DEF BitsTile
    <3> QED BY <3>1, <3>2
  <2>7. ASSUME NEW i \in 1 .. Len(written') - 1
        PROVE  written'[i + 1].at = written'[i].at + written'[i].width
    <3>1. i \in 1 .. Len(written)
      BY <2>3
    <3>2. CASE i = Len(written)
      <4>1. written # << >>
        BY <3>1, <3>2, EmptySeq
      <4> QED BY <2>3, <2>4, <3>1, <3>2, <4>1
    <3>3. CASE i < Len(written)
      <4>1. i \in 1 .. Len(written) - 1 /\ i + 1 \in 1 .. Len(written)
        BY <2>3, <3>1, <3>3
      <4>2. written[i + 1].at = written[i].at + written[i].width
        BY <4>1 DEF BitsTile
      <4> QED BY <2>3, <3>1, <4>1, <4>2
    <3>4. i = Len(written) \/ i < Len(written)
      BY <2>3, <3>1
    <3> QED BY <3>2, <3>3, <3>4
  <2>8. Position(BitsBehind)'
          = written'[Len(written')].at + written'[Len(written')].width
    BY <2>1, <2>3
  <2> QED BY <2>5, <2>6, <2>7, <2>8 DEF BitsTile
<1> QED BY <1>1, <1>2

LEMMA InitTile == EInit => BitsTile
<1> SUFFICES ASSUME EInit PROVE BitsTile
  OBVIOUS
<1>1. written = << >> /\ Len(written) = 0
  BY EmptySeq DEF EInit
<1>2. Position(BitsBehind) = 0
  BY DEF EInit, Position, BitsBehind
<1> QED BY <1>1, <1>2 DEF BitsTile

(* Every bit of the stream is written once, across blocks, flushes and     *)
(* compactions.                                                            *)
THEOREM EveryBitOnce == ESpec => []BitsTile
<1>1. IInv /\ BitsTile /\ [ENext]_evars => BitsTile'
  BY TypesNext, TileNext DEF IInv
<1> QED BY <1>1, InitTile, Invariance, PTL DEF ESpec
-----------------------------------------------------------------------------
(* What of the chunk is still to be written.                               *)
Rest == SubSeq(chunk, cursor + 1, Len(chunk))

LEMMA RestType ==
  ASSUME EncTypeOK
  PROVE  /\ Rest \in Seq(Byte) /\ meaning \in Seq(Byte) /\ input \in Seq(Byte)
         /\ fed \in Seq(Byte)
         /\ cursor = Len(chunk) => Rest = << >>
<1>1. chunk \in Seq(Byte) /\ cursor \in 0 .. Len(chunk) /\ Len(chunk) \in Nat
  BY LenProperties DEF EncTypeOK
<1>2. Rest \in Seq(Byte)
  BY <1>1, DropProperties DEF Rest
<1>3. cursor = Len(chunk) => Rest = << >>
  <2>1. cursor = Len(chunk) => Len(chunk) < cursor + 1
    BY <1>1
  <2> QED BY <1>1, <2>1, SubSeqEmpty DEF Rest
<1> QED BY <1>2, <1>3 DEF EncTypeOK

LEMMA Associative ==
  \A s, t, u \in Seq(Byte) : (s \o t) \o u = s \o (t \o u)
  BY ConcatAssociative

(* Bytes that are written move from the chunk to the meaning.              *)
LEMMA BytesMove ==
  ASSUME EncTypeOK, NothingLost, NEW n \in Nat, cursor + n <= Len(chunk),
         meaning' = meaning \o NextPart(n), fed' = fed, input' = input,
         Rest' = SubSeq(chunk, cursor + n + 1, Len(chunk))
  PROVE  NothingLost'
<1> DEFINE b == NextPart(n)
           r == SubSeq(chunk, cursor + n + 1, Len(chunk))
<1>1. b \in Seq(Byte) /\ Rest = b \o r
  BY NextBytes DEF Rest
<1>2. r \in Seq(Byte)
  <2>1. chunk \in Seq(Byte) /\ cursor + n \in 0 .. Len(chunk)
    BY LenProperties DEF EncTypeOK
  <2> QED BY <2>1, DropProperties
<1> HIDE DEF b, r
<1>3. (meaning \o b) \o r = meaning \o Rest
  <2>1. meaning \in Seq(Byte)
    BY RestType
  <2>2. (meaning \o b) \o r = meaning \o (b \o r)
    BY <1>1, <1>2, <2>1, Associative
  <2> QED BY <1>1, <2>2
<1>4. fed = meaning \o Rest \o input
  BY DEF NothingLost, Rest
<1>5. fed' = meaning' \o Rest' \o input'
  BY <1>3, <1>4 DEF b, r
<1> QED BY <1>5 DEF NothingLost, Rest

(* A chunk is taken off the buffer when there is none.                     *)
LEMMA ChunkTaken ==
  ASSUME EncTypeOK, EncTypeOK', NothingLost, chunk = << >>, cursor = 0,
         cursor' = 0, input = chunk' \o input', fed' = fed, meaning' = meaning
  PROVE  NothingLost'
<1>1. Rest = << >>
  BY EmptySeq, RestType
<1>2. chunk' \in Seq(Byte) /\ input' \in Seq(Byte)
  BY DEF EncTypeOK
<1>3. Rest' = chunk'
  BY <1>2, SubSeqFull DEF Rest
<1>4. fed = meaning \o Rest \o input
  BY DEF NothingLost, Rest
<1>5. meaning \o Rest = meaning
  BY <1>1, RestType, ConcatEmptySeq
<1>6. meaning \o (chunk' \o input') = (meaning \o chunk') \o input'
  <2>1. meaning \in Seq(Byte)
    BY RestType
  <2> QED BY <1>2, <2>1, Associative
<1>7. fed' = meaning' \o Rest' \o input'
  BY <1>3, <1>4, <1>5, <1>6
<1> QED BY <1>7 DEF NothingLost, Rest

LEMMA LostNext ==
  ASSUME IInv, IInv', NothingLost, [ENext]_evars
  PROVE  NothingLost'
<1> USE DEF IInv
<1>0. cursor \in Nat /\ Len(chunk) \in Nat /\ << >> \in Seq(Byte)
  BY LenProperties, EmptySeq DEF EncTypeOK
<1>1. ASSUME NEW data \in Pieces, Feed(data) PROVE NothingLost'
  <2>1. /\ fed' = fed \o data /\ input' = input \o data /\ Rest' = Rest
        /\ meaning' = meaning
    BY <1>1 DEF Feed, Rest, block, history
  <2>2. data \in Seq(Byte)
    BY EncoderAssumption
  <2>3. meaning \o Rest \in Seq(Byte)
    BY RestType, ConcatProperties
  <2>4. (meaning \o Rest \o input) \o data = (meaning \o Rest) \o (input \o data)
    BY <2>2, <2>3, RestType, Associative
  <2>5. fed' = meaning' \o Rest' \o input'
    BY <2>1, <2>4 DEF NothingLost, Rest
  <2> QED BY <2>5 DEF NothingLost, Rest
<1>2. CASE Finish
  <2>1. /\ pc = "idle" /\ fed' = fed /\ meaning' = meaning /\ cursor' = cursor
        /\ chunk' = input /\ input' = << >>
    BY <1>2 DEF Finish, Call, emit_block_chunk, history
  <2>2. chunk = << >> /\ cursor = 0
    BY <2>1 DEF Phases, InBlock
  <2>3. input = chunk' \o input'
    BY <2>1, RestType, ConcatEmptySeq
  <2> QED BY <2>1, <2>2, <2>3, ChunkTaken
<1>3. CASE SyncFlush
  <2>1. /\ pc = "idle" /\ fed' = fed /\ meaning' = meaning /\ cursor' = cursor
        /\ input' = << >>
        /\ chunk' = IF input # << >> THEN input ELSE chunk
    BY <1>3 DEF SyncFlush, Call, emit_block_chunk, history, block
  <2>2. chunk = << >> /\ cursor = 0
    BY <2>1 DEF Phases, InBlock
  <2>3. input = chunk' \o input'
    BY <1>0, <2>1, <2>2, RestType, ConcatEmptySeq
  <2> QED BY <2>1, <2>2, <2>3, ChunkTaken
<1>4. CASE Aside
  BY <1>4, AsideSame DEF NothingLost
<1>5. ASSUME NEW n \in Advances \cup {output - drained}, Advance(n)
      PROVE  NothingLost'
  BY <1>5 DEF Advance, caller, block, history, NothingLost
<1>6. CASE FeedLoop
  <2>1. /\ pc = "feed" /\ outer' = outer /\ cursor' = cursor
        /\ meaning' = meaning
    BY <1>6 DEF FeedLoop, history
  <2>2. chunk = << >> /\ cursor = 0
    BY <2>1 DEF Phases, InBlock
  <2>3. CASE Full
    <3>1. /\ chunk' = SubSeq(input, 1, limit)
          /\ input' = SubSeq(input, limit + 1, Len(input))
      BY <1>6, <2>3 DEF FeedLoop, emit_block_chunk
    <3>2. limit \in 0 .. Len(input)
      BY <2>3, RestType, LenProperties, EncoderAssumption DEF EncTypeOK, Full
    <3>3. input = chunk' \o input'
      BY <3>1, <3>2, RestType, SplitAt
    <3> QED BY <2>1, <2>2, <3>3, OuterSame, ChunkTaken
  <2>4. CASE ~ Full
    BY <1>6, <2>1, <2>4, OuterSame DEF FeedLoop, block, NothingLost
  <2> QED BY <2>3, <2>4
<1>7. CASE Marker
  <2>1. /\ pc = "marker" /\ outer' = outer /\ cursor' = cursor
        /\ meaning' = meaning /\ input' = input /\ chunk' = << >>
    BY <1>7 DEF Marker, emit_block_chunk, history
  <2>2. chunk = << >>
    BY <2>1 DEF Phases, InBlock
  <2> QED BY <2>1, <2>2, OuterSame DEF NothingLost
<1>8. CASE EmitStored
  BY <1>8, OuterSame DEF EmitStored, block, history, NothingLost
<1>9. CASE StoredHeader
  BY <1>9, OuterSame DEF StoredHeader, block, NothingLost
<1>10. CASE StoredAlign
  BY <1>10, OuterSame DEF StoredAlign, block, NothingLost
<1>11. CASE StoredBytes
  <2>1. /\ outer' = outer /\ input' = input
        /\ meaning' = meaning \o NextPart(sub_len)
        /\ IF is_last THEN cursor' = 0 /\ chunk' = << >>
                      ELSE cursor' = cursor + sub_len /\ chunk' = chunk
    BY <1>11 DEF StoredBytes, NextPart
  <2>2. sub_len \in Nat /\ cursor + sub_len \in 0 .. Len(chunk)
    BY Piece
  <2>3. Rest' = SubSeq(chunk, cursor + sub_len + 1, Len(chunk))
    <3>1. CASE is_last
      <4>1. cursor' = 0 /\ Len(chunk') = 0
        BY <2>1, <3>1, EmptySeq
      <4>2. Rest' = << >>
        BY <4>1, SubSeqEmpty DEF Rest
      <4>3. SubSeq(chunk, cursor + sub_len + 1, Len(chunk)) = << >>
        <5>1. Len(chunk) < cursor + sub_len + 1
          BY <1>0, <2>2, <3>1 DEF is_last
        <5> QED BY <1>0, <2>2, <5>1, SubSeqEmpty
      <4> QED BY <4>2, <4>3
    <3>2. CASE ~ is_last
      BY <2>1, <3>2 DEF Rest
    <3> QED BY <3>1, <3>2
  <2>4. cursor + sub_len <= Len(chunk) /\ fed' = fed
    BY <1>0, <2>1, <2>2, OuterSame
  <2> QED BY <2>1, <2>2, <2>3, <2>4, BytesMove
<1>12. CASE EmitHuffman
  BY <1>12, OuterSame DEF EmitHuffman, block, NothingLost
<1>13. CASE WriteLiteral
  <2>1. outer' = outer /\ input' = input /\ chunk' = chunk
    BY <1>13 DEF WriteLiteral, block
  <2>2. /\ cursor + 1 <= Len(chunk) /\ cursor' = cursor + 1
        /\ meaning' = meaning \o NextPart(1)
    BY <1>13, WriteLiteralTypes
  <2> QED BY <2>1, <2>2, OuterSame, BytesMove DEF Rest
<1>14. CASE WriteMatch
  <2>1. outer' = outer /\ input' = input /\ chunk' = chunk
    BY <1>14 DEF WriteMatch, block
  <2>2. PICK n \in Nat : /\ cursor + n <= Len(chunk) /\ cursor' = cursor + n
                         /\ meaning' = meaning \o NextPart(n)
    BY <1>14, WriteMatchTypes
  <2> QED BY <2>1, <2>2, OuterSame, BytesMove DEF Rest
<1>15. CASE WriteEnd
  BY <1>15, OuterSame DEF WriteEnd, block, NothingLost
<1>16. CASE CloseBlock
  <2>1. /\ pc = "close" /\ outer' = outer /\ input' = input
        /\ meaning' = meaning /\ cursor' = 0 /\ chunk' = << >>
    BY <1>16 DEF CloseBlock
  <2>2. cursor = Len(chunk) /\ Len(chunk') = 0
    BY <2>1, EmptySeq DEF Phases
  <2>3. Rest = << >> /\ Rest' = << >>
    BY <2>1, <2>2, RestType, SubSeqEmpty DEF Rest
  <2> QED BY <2>1, <2>3, OuterSame DEF NothingLost, Rest
<1>17. CASE UNCHANGED evars
  BY <1>17, Stutter, OuterSame DEF NothingLost
<1> QED
  BY <1>1, <1>2, <1>3, <1>4, <1>5, <1>6, <1>7, <1>8, <1>9, <1>10, <1>11,
     <1>12, <1>13, <1>14, <1>15, <1>16, <1>17 DEF ENext, EStep, Aside

LEMMA InitLost == EInit => NothingLost
<1> SUFFICES ASSUME EInit PROVE NothingLost
  OBVIOUS
<1>1. EncTypeOK
  BY InitIInv DEF IInv
<1>2. cursor = Len(chunk) /\ fed = << >> /\ input = << >> /\ meaning = << >>
  BY EmptySeq DEF EInit
<1>3. Rest = << >>
  BY <1>1, <1>2, RestType
<1>4. << >> \in Seq(Byte)
  BY EmptySeq
<1> QED BY <1>2, <1>3, <1>4, ConcatEmptySeq DEF NothingLost, Rest

(* Every byte fed is encoded once and in order.                            *)
THEOREM EveryByteOnce == ESpec => []NothingLost
<1>1. IInv /\ IInv' /\ NothingLost /\ [ENext]_evars => NothingLost'
  BY LostNext
<1> QED BY <1>1, InitLost, Invariance, PTL DEF ESpec
-----------------------------------------------------------------------------
(* A full buffer is only met in feed, or in a block that feed emits.       *)
InputInv == limit > 0 => \/ pc = "feed"
                         \/ pc \in InBlock /\ after = "feed"
                         \/ Len(input) < limit

LEMMA InputNext ==
  ASSUME IInv, InputInv, [ENext]_evars
  PROVE  InputInv'
<1> USE DEF IInv
<1>1. ASSUME NEW data \in Pieces, Feed(data) PROVE InputInv'
  BY <1>1 DEF Feed, Call, InputInv
<1>2. CASE Finish
  BY <1>2, EmptySeq, EncoderAssumption
     DEF Finish, Call, emit_block_chunk, options, EncTypeOK, InputInv
<1>3. CASE SyncFlush
  BY <1>3, EmptySeq, EncoderAssumption DEF SyncFlush, options, EncTypeOK, InputInv
<1>4. CASE Aside
  BY <1>4, AsideSame DEF InputInv
<1>5. ASSUME NEW n \in Advances \cup {output - drained}, Advance(n)
      PROVE  InputInv'
  BY <1>5 DEF Advance, options, block, InputInv
<1>6. CASE FeedLoop
  <2>1. CASE Full
    BY <1>6, <2>1 DEF FeedLoop, emit_block_chunk, InputInv, InBlock
  <2>2. CASE ~ Full
    <3>1. pc' = "idle" /\ input' = input /\ limit' = limit
      BY <1>6, <2>2, OuterSame DEF FeedLoop
    <3>2. limit > 0 => Len(input) < limit
      <4>1. limit \in Nat /\ Len(input) \in Nat
        BY EncoderAssumption, LenProperties DEF EncTypeOK
      <4> QED BY <2>2, <4>1 DEF Full
    <3> QED BY <3>1, <3>2 DEF InputInv
  <2> QED BY <2>1, <2>2
<1>7. CASE Marker
  BY <1>7, OuterSame DEF Marker, InputInv, InBlock
<1>8. CASE EmitStored
  BY <1>8, OuterSame DEF EmitStored, block, InputInv, InBlock
<1>9. CASE StoredHeader
  BY <1>9, OuterSame DEF StoredHeader, block, InputInv, InBlock
<1>10. CASE StoredAlign
  BY <1>10, OuterSame DEF StoredAlign, block, InputInv, InBlock
<1>11. CASE StoredBytes
  BY <1>11, OuterSame DEF StoredBytes, InputInv, InBlock
<1>12. CASE EmitHuffman
  BY <1>12, OuterSame DEF EmitHuffman, block, InputInv, InBlock
<1>13. CASE WriteLiteral
  BY <1>13, OuterSame DEF WriteLiteral, block, InputInv, InBlock
<1>14. CASE WriteMatch
  BY <1>14, OuterSame DEF WriteMatch, block, InputInv, InBlock
<1>15. CASE WriteEnd
  BY <1>15, OuterSame DEF WriteEnd, block, InputInv, InBlock
<1>16. CASE CloseBlock
  BY <1>16, OuterSame DEF CloseBlock, InputInv, InBlock
<1>17. CASE UNCHANGED evars
  BY <1>17, Stutter, OuterSame DEF InputInv
<1> QED
  BY <1>1, <1>2, <1>3, <1>4, <1>5, <1>6, <1>7, <1>8, <1>9, <1>10, <1>11,
     <1>12, <1>13, <1>14, <1>15, <1>16, <1>17 DEF ENext, EStep, Aside

(* Between two calls less than a block is buffered.                        *)
THEOREM EncoderBufferBounded == ESpec => []InputBounded
<1>1. EInit => InputInv
  BY EmptySeq, EncoderAssumption DEF EInit, InputInv
<1>2. IInv /\ InputInv /\ [ENext]_evars => InputInv'
  BY InputNext
<1>3. InputInv => InputBounded
  BY DEF InputInv, InputBounded, InBlock
<1> QED BY <1>1, <1>2, <1>3, Invariance, PTL DEF ESpec
-----------------------------------------------------------------------------
(* The stream is final once the header of its last block is written.       *)
HasFinal == \E i \in DOMAIN written : IsFinalHeader(written[i])

NoneBehind ==
  \A i \in DOMAIN written : IsFinalHeader(written[i]) =>
    finishing /\ \A j \in i + 1 .. Len(written) : ~ IsHeader(written[j])

FinalInv ==
  /\ NoneBehind
  /\ HasFinal <=> /\ finishing
                  /\ \/ pc \in {"idle", "symbols", "close"}
                     \/ pc \in {"align", "bytes"} /\ is_last

(* An element behind those there are: a header only while none is final.   *)
LEMMA ElementBehind ==
  ASSUME EncTypeOK, NoneBehind, NEW e, Extends(e), finishing' = finishing,
         IsHeader(e) => ~ HasFinal,
         IsFinalHeader(e) => finishing
  PROVE  NoneBehind' /\ (HasFinal' <=> HasFinal \/ IsFinalHeader(e))
<1>1. written \in Seq(Element) /\ e \in Element /\ written' = Append(written, e)
  BY DEF EncTypeOK, Extends
<1>2. /\ Len(written') = Len(written) + 1 /\ Len(written) \in Nat
      /\ \A i \in 1 .. Len(written) : written'[i] = written[i]
      /\ written'[Len(written) + 1] = e
  BY <1>1, ElementsAppended
<1>3. /\ DOMAIN written = 1 .. Len(written)
      /\ DOMAIN written' = 1 .. Len(written) + 1
  <2>1. written' \in Seq(Element)
    BY <1>1, ElementsAppended
  <2> QED BY <1>1, <1>2, <2>1
<1>4. ASSUME NEW i \in DOMAIN written', IsFinalHeader(written'[i])
      PROVE  /\ finishing'
             /\ \A j \in i + 1 .. Len(written') : ~ IsHeader(written'[j])
  <2>1. CASE i = Len(written) + 1
    <3>1. i + 1 .. Len(written') = {}
      BY <1>2, <2>1
    <3>2. IsFinalHeader(e)
      BY <1>2, <1>4, <2>1
    <3> QED BY <3>1, <3>2
  <2>2. CASE i \in 1 .. Len(written)
    <3>1. IsFinalHeader(written[i])
      BY <1>2, <1>4, <2>2
    <3>2. /\ finishing
          /\ \A j \in i + 1 .. Len(written) : ~ IsHeader(written[j])
      BY <1>3, <2>2, <3>1 DEF NoneBehind
    <3>3. ~ IsHeader(e)
      BY <1>3, <2>2, <3>1 DEF HasFinal
    <3>4. ASSUME NEW j \in i + 1 .. Len(written') PROVE ~ IsHeader(written'[j])
      <4>1. j \in i + 1 .. Len(written) \/ j = Len(written) + 1
        BY <1>2, <2>2
      <4>2. CASE j = Len(written) + 1
        BY <1>2, <3>3, <4>2
      <4>3. CASE j \in i + 1 .. Len(written)
        <5>1. j \in 1 .. Len(written)
          BY <1>2, <2>2, <4>3
        <5> QED BY <1>2, <3>2, <4>3, <5>1
      <4> QED BY <4>1, <4>2, <4>3
    <3> QED BY <3>2, <3>4
  <2> QED BY <1>2, <1>3, <2>1, <2>2
<1>5. NoneBehind'
  BY <1>4 DEF NoneBehind
<1>6. HasFinal' <=> HasFinal \/ IsFinalHeader(e)
  <2>1. ASSUME HasFinal PROVE HasFinal'
    <3>1. PICK i \in DOMAIN written : IsFinalHeader(written[i])
      BY <2>1 DEF HasFinal
    <3>2. i \in DOMAIN written' /\ IsFinalHeader(written'[i])
      BY <1>2, <1>3, <3>1
    <3> QED BY <3>2 DEF HasFinal
  <2>2. ASSUME IsFinalHeader(e) PROVE HasFinal'
    <3>1. Len(written) + 1 \in DOMAIN written'
      BY <1>2, <1>3
    <3> QED BY <1>2, <2>2, <3>1 DEF HasFinal
  <2>3. ASSUME HasFinal' PROVE HasFinal \/ IsFinalHeader(e)
    <3>1. PICK i \in DOMAIN written' : IsFinalHeader(written'[i])
      BY <2>3 DEF HasFinal
    <3>2. i \in 1 .. Len(written) \/ i = Len(written) + 1
      BY <1>2, <1>3
    <3> QED BY <1>2, <1>3, <3>1, <3>2 DEF HasFinal
  <2> QED BY <2>1, <2>2, <2>3
<1> QED BY <1>5, <1>6

(* Nothing is written and the caller's side of the stream stays.           *)
LEMMA NoneMore ==
  ASSUME written' = written, NoneBehind, finishing => finishing'
  PROVE  NoneBehind' /\ (HasFinal' <=> HasFinal)
  BY DEF NoneBehind, HasFinal

(* The first value of an element tells what it is.                         *)
LEMMA NoHeader ==
  ASSUME NEW e, e.what[1] # "header"
  PROVE  ~ IsHeader(e) /\ ~ IsFinalHeader(e)
  BY DEF IsHeader, IsFinalHeader

LEMMA FinalNext ==
  ASSUME IInv, IInv', FinalInv, [ENext]_evars
  PROVE  FinalInv'
<1> USE DEF IInv
<1>0. finishing \in BOOLEAN /\ is_final = finishing
  BY DEF EncTypeOK, Phases
<1>1. ASSUME NEW data \in Pieces, Feed(data) PROVE FinalInv'
  <2>1. /\ ~ finishing /\ finishing' = finishing /\ written' = written
    BY <1>1 DEF Feed, history
  <2> QED BY <2>1, NoneMore DEF FinalInv
<1>2. CASE Finish
  <2>1. /\ ~ finishing /\ finishing' /\ written' = written /\ pc' = "emit"
    BY <1>2 DEF Finish, Call, history
  <2> QED BY <2>1, NoneMore DEF FinalInv
<1>3. CASE SyncFlush
  <2>1. /\ ~ finishing /\ finishing' = finishing /\ written' = written
    BY <1>3 DEF SyncFlush, history
  <2> QED BY <2>1, NoneMore DEF FinalInv
<1>4. CASE Aside
  <2>1. /\ finishing' = finishing /\ written' = written
        /\ pc' = pc /\ pc = "idle"
    BY <1>4, AsideSame
  <2> QED BY <2>1, NoneMore DEF FinalInv
<1>5. ASSUME NEW n \in Advances \cup {output - drained}, Advance(n)
      PROVE  FinalInv'
  <2>1. /\ finishing' = finishing /\ written' = written
        /\ pc' = pc /\ pc = "idle"
    BY <1>5 DEF Advance, history
  <2> QED BY <2>1, NoneMore DEF FinalInv
<1>6. CASE FeedLoop
  <2>1. /\ outer' = outer /\ written' = written /\ ~ finishing
    BY <1>6 DEF FeedLoop, history, Phases
  <2> QED BY <2>1, OuterSame, NoneMore DEF FinalInv
<1>7. CASE Marker
  <2>1. /\ outer' = outer /\ written' = written /\ ~ finishing
    BY <1>7 DEF Marker, history, Phases
  <2> QED BY <2>1, OuterSame, NoneMore DEF FinalInv
<1>8. CASE EmitStored
  <2>1. /\ outer' = outer /\ written' = written /\ pc = "emit" /\ pc' = "stored"
    BY <1>8 DEF EmitStored, history
  <2> QED BY <2>1, OuterSame, NoneMore DEF FinalInv
<1>9. CASE StoredHeader
  <2> DEFINE e == [at |-> Position(bit_count), width |-> 3,
                   what |-> <<"header", FinalFlag, "stored">>]
  <2>1. /\ outer' = outer /\ pc = "stored" /\ pc' = "align"
        /\ chunk' = chunk /\ cursor' = cursor
    BY <1>9 DEF StoredHeader, block
  <2>2. Extends(e) /\ e.what = <<"header", FinalFlag, "stored">>
    BY <1>9, StoredHeaderTypes
  <2> HIDE DEF e
  <2>3. ~ HasFinal
    BY <2>1 DEF FinalInv
  <2>4. IsFinalHeader(e) <=> finishing /\ is_last
    <3>1. e.what[1] = "header" /\ e.what[2] = FinalFlag
      BY <2>2
    <3>2. IsFinalHeader(e) <=> FinalFlag
      BY <3>1, Zenon DEF IsFinalHeader, IsHeader
    <3>3. FinalFlag <=> finishing /\ is_last
      BY <1>0, Zenon DEF FinalFlag
    <3> QED BY <3>2, <3>3
  <2>5. NoneBehind' /\ (HasFinal' <=> HasFinal \/ IsFinalHeader(e))
    BY <2>1, <2>2, <2>3, <2>4, OuterSame, ElementBehind DEF FinalInv
  <2>6. is_last' = is_last /\ finishing' = finishing
    BY <2>1, OuterSame DEF is_last, sub_len
  <2> QED BY <2>1, <2>3, <2>4, <2>5, <2>6 DEF FinalInv
<1>10. CASE StoredAlign
  <2> DEFINE e == [at |-> Position(writer), width |-> (8 - writer) % 8,
                   what |-> <<"pad">>]
  <2>1. /\ outer' = outer /\ pc = "align" /\ pc' = "bytes"
        /\ chunk' = chunk /\ cursor' = cursor
    BY <1>10 DEF StoredAlign, block
  <2>2. Extends(e) /\ e.what[1] = "pad"
    BY <1>10, StoredAlignTypes
  <2> HIDE DEF e
  <2>3. ~ IsHeader(e) /\ ~ IsFinalHeader(e)
    BY <2>2, NoHeader
  <2>4. NoneBehind' /\ (HasFinal' <=> HasFinal)
    BY <2>1, <2>2, <2>3, OuterSame, ElementBehind DEF FinalInv
  <2>5. is_last' = is_last /\ finishing' = finishing
    BY <2>1, OuterSame DEF is_last, sub_len
  <2> QED BY <2>1, <2>4, <2>5 DEF FinalInv
<1>11. CASE StoredBytes
  <2> DEFINE e == [at |-> Position(0), width |-> 32 + 8 * sub_len,
                   what |-> <<"bytes", NextPart(sub_len)>>]
  <2>1. /\ outer' = outer /\ pc = "bytes"
        /\ IF is_last THEN pc' = after ELSE pc' = "stored"
    BY <1>11 DEF StoredBytes
  <2>2. Extends(e) /\ e.what[1] = "bytes"
    BY <1>11, StoredBytesTypes DEF NextPart
  <2> HIDE DEF e
  <2>3. ~ IsHeader(e) /\ ~ IsFinalHeader(e)
    BY <2>2, NoHeader
  <2>4. finishing' = finishing
    BY <2>1, OuterSame
  <2>5. NoneBehind' /\ (HasFinal' <=> HasFinal)
    BY <2>2, <2>3, <2>4, ElementBehind DEF FinalInv
  <2>6. finishing => after = "idle"
    BY DEF Phases
  <2> QED BY <2>1, <2>4, <2>5, <2>6 DEF FinalInv
<1>12. CASE EmitHuffman
  <2>1. /\ outer' = outer /\ pc = "emit" /\ pc' = "symbols"
    BY <1>12 DEF EmitHuffman
  <2>2. PICK e : Extends(e) /\ e.what = <<"header", is_final, kind>>
    BY <1>12, EmitHuffmanTypes
  <2>3. ~ HasFinal
    BY <2>1 DEF FinalInv
  <2>4. IsFinalHeader(e) <=> finishing
    BY <1>0, <2>2 DEF IsFinalHeader, IsHeader
  <2>5. NoneBehind' /\ (HasFinal' <=> HasFinal \/ IsFinalHeader(e))
    BY <2>1, <2>2, <2>3, <2>4, OuterSame, ElementBehind DEF FinalInv
  <2> QED BY <2>1, <2>3, <2>4, <2>5, OuterSame DEF FinalInv
<1>13. CASE WriteLiteral
  <2>1. /\ outer' = outer /\ pc' = pc /\ pc = "symbols"
    BY <1>13 DEF WriteLiteral
  <2>2. PICK e : Extends(e) /\ e.what[1] = "literal"
    BY <1>13, WriteLiteralTypes
  <2>3. NoneBehind' /\ (HasFinal' <=> HasFinal)
    BY <2>1, <2>2, NoHeader, OuterSame, ElementBehind DEF FinalInv
  <2> QED BY <2>1, <2>3, OuterSame DEF FinalInv
<1>14. CASE WriteMatch
  <2>1. /\ outer' = outer /\ pc' = pc /\ pc = "symbols"
    BY <1>14 DEF WriteMatch
  <2>2. PICK e : Extends(e) /\ e.what[1] = "match"
    BY <1>14, WriteMatchTypes
  <2>3. NoneBehind' /\ (HasFinal' <=> HasFinal)
    BY <2>1, <2>2, NoHeader, OuterSame, ElementBehind DEF FinalInv
  <2> QED BY <2>1, <2>3, OuterSame DEF FinalInv
<1>15. CASE WriteEnd
  <2>1. /\ outer' = outer /\ pc' = "close" /\ pc = "symbols"
    BY <1>15 DEF WriteEnd
  <2>2. PICK e : Extends(e) /\ e.what[1] = "end"
    BY <1>15, WriteEndTypes
  <2>3. NoneBehind' /\ (HasFinal' <=> HasFinal)
    BY <2>1, <2>2, NoHeader, OuterSame, ElementBehind DEF FinalInv
  <2> QED BY <2>1, <2>3, OuterSame DEF FinalInv
<1>16. CASE CloseBlock
  <2>1. /\ outer' = outer /\ pc' = after /\ pc = "close"
    BY <1>16 DEF CloseBlock
  <2>2. finishing => after = "idle"
    BY DEF Phases
  <2>3. finishing' = finishing
    BY <2>1, OuterSame
  <2>4. NoneBehind' /\ (HasFinal' <=> HasFinal)
    <3>1. CASE is_final
      <4>1. PICK e : Extends(e) /\ e.what[1] = "pad"
        BY <1>16, <3>1, CloseBlockTypes
      <4> QED BY <2>3, <4>1, NoHeader, ElementBehind DEF FinalInv
    <3>2. CASE ~ is_final
      <4>1. written' = written
        BY <1>16, <3>2, CloseBlockTypes DEF NothingWritten
      <4> QED BY <2>3, <4>1, NoneMore DEF FinalInv
    <3> QED BY <3>1, <3>2
  <2> QED BY <2>1, <2>2, <2>3, <2>4 DEF FinalInv
<1>17. CASE UNCHANGED evars
  BY <1>17, Stutter, OuterSame DEF FinalInv, NoneBehind, HasFinal, is_last,
     sub_len
<1> QED
  BY <1>1, <1>2, <1>3, <1>4, <1>5, <1>6, <1>7, <1>8, <1>9, <1>10, <1>11,
     <1>12, <1>13, <1>14, <1>15, <1>16, <1>17 DEF ENext, EStep, Aside

(* The invariants of this module that say how the stream ends and what it  *)
(* means, together.                                                        *)
StreamInv == IInv /\ BitsTile /\ NothingLost /\ FinalInv

LEMMA InitStream == EInit => StreamInv
<1>1. EInit => FinalInv
  BY DEF EInit, FinalInv, NoneBehind, HasFinal
<1> QED BY <1>1, InitIInv, InitTile, InitLost DEF StreamInv

LEMMA NextStream == StreamInv /\ [ENext]_evars => StreamInv'
<1> SUFFICES ASSUME StreamInv, [ENext]_evars PROVE StreamInv'
  OBVIOUS
<1>1. IInv /\ IInv'
  BY NextIInv DEF StreamInv
<1>2. BitsTile'
  BY <1>1, TypesNext, TileNext DEF StreamInv, IInv
<1>3. NothingLost'
  BY <1>1, LostNext DEF StreamInv
<1>4. FinalInv'
  BY <1>1, FinalNext DEF StreamInv
<1> QED BY <1>1, <1>2, <1>3, <1>4 DEF StreamInv

LEMMA StreamEnds ==
  ASSUME StreamInv
  PROVE  OneFinalBlock /\ ((finishing /\ pc = "idle") => HasFinal)
<1>1. IInv /\ FinalInv /\ NothingLost
  BY DEF StreamInv
<1>2. ASSUME finishing, pc = "idle"
      PROVE  HasFinal /\ bit_count = 0 /\ meaning = fed
  <2>1. /\ HasFinal /\ bit_count = 0 /\ chunk = << >> /\ cursor = 0
        /\ input = << >>
    BY <1>1, <1>2 DEF FinalInv, IInv, Phases, InBlock
  <2>2. Rest = << >>
    BY <1>1, <2>1, EmptySeq, RestType DEF IInv
  <2>3. meaning \in Seq(Byte)
    BY <1>1, RestType DEF IInv
  <2>4. fed = meaning \o << >> \o << >>
    BY <1>1, <2>1, <2>2 DEF NothingLost, Rest
  <2>5. meaning \o << >> = meaning
    BY <2>3, ConcatEmptySeq
  <2> QED BY <2>1, <2>4, <2>5
<1> QED BY <1>1, <1>2 DEF FinalInv, NoneBehind, HasFinal, OneFinalBlock

(* Only finish writes the block that says it is the last, no block follows *)
(* it, and once finish has returned it is there and nothing is left over.  *)
THEOREM EncoderEndsTheStream == ESpec => []OneFinalBlock
  BY InitStream, NextStream, StreamEnds, PTL DEF ESpec
-----------------------------------------------------------------------------
(* A caller that resets the history only with nothing buffered: all that   *)
(* was fed before is in the meaning, before the chunk under way.           *)
HistoryInv == ~ ResetsMidway => reset_at + cursor <= Len(meaning)

LEMMA Lengths ==
  ASSUME EncTypeOK
  PROVE  /\ Len(meaning) \in Nat /\ cursor \in Nat /\ reset_at \in Nat
         /\ Len(chunk) \in Nat
  BY LenProperties DEF EncTypeOK

(* Written bytes count in the chunk and in the meaning alike.              *)
LEMMA BytesCount ==
  ASSUME EncTypeOK, HistoryInv, NEW n \in Nat, cursor + n <= Len(chunk),
         meaning' = meaning \o NextPart(n), reset_at' = reset_at,
         cursor' = cursor + n \/ cursor' = 0
  PROVE  HistoryInv'
<1>1. NextPart(n) \in Seq(Byte) /\ Len(NextPart(n)) = n
  BY NextBytes
<1>2. Len(meaning') = Len(meaning) + n
  <2>1. meaning \in Seq(Byte)
    BY RestType
  <2>2. Len(meaning \o NextPart(n)) = Len(meaning) + Len(NextPart(n))
    BY <1>1, <2>1, ConcatProperties
  <2> QED BY <1>1, <2>2
<1>3. ASSUME ~ ResetsMidway PROVE reset_at' + cursor' <= Len(meaning')
  <2>1. reset_at + cursor <= Len(meaning)
    BY <1>3 DEF HistoryInv
  <2> QED BY <1>2, <2>1, Lengths
<1> QED BY <1>3 DEF HistoryInv

(* The chunk under way begins, or ends, or stays as it is.                 *)
LEMMA CountSame ==
  ASSUME EncTypeOK, HistoryInv, meaning' = meaning, reset_at' = reset_at,
         cursor' = cursor \/ cursor' = 0
  PROVE  HistoryInv'
  BY Lengths DEF HistoryInv

LEMMA HistoryNext ==
  ASSUME IInv, HistoryInv, NothingLost, [ENext]_evars
  PROVE  HistoryInv'
<1> USE DEF IInv
<1>1. ASSUME NEW data \in Pieces, Feed(data) PROVE HistoryInv'
  BY <1>1, CountSame DEF Feed, history
<1>2. CASE Finish
  BY <1>2, CountSame DEF Finish, history
<1>3. CASE SyncFlush
  BY <1>3, CountSame DEF SyncFlush, history
<1>4. CASE Refused
  BY <1>4, CountSame DEF Refused, AfterFinish, history
<1>5. CASE ResetHistory
  <2>1. /\ pc = "idle"
        /\ ResetsMidway \/ input = << >>
        /\ reset_at' = Len(fed) /\ cursor' = cursor /\ meaning' = meaning
    BY <1>5 DEF ResetHistory, history
  <2>2. cursor = 0 /\ chunk = << >>
    BY <2>1 DEF Phases, InBlock
  <2>3. Rest = << >> /\ meaning \in Seq(Byte)
    BY <2>2, EmptySeq, RestType
  <2>4. ASSUME input = << >> PROVE fed = meaning
    <3>1. fed = meaning \o << >> \o << >>
      BY <2>3, <2>4 DEF NothingLost, Rest
    <3>2. meaning \o << >> = meaning
      BY <2>3, ConcatEmptySeq
    <3> QED BY <3>1, <3>2
  <2> QED BY <2>1, <2>2, <2>4, Lengths DEF HistoryInv
<1>6. ASSUME NEW n \in Advances \cup {output - drained}, Advance(n)
      PROVE  HistoryInv'
  BY <1>6, CountSame DEF Advance, history
<1>7. CASE FeedLoop
  BY <1>7, OuterSame, CountSame DEF FeedLoop, history
<1>8. CASE Marker
  BY <1>8, OuterSame, CountSame DEF Marker, history
<1>9. CASE EmitStored
  BY <1>9, OuterSame, CountSame DEF EmitStored, history
<1>10. CASE StoredHeader
  BY <1>10, OuterSame, CountSame DEF StoredHeader
<1>11. CASE StoredAlign
  BY <1>11, OuterSame, CountSame DEF StoredAlign
<1>12. CASE StoredBytes
  <2>1. /\ outer' = outer /\ meaning' = meaning \o NextPart(sub_len)
        /\ cursor' = cursor + sub_len \/ cursor' = 0
    BY <1>12 DEF StoredBytes, NextPart
  <2>2. sub_len \in Nat /\ cursor + sub_len <= Len(chunk)
    BY Piece, Lengths
  <2> QED BY <2>1, <2>2, OuterSame, BytesCount
<1>13. CASE EmitHuffman
  BY <1>13, OuterSame, CountSame DEF EmitHuffman
<1>14. CASE WriteLiteral
  <2>1. outer' = outer
    BY <1>14 DEF WriteLiteral
  <2>2. /\ cursor + 1 <= Len(chunk) /\ cursor' = cursor + 1
        /\ meaning' = meaning \o NextPart(1)
    BY <1>14, WriteLiteralTypes
  <2> QED BY <2>1, <2>2, OuterSame, BytesCount
<1>15. CASE WriteMatch
  <2>1. outer' = outer
    BY <1>15 DEF WriteMatch
  <2>2. PICK n \in Nat : /\ cursor + n <= Len(chunk) /\ cursor' = cursor + n
                         /\ meaning' = meaning \o NextPart(n)
    BY <1>15, WriteMatchTypes
  <2> QED BY <2>1, <2>2, OuterSame, BytesCount
<1>16. CASE WriteEnd
  BY <1>16, OuterSame, CountSame DEF WriteEnd
<1>17. CASE CloseBlock
  BY <1>17, OuterSame, CountSame DEF CloseBlock
<1>18. CASE UNCHANGED evars
  BY <1>18, Stutter, OuterSame, CountSame
<1> QED
  BY <1>1, <1>2, <1>3, <1>4, <1>5, <1>6, <1>7, <1>8, <1>9, <1>10, <1>11,
     <1>12, <1>13, <1>14, <1>15, <1>16, <1>17, <1>18 DEF ENext, EStep

(* Only WriteMatch writes a match, and none reaches before its chunk.      *)
MatchesInChunk ==
  \A i \in Len(written) + 1 .. Len(written') :
    written'[i].what[1] = "match" =>
      written'[i].what[3] \in Nat /\ written'[i].what[3] <= cursor

LEMMA OneElement ==
  ASSUME EncTypeOK, NEW e, Extends(e),
         e.what[1] = "match" => e.what[3] \in Nat /\ e.what[3] <= cursor
  PROVE  MatchesInChunk
<1>1. written \in Seq(Element) /\ e \in Element /\ written' = Append(written, e)
  BY DEF EncTypeOK, Extends
<1>2. /\ Len(written') = Len(written) + 1 /\ Len(written) \in Nat
      /\ written'[Len(written) + 1] = e
  BY <1>1, ElementsAppended
<1>3. ASSUME NEW i \in Len(written) + 1 .. Len(written') PROVE written'[i] = e
  <2>1. i = Len(written) + 1
    BY <1>2
  <2> QED BY <1>2, <2>1
<1> QED BY <1>3 DEF MatchesInChunk

LEMMA NoElement ==
  ASSUME EncTypeOK, written' = written
  PROVE  MatchesInChunk
<1>1. Len(written) \in Nat
  BY LenProperties DEF EncTypeOK
<1>2. Len(written) + 1 .. Len(written') = {}
  BY <1>1
<1> QED BY <1>2 DEF MatchesInChunk

LEMMA MatchesNext ==
  ASSUME IInv, [ENext]_evars
  PROVE  MatchesInChunk
<1> USE DEF IInv
<1>1. ASSUME NEW data \in Pieces, Feed(data) PROVE MatchesInChunk
  BY <1>1, NoElement DEF Feed, history
<1>2. CASE Finish \/ SyncFlush \/ FeedLoop \/ Marker \/ EmitStored
  BY <1>2, NoElement DEF Finish, SyncFlush, FeedLoop, Marker, EmitStored, history
<1>3. CASE Aside
  BY <1>3, AsideSame, NoElement
<1>4. ASSUME NEW n \in Advances \cup {output - drained}, Advance(n)
      PROVE  MatchesInChunk
  BY <1>4, NoElement DEF Advance, history
<1>5. CASE StoredHeader
  <2> DEFINE e == [at |-> Position(bit_count), width |-> 3,
                   what |-> <<"header", FinalFlag, "stored">>]
  <2>1. Extends(e) /\ e.what[1] # "match"
    BY <1>5, StoredHeaderTypes
  <2> QED BY <2>1, OneElement
<1>6. CASE StoredAlign
  <2> DEFINE e == [at |-> Position(writer), width |-> (8 - writer) % 8,
                   what |-> <<"pad">>]
  <2>1. Extends(e) /\ e.what[1] # "match"
    BY <1>6, StoredAlignTypes
  <2> QED BY <2>1, OneElement
<1>7. CASE StoredBytes
  <2> DEFINE e == [at |-> Position(0), width |-> 32 + 8 * sub_len,
                   what |-> <<"bytes", NextPart(sub_len)>>]
  <2>1. Extends(e) /\ e.what[1] # "match"
    BY <1>7, StoredBytesTypes DEF NextPart
  <2> QED BY <2>1, OneElement
<1>8. CASE EmitHuffman
  <2>1. PICK e : Extends(e) /\ e.what = <<"header", is_final, kind>>
    BY <1>8, EmitHuffmanTypes
  <2>2. e.what[1] # "match"
    BY <2>1
  <2> QED BY <2>1, <2>2, OneElement
<1>9. CASE WriteLiteral
  BY <1>9, WriteLiteralTypes, OneElement
<1>10. CASE WriteMatch
  BY <1>10, WriteMatchTypes, OneElement
<1>11. CASE WriteEnd
  BY <1>11, WriteEndTypes, OneElement
<1>12. CASE CloseBlock
  <2>1. CASE is_final
    BY <1>12, <2>1, CloseBlockTypes, OneElement
  <2>2. CASE ~ is_final
    BY <1>12, <2>2, CloseBlockTypes, NoElement DEF NothingWritten
  <2> QED BY <2>1, <2>2
<1>13. CASE UNCHANGED evars
  BY <1>13, Stutter, NoElement
<1> QED
  BY <1>1, <1>2, <1>3, <1>4, <1>5, <1>6, <1>7, <1>8, <1>9, <1>10, <1>11,
     <1>12, <1>13 DEF ENext, EStep, Aside

(* No match refers to what was fed before the last reset_history, if the   *)
(* caller resets the history with nothing buffered.                        *)
THEOREM HistoryStaysDropped ==
  ASSUME ~ ResetsMidway
  PROVE  ESpec => HistoryIsDropped
<1>1. EInit => HistoryInv
  BY EmptySeq DEF EInit, HistoryInv
<1>2. IInv /\ HistoryInv /\ NothingLost /\ [ENext]_evars => HistoryInv'
  BY HistoryNext
<1>3. IInv /\ HistoryInv /\ [ENext]_evars =>
        [\A i \in Len(written) + 1 .. Len(written') :
           written'[i].what[1] = "match" =>
             Len(meaning) - written'[i].what[3] >= reset_at]_evars
  <2> SUFFICES ASSUME IInv, HistoryInv, [ENext]_evars,
                      NEW i \in Len(written) + 1 .. Len(written'),
                      written'[i].what[1] = "match"
               PROVE  Len(meaning) - written'[i].what[3] >= reset_at
    OBVIOUS
  <2> DEFINE d == written'[i].what[3]
  <2>1. d \in Nat /\ d <= cursor
    BY MatchesNext DEF MatchesInChunk
  <2>2. reset_at + cursor <= Len(meaning)
    BY DEF HistoryInv
  <2> HIDE DEF d
  <2>3. Len(meaning) - d >= reset_at
    BY <2>1, <2>2, Lengths DEF IInv
  <2> QED BY <2>3 DEF d
<1> QED BY <1>1, <1>2, <1>3, Invariance, EveryByteOnce, PTL
        DEF ESpec, HistoryIsDropped
-----------------------------------------------------------------------------
(* The n-th last element is the header of a stored block, not the final.   *)
MarkerHeader(n) ==
  /\ Len(written) >= n
  /\ written[Len(written) - n + 1].what = <<"header", FALSE, "stored">>

(* A flush under way emits what is buffered, then the marker, and is over. *)
FlushInv ==
  call = "sync_flush" /\ answer = "ok" =>
    /\ input = << >> /\ ~ finishing /\ pc # "feed"
    /\ pc \in InBlock => after \in {"marker", "idle"}
    /\ pc \in InBlock /\ after = "idle" =>
         /\ pc \in {"stored", "align", "bytes"} /\ chunk = << >>
         /\ pc = "align" => MarkerHeader(1)
         /\ pc = "bytes" => MarkerHeader(2)
    /\ pc = "idle" => /\ bit_count = 0 /\ MarkerHeader(3)
                      /\ written[Len(written)].what = <<"bytes", << >> >>

LEMMA MarkerAppended ==
  ASSUME EncTypeOK, NEW e, Extends(e)
  PROVE  /\ \A n \in Nat \ {0} : MarkerHeader(n) => MarkerHeader(n + 1)'
         /\ e.what = <<"header", FALSE, "stored">> => MarkerHeader(1)'
         /\ written'[Len(written')] = e
<1>1. written \in Seq(Element) /\ e \in Element /\ written' = Append(written, e)
  BY DEF EncTypeOK, Extends
<1>2. /\ Len(written') = Len(written) + 1 /\ Len(written) \in Nat
      /\ \A i \in 1 .. Len(written) : written'[i] = written[i]
      /\ written'[Len(written) + 1] = e
  BY <1>1, ElementsAppended
<1>3. ASSUME NEW n \in Nat \ {0}, MarkerHeader(n) PROVE MarkerHeader(n + 1)'
  <2>1. Len(written) >= n
        /\ written[Len(written) - n + 1].what = <<"header", FALSE, "stored">>
    BY <1>3 DEF MarkerHeader
  <2>2. /\ Len(written') >= n + 1
        /\ Len(written') - (n + 1) + 1 = Len(written) - n + 1
        /\ Len(written) - n + 1 \in 1 .. Len(written)
    BY <1>2, <2>1
  <2> QED BY <1>2, <2>1, <2>2 DEF MarkerHeader
<1>4. e.what = <<"header", FALSE, "stored">> => MarkerHeader(1)'
  <2>1. Len(written') >= 1 /\ Len(written') - 1 + 1 = Len(written) + 1
    BY <1>2
  <2> QED BY <1>2, <2>1 DEF MarkerHeader
<1> QED BY <1>2, <1>3, <1>4

(* No step leaves a flush half done.                                       *)
LEMMA FlushNext ==
  ASSUME IInv, FlushInv, [ENext]_evars
  PROVE  FlushInv'
<1> USE DEF IInv
<1>1. ASSUME NEW data \in Pieces, Feed(data) PROVE FlushInv'
  BY <1>1 DEF Feed, Call, FlushInv
<1>2. CASE Finish
  BY <1>2 DEF Finish, Call, FlushInv
<1>3. CASE SyncFlush
  <2>1. /\ ~ finishing /\ finishing' = finishing /\ input' = << >>
        /\ \/ pc' = "emit" /\ after' = "marker"
           \/ pc' = "marker"
    BY <1>3 DEF SyncFlush, Call, emit_block_chunk
  <2> QED BY <2>1 DEF FlushInv, InBlock
<1>4. CASE Refused
  <2>1. ASSUME NEW name, NEW a, AfterFinish(name, a),
               ~ (name = "sync_flush" /\ a = "ok")
        PROVE  FlushInv'
    BY <2>1 DEF AfterFinish, FlushInv
  <2> QED BY <1>4, <2>1 DEF Refused
<1>5. CASE ResetHistory
  BY <1>5 DEF ResetHistory, caller, block, history, FlushInv, MarkerHeader
<1>6. ASSUME NEW n \in Advances \cup {output - drained}, Advance(n)
      PROVE  FlushInv'
  BY <1>6 DEF Advance, caller, block, history, FlushInv, MarkerHeader
<1>7. CASE FeedLoop
  BY <1>7, OuterSame DEF FeedLoop, FlushInv
<1>8. CASE Marker
  BY <1>8, OuterSame DEF Marker, emit_block_chunk, FlushInv, InBlock
<1>9. CASE EmitStored
  BY <1>9, OuterSame DEF EmitStored, block, FlushInv, InBlock
<1>10. CASE StoredHeader
  <2> DEFINE e == [at |-> Position(bit_count), width |-> 3,
                   what |-> <<"header", FinalFlag, "stored">>]
  <2>1. /\ outer' = outer /\ input' = input /\ pc = "stored" /\ pc' = "align"
        /\ after' = after /\ chunk' = chunk
    BY <1>10 DEF StoredHeader, block
  <2>2. Extends(e) /\ e.what = <<"header", FinalFlag, "stored">>
    BY <1>10, StoredHeaderTypes
  <2> HIDE DEF e
  <2>3. ~ finishing => FinalFlag = FALSE
    BY DEF FinalFlag, EncTypeOK, Phases
  <2>4. ~ finishing => MarkerHeader(1)'
    BY <2>2, <2>3, MarkerAppended
  <2> QED BY <2>1, <2>4, OuterSame DEF FlushInv, InBlock
<1>11. CASE StoredAlign
  <2> DEFINE e == [at |-> Position(writer), width |-> (8 - writer) % 8,
                   what |-> <<"pad">>]
  <2>1. /\ outer' = outer /\ input' = input /\ pc = "align" /\ pc' = "bytes"
        /\ after' = after /\ chunk' = chunk
    BY <1>11 DEF StoredAlign, block
  <2>2. Extends(e)
    BY <1>11, StoredAlignTypes
  <2> HIDE DEF e
  <2>3. MarkerHeader(1) => MarkerHeader(2)'
    <3>1. 1 \in Nat \ {0} /\ 1 + 1 = 2
      OBVIOUS
    <3>2. MarkerHeader(1) => MarkerHeader(1 + 1)'
      BY <2>2, <3>1, MarkerAppended
    <3> QED BY <3>2
  <2> QED BY <2>1, <2>3, OuterSame DEF FlushInv, InBlock
<1>12. CASE StoredBytes
  <2> DEFINE e == [at |-> Position(0), width |-> 32 + 8 * sub_len,
                   what |-> <<"bytes", NextPart(sub_len)>>]
  <2>1. /\ outer' = outer /\ input' = input /\ pc = "bytes"
        /\ bit_count' = bit_count /\ after' = after
        /\ IF is_last THEN pc' = after ELSE pc' = "stored" /\ chunk' = chunk
    BY <1>12 DEF StoredBytes
  <2>2. Extends(e) /\ e.what = <<"bytes", NextPart(sub_len)>>
    BY <1>12, StoredBytesTypes DEF NextPart
  <2> HIDE DEF e
  <2>3. MarkerHeader(2) => MarkerHeader(3)'
    <3>1. 2 \in Nat \ {0} /\ 2 + 1 = 3
      OBVIOUS
    <3>2. MarkerHeader(2) => MarkerHeader(2 + 1)'
      BY <2>2, <3>1, MarkerAppended
    <3> QED BY <3>2
  <2>4. written'[Len(written')].what = <<"bytes", NextPart(sub_len)>>
    BY <2>2, MarkerAppended
  <2>5. chunk = << >> => is_last /\ NextPart(sub_len) = << >>
    <3>1. /\ sub_len \in Nat /\ cursor + sub_len \in 0 .. Len(chunk)
          /\ NextPart(sub_len) \in Seq(Byte)
          /\ Len(NextPart(sub_len)) = sub_len
      BY Piece DEF NextPart
    <3>2. chunk = << >> => Len(chunk) = 0
      BY EmptySeq
    <3>3. chunk = << >> => sub_len = 0 /\ is_last
      BY <3>1, <3>2, Lengths DEF is_last
    <3> QED BY <3>1, <3>3, EmptySeq
  <2>6. bit_count = 0 /\ after \in {"idle", "feed", "marker"}
    BY <2>1 DEF Phases, EncTypeOK
  <2> QED BY <2>1, <2>3, <2>4, <2>5, <2>6, OuterSame DEF FlushInv, InBlock
<1>13. CASE EmitHuffman
  BY <1>13, OuterSame DEF EmitHuffman, block, FlushInv, InBlock
<1>14. CASE WriteLiteral
  BY <1>14, OuterSame DEF WriteLiteral, block, FlushInv, InBlock
<1>15. CASE WriteMatch
  BY <1>15, OuterSame DEF WriteMatch, block, FlushInv, InBlock
<1>16. CASE WriteEnd
  BY <1>16, OuterSame DEF WriteEnd, block, FlushInv, InBlock
<1>17. CASE CloseBlock
  BY <1>17, OuterSame DEF CloseBlock, FlushInv, InBlock, EncTypeOK
<1>18. CASE UNCHANGED evars
  BY <1>18, Stutter, OuterSame DEF FlushInv, MarkerHeader
<1> QED
  BY <1>1, <1>2, <1>3, <1>4, <1>5, <1>6, <1>7, <1>8, <1>9, <1>10, <1>11,
     <1>12, <1>13, <1>14, <1>15, <1>16, <1>17, <1>18 DEF ENext, EStep

(* The bytes of a stored block begin at a byte, and LEN can say how many.  *)
IsStored(e) == e.at % 8 = 0 /\ Len(e.what[2]) <= MAX_STORED_BLOCK
BytesInv == \A i \in DOMAIN written :
              written[i].what[1] = "bytes" => IsStored(written[i])

LEMMA BytesAppended ==
  ASSUME EncTypeOK, BytesInv, NEW e, Extends(e),
         e.what[1] = "bytes" => IsStored(e)
  PROVE  BytesInv'
<1>1. written \in Seq(Element) /\ e \in Element /\ written' = Append(written, e)
  BY DEF EncTypeOK, Extends
<1>2. /\ Len(written') = Len(written) + 1 /\ Len(written) \in Nat
      /\ \A i \in 1 .. Len(written) : written'[i] = written[i]
      /\ written'[Len(written) + 1] = e /\ written' \in Seq(Element)
  BY <1>1, ElementsAppended
<1>3. ASSUME NEW i \in DOMAIN written', written'[i].what[1] = "bytes"
      PROVE  IsStored(written'[i])
  <2>1. i \in 1 .. Len(written) \/ i = Len(written) + 1
    BY <1>2
  <2>2. CASE i \in 1 .. Len(written)
    <3>1. i \in DOMAIN written
      BY <1>1, <2>2
    <3> QED BY <1>2, <1>3, <2>2, <3>1 DEF BytesInv
  <2>3. CASE i = Len(written) + 1
    BY <1>2, <1>3, <2>3
  <2> QED BY <2>1, <2>2, <2>3
<1> QED BY <1>3 DEF BytesInv, IsStored

LEMMA BytesNext ==
  ASSUME IInv, BytesInv, [ENext]_evars
  PROVE  BytesInv'
<1> USE DEF IInv
<1>1. ASSUME NEW data \in Pieces, Feed(data) PROVE BytesInv'
  BY <1>1 DEF Feed, history, BytesInv, IsStored
<1>2. CASE Finish \/ SyncFlush \/ FeedLoop \/ Marker \/ EmitStored
  BY <1>2 DEF Finish, SyncFlush, FeedLoop, Marker, EmitStored, history,
     BytesInv, IsStored
<1>3. CASE Aside
  BY <1>3, AsideSame DEF BytesInv, IsStored
<1>4. ASSUME NEW n \in Advances \cup {output - drained}, Advance(n)
      PROVE  BytesInv'
  BY <1>4 DEF Advance, history, BytesInv, IsStored
<1>5. CASE StoredHeader
  <2> DEFINE e == [at |-> Position(bit_count), width |-> 3,
                   what |-> <<"header", FinalFlag, "stored">>]
  <2>1. Extends(e) /\ e.what[1] # "bytes"
    BY <1>5, StoredHeaderTypes
  <2> QED BY <2>1, BytesAppended
<1>6. CASE StoredAlign
  <2> DEFINE e == [at |-> Position(writer), width |-> (8 - writer) % 8,
                   what |-> <<"pad">>]
  <2>1. Extends(e) /\ e.what[1] # "bytes"
    BY <1>6, StoredAlignTypes
  <2> QED BY <2>1, BytesAppended
<1>7. CASE StoredBytes
  <2> DEFINE e == [at |-> Position(0), width |-> 32 + 8 * sub_len,
                   what |-> <<"bytes", NextPart(sub_len)>>]
  <2>1. Extends(e) /\ e.at = Position(0) /\ e.what[2] = NextPart(sub_len)
    BY <1>7, StoredBytesTypes DEF NextPart
  <2> HIDE DEF e
  <2>2. Position(0) % 8 = 0
    <3>1. taken - drained + output \in Nat
      BY Numbers
    <3>2. Position(0) = 8 * (taken - drained + output)
      BY <3>1 DEF Position
    <3> QED BY <3>1, <3>2
  <2>3. Len(NextPart(sub_len)) <= MAX_STORED_BLOCK
    BY Piece DEF NextPart
  <2> QED BY <2>1, <2>2, <2>3, BytesAppended DEF IsStored
<1>8. CASE EmitHuffman
  <2>1. PICK e : Extends(e) /\ e.what = <<"header", is_final, kind>>
    BY <1>8, EmitHuffmanTypes
  <2>2. e.what[1] # "bytes"
    BY <2>1
  <2> QED BY <2>1, <2>2, BytesAppended
<1>9. CASE WriteLiteral
  BY <1>9, WriteLiteralTypes, BytesAppended
<1>10. CASE WriteMatch
  BY <1>10, WriteMatchTypes, BytesAppended
<1>11. CASE WriteEnd
  BY <1>11, WriteEndTypes, BytesAppended
<1>12. CASE CloseBlock
  <2>1. CASE is_final
    BY <1>12, <2>1, CloseBlockTypes, BytesAppended
  <2>2. CASE ~ is_final
    BY <1>12, <2>2, CloseBlockTypes DEF NothingWritten, BytesInv, IsStored
  <2> QED BY <2>1, <2>2
<1>13. CASE UNCHANGED evars
  BY <1>13, Stutter DEF BytesInv, IsStored
<1> QED
  BY <1>1, <1>2, <1>3, <1>4, <1>5, <1>6, <1>7, <1>8, <1>9, <1>10, <1>11,
     <1>12, <1>13 DEF ENext, EStep, Aside

(* Once sync_flush has returned all that was fed is in the stream, which   *)
(* ends on a byte with the marker.                                         *)
THEOREM FlushIsAtAByte == ESpec => []FlushEndsOnByte
<1>1. EInit => FlushInv /\ BytesInv
  BY DEF EInit, FlushInv, BytesInv
<1>2. IInv /\ FlushInv /\ [ENext]_evars => FlushInv'
  BY FlushNext
<1>3. IInv /\ BytesInv /\ [ENext]_evars => BytesInv'
  BY BytesNext
<1>4. IInv /\ FlushInv /\ BytesInv /\ NothingLost => FlushEndsOnByte
  <2> SUFFICES ASSUME IInv, FlushInv, BytesInv, NothingLost
               PROVE  FlushEndsOnByte
    OBVIOUS
  <2>1. ASSUME pc = "idle", call = "sync_flush", answer = "ok"
        PROVE  /\ bit_count = 0 /\ meaning = fed
               /\ Len(written) >= 3
               /\ written[Len(written)].what = <<"bytes", << >> >>
               /\ written[Len(written) - 2].what = <<"header", FALSE, "stored">>
    <3>1. /\ bit_count = 0 /\ MarkerHeader(3) /\ input = << >>
          /\ written[Len(written)].what = <<"bytes", << >> >>
      BY <2>1 DEF FlushInv
    <3>2. cursor = 0 /\ chunk = << >>
      BY <2>1 DEF IInv, Phases, InBlock
    <3>3. Rest = << >> /\ meaning \in Seq(Byte)
      BY <3>2, EmptySeq, RestType DEF IInv
    <3>4. fed = meaning \o << >> \o << >>
      BY <3>1, <3>3 DEF NothingLost, Rest
    <3>5. meaning = fed
      BY <3>3, <3>4, ConcatEmptySeq
    <3>6. Len(written) - 3 + 1 = Len(written) - 2
      BY LenProperties DEF IInv, EncTypeOK
    <3> QED BY <3>1, <3>5, <3>6 DEF MarkerHeader
  <2> QED BY <2>1 DEF BytesInv, IsStored, FlushEndsOnByte
<1> QED BY <1>1, <1>2, <1>3, <1>4, Invariance, EveryByteOnce, PTL DEF ESpec
-----------------------------------------------------------------------------
(* The container encoders and the writing adapter.  Both only use the      *)
(* operations of the encoder: each of their steps is one of its own, or    *)
(* none, so that all that is shown above of its state holds here.  What is *)
(* added is what the caller knows between two calls.                       *)

FileByte == ({"header"} \X Nat) \cup ({"body"} \X Nat)
              \cup ({"trailer"} \X Nat \X (Seq(Byte) \cup Nat))

(* What has been written of the file, and what of it is still in the       *)
(* output.                                                                 *)
Body(n)    == [i \in 1 .. n |-> <<"body", i - 1>>]
Beginning  == IF header_emitted THEN Header ELSE << >>
End        == IF ended THEN Trailer(fed, Len(fed) % SIZE_WRAP) ELSE << >>
Left       == SubSeq(out, out_drained + 1, Len(out))

FileTypeOK ==
  /\ format \in {"gzip", "zlib"}
  /\ out \in Seq(FileByte) /\ sent \in Seq(FileByte)
  /\ out_drained \in 0 .. Len(out)
  /\ header_emitted \in BOOLEAN /\ ended \in BOOLEAN
  /\ at \in {"idle", "feed", "finish"}
  /\ size \in Nat

(* Where the calls of the container and of the encoder inside it are.      *)
Calls ==
  /\ header_emitted <=> call # "new"
  /\ ~ header_emitted => at = "idle" /\ taken = 0 /\ ~ ended
  /\ at = "idle" => pc = "idle" /\ output = drained /\ (ended <=> finishing)
  /\ at # "idle" => ~ ended
  /\ at = "feed" => ~ finishing
  /\ at = "finish" => finishing

(* What the trailer is made from.                                          *)
Sums == /\ checksum = fed
        /\ format = "gzip" => size = Len(fed) % SIZE_WRAP

FileInv == /\ FileTypeOK /\ Calls /\ Sums
           /\ sent \o Left = (Beginning \o Body(taken)) \o End

(* The writer: after a call that succeeds the sink has all that the        *)
(* encoder is rid of.                                                      *)
SinkInv ==
  /\ place \in {"idle", "write", "finish"} /\ outcome \in {"ok", "err"}
  /\ Len(sink) \in Nat /\ sink = [i \in 1 .. Len(sink) |-> i - 1]
  /\ place # "idle" => outcome = "ok"
  /\ place = "idle" => pc = "idle"
  /\ outcome = "ok" => Len(sink) = taken
  /\ place = "idle" /\ outcome = "ok" => output = drained

UsersInv == /\ StreamInv
            /\ user = "container" => FileInv
            /\ user = "writer" => SinkInv
-----------------------------------------------------------------------------
(* What a step of a call under way leaves as it is.                        *)
LEMMA StepOfCall ==
  ASSUME EStep
  PROVE  pc # "idle" /\ outer' = outer
  BY DEF EStep, FeedLoop, Marker, EmitStored, StoredHeader, StoredAlign,
     StoredBytes, EmitHuffman, WriteLiteral, WriteMatch, WriteEnd, CloseBlock

(* A caller that takes all there is leaves nothing.                        *)
LEMMA TakesAll ==
  ASSUME EncTypeOK, Advance(output - drained)
  PROVE  /\ output' = drained' /\ taken' = taken + (output - drained)
         /\ output - drained \in Nat /\ taken \in Nat
         /\ pc' = pc /\ pc = "idle" /\ finishing' = finishing
         /\ fed' = fed /\ call' = call
<1>1. output \in Nat /\ drained \in Nat /\ taken \in Nat /\ drained <= output
  BY Numbers
<1>2. drained + (output - drained) = output /\ output - output = 0
  BY <1>1
<1>3. Compact(output)
  BY <1>2 DEF Advance
<1>4. output' = drained'
  BY <1>2, <1>3 DEF Compact
<1> QED BY <1>1, <1>4 DEF Advance, options, caller

(* Every step of the two is a step of the encoder, or none.                *)
LEMMA StepsOfTheEncoder ==
  ASSUME [UsersNext]_uservars
  PROVE  [ENext]_evars
<1>1. ASSUME NEW data \in Pieces, Feed(data) PROVE ENext
  BY <1>1 DEF ENext
<1>2. ASSUME Advance(output - drained) PROVE ENext
  BY <1>2 DEF ENext
<1>3. EStep \/ Finish => ENext
  BY DEF ENext
<1>4. CASE Containing
  <2>1. KNext
    BY <1>4 DEF Containing
  <2>2. ASSUME NEW n, KAdvance(n) PROVE UNCHANGED evars
    BY <2>2 DEF KAdvance
  <2> QED
    BY <1>1, <1>2, <1>3, <2>1, <2>2
    DEF KNext, KStep, KFeed, KFinish, KRefused, kvars, InnerStep,
        KFeedReturns, KFinishReturns
<1>5. CASE Writing
  <2>1. WNext
    BY <1>5 DEF Writing
  <2>2. ASSUME Drain PROVE ENext \/ UNCHANGED evars
    BY <1>2, <2>2 DEF Drain
  <2> QED
    BY <1>1, <1>3, <2>1, <2>2
    DEF WNext, WStep, Write, WFinish, EncoderStep, Drained, Dropped, wvars
<1>6. CASE UNCHANGED uservars
  BY <1>6 DEF uservars, kvars
<1> QED BY <1>4, <1>5, <1>6 DEF UsersNext
-----------------------------------------------------------------------------
(* The parts of a file.                                                    *)
LEMMA HeaderType == Header \in Seq(FileByte)
<1> DEFINE n == IF format = "gzip" THEN 10 ELSE 2
<1>1. n \in Nat
  OBVIOUS
<1> HIDE DEF n
<1>2. ASSUME NEW i \in 1 .. n PROVE <<"header", i - 1>> \in FileByte
  <2>1. i - 1 \in Nat
    BY <1>1
  <2> QED BY <2>1 DEF FileByte
<1>3. [i \in 1 .. n |-> <<"header", i - 1>>] \in [1 .. n -> FileByte]
  BY <1>2
<1>4. [i \in 1 .. n |-> <<"header", i - 1>>] \in Seq(FileByte)
  BY <1>1, <1>3, SeqDef
<1> QED BY <1>4 DEF Header, n

LEMMA TrailerType ==
  ASSUME NEW sum \in Seq(Byte), NEW k \in Nat
  PROVE  Trailer(sum, k) \in Seq(FileByte)
<1> DEFINE n == IF format = "gzip" THEN 8 ELSE 4
           v(i) == <<"trailer", i - 1, IF i <= 4 THEN sum ELSE k>>
<1>1. n \in Nat
  OBVIOUS
<1> HIDE DEF n
<1>2. ASSUME NEW i \in 1 .. n PROVE v(i) \in FileByte
  <2>1. i - 1 \in Nat
    BY <1>1
  <2> QED BY <2>1 DEF FileByte
<1> HIDE DEF v
<1>3. [i \in 1 .. n |-> v(i)] \in [1 .. n -> FileByte]
  BY <1>2
<1>4. [i \in 1 .. n |-> v(i)] \in Seq(FileByte)
  BY <1>1, <1>3, SeqDef
<1> QED BY <1>4 DEF Trailer, n, v

(* In a zlib file the trailer does not tell the size.                      *)
LEMMA TrailerSame ==
  ASSUME Sums
  PROVE  Trailer(checksum, size) = Trailer(fed, Len(fed) % SIZE_WRAP)
<1>1. CASE format = "gzip"
  BY <1>1 DEF Sums
<1>2. CASE format # "gzip"
  <2>1. \A s, k : Trailer(s, k)
                    = [i \in 1 .. 4 |-> <<"trailer", i - 1,
                                          IF i <= 4 THEN s ELSE k>>]
    BY <1>2 DEF Trailer
  <2>2. \A s, k : [i \in 1 .. 4 |-> <<"trailer", i - 1,
                                      IF i <= 4 THEN s ELSE k>>]
                    = [i \in 1 .. 4 |-> <<"trailer", i - 1, s>>]
    OBVIOUS
  <2> QED BY <2>1, <2>2 DEF Sums
<1> QED BY <1>1, <1>2

LEMMA BodyProperties ==
  ASSUME NEW n \in Nat
  PROVE  /\ Body(n) \in Seq(FileByte) /\ Len(Body(n)) = n
         /\ \A i \in 1 .. n : Body(n)[i] = <<"body", i - 1>>
<1>1. ASSUME NEW i \in 1 .. n PROVE <<"body", i - 1>> \in FileByte
  <2>1. i - 1 \in Nat
    OBVIOUS
  <2> QED BY <2>1 DEF FileByte
<1>2. Body(n) \in [1 .. n -> FileByte]
  BY <1>1 DEF Body
<1>3. Body(n) \in Seq(FileByte) /\ Len(Body(n)) = n
  BY <1>2, SeqDef, LenProperties
<1> QED BY <1>3 DEF Body

(* The body goes on with what the encoder has produced.                    *)
LEMMA BodyGrows ==
  ASSUME taken \in Nat, output - drained \in Nat
  PROVE  /\ Produced \in Seq(FileByte)
         /\ Body(taken + (output - drained)) = Body(taken) \o Produced
<1> DEFINE k == output - drained
           t == taken
           p == [i \in 1 .. k |-> <<"body", t + i - 1>>]
<1>1. k \in Nat /\ t \in Nat
  OBVIOUS
<1>2. Produced = p
  BY DEF Produced
<1> HIDE DEF k, t
<1>3. ASSUME NEW i \in 1 .. k PROVE <<"body", t + i - 1>> \in FileByte
  <2>1. t + i - 1 \in Nat
    BY <1>1
  <2> QED BY <2>1 DEF FileByte
<1>4. p \in [1 .. k -> FileByte]
  BY <1>3
<1>5. \A i \in 1 .. k : p[i] = <<"body", t + i - 1>>
  OBVIOUS
<1> HIDE DEF p
<1>6. p \in Seq(FileByte) /\ Len(p) = k
  BY <1>1, <1>4, SeqDef, LenProperties
<1> DEFINE b == Body(t)
           c == Body(t + k)
<1>7. /\ b \in Seq(FileByte) /\ Len(b) = t
      /\ \A i \in 1 .. t : b[i] = <<"body", i - 1>>
  BY <1>1, BodyProperties
<1>8. /\ c \in Seq(FileByte) /\ Len(c) = t + k
      /\ \A i \in 1 .. t + k : c[i] = <<"body", i - 1>>
  <2>1. t + k \in Nat
    BY <1>1
  <2> QED BY <2>1, BodyProperties
<1> HIDE DEF b, c
<1>9. /\ b \o p \in Seq(FileByte) /\ Len(b \o p) = Len(b) + Len(p)
      /\ \A i \in 1 .. Len(b) + Len(p) : (b \o p)[i]
           = IF i <= Len(b) THEN b[i] ELSE p[i - Len(b)]
  BY <1>6, <1>7, ConcatProperties
<1>10. ASSUME NEW i \in 1 .. t + k PROVE (b \o p)[i] = c[i]
  <2>1. CASE i <= t
    <3>1. i \in 1 .. t
      BY <1>1, <2>1
    <3>2. (b \o p)[i] = b[i]
      BY <1>1, <1>6, <1>7, <1>9, <2>1
    <3> QED BY <1>7, <1>8, <3>1, <3>2
  <2>2. CASE i > t
    <3>1. i - t \in 1 .. k /\ t + (i - t) - 1 = i - 1 /\ ~ (i <= t)
      BY <1>1, <2>2
    <3>2. p[i - t] = <<"body", i - 1>>
      BY <1>5, <3>1
    <3>3. (b \o p)[i] = p[i - t]
      BY <1>1, <1>6, <1>7, <1>9, <2>2
    <3> QED BY <1>8, <3>2, <3>3
  <2>3. i <= t \/ i > t
    BY <1>1
  <2> QED BY <2>1, <2>2, <2>3
<1>11. c = b \o p
  BY <1>6, <1>7, <1>8, <1>9, <1>10, SeqEqual
<1> QED BY <1>2, <1>6, <1>11 DEF t, k, b, c
-----------------------------------------------------------------------------
LEMMA Outputs ==
  ASSUME FileTypeOK
  PROVE  /\ out \in Seq(FileByte) /\ sent \in Seq(FileByte)
         /\ out_drained \in 0 .. Len(out) /\ Len(out) \in Nat
         /\ Left \in Seq(FileByte) /\ Len(Left) = Len(out) - out_drained
         /\ sent \o Left \in Seq(FileByte)
<1>1. /\ out \in Seq(FileByte) /\ sent \in Seq(FileByte)
      /\ out_drained \in 0 .. Len(out) /\ Len(out) \in Nat
  BY LenProperties DEF FileTypeOK
<1>2. Left \in Seq(FileByte) /\ Len(Left) = Len(out) - out_drained
  BY <1>1, DropProperties DEF Left
<1> QED BY <1>1, <1>2, ConcatProperties

LEMMA FileAssociative ==
  \A s, t, u \in Seq(FileByte) : s \o (t \o u) = (s \o t) \o u
  BY ConcatAssociative

(* What is appended to the output is appended to the file.                 *)
LEMMA FileGrows ==
  ASSUME FileTypeOK, NEW t \in Seq(FileByte), out' = out \o t,
         sent' = sent, out_drained' = out_drained
  PROVE  /\ out' \in Seq(FileByte) /\ out_drained' \in 0 .. Len(out')
         /\ sent' \o Left' = (sent \o Left) \o t
<1>1. /\ out \in Seq(FileByte) /\ sent \in Seq(FileByte)
      /\ out_drained \in 0 .. Len(out) /\ Len(out) \in Nat
      /\ Left \in Seq(FileByte) /\ Len(t) \in Nat
  BY Outputs, LenProperties
<1>2. out' \in Seq(FileByte) /\ Len(out') = Len(out) + Len(t)
  BY <1>1, ConcatProperties
<1>3. out_drained' \in 0 .. Len(out')
  BY <1>1, <1>2
<1>4. Left' = Left \o t
  BY <1>1, DropOfConcat DEF Left
<1>5. sent \o (Left \o t) = (sent \o Left) \o t
  BY <1>1, FileAssociative
<1> QED BY <1>2, <1>3, <1>4, <1>5

(* The first call of all puts the header there, and no other does.         *)
LEMMA HeaderFirst ==
  ASSUME FileInv, ensure_header, ~ ended, sent' = sent,
         out_drained' = out_drained
  PROVE  /\ out' \in Seq(FileByte) /\ out_drained' \in 0 .. Len(out')
         /\ header_emitted'
         /\ sent' \o Left' = (Header \o Body(taken)) \o << >>
<1>1. sent \o Left = (Beginning \o Body(taken)) \o << >>
  BY DEF FileInv, End
<1>2. FileTypeOK
  BY DEF FileInv
<1>3. CASE header_emitted
  <2>1. out' = out /\ header_emitted' = header_emitted
    BY <1>3 DEF ensure_header
  <2>2. Beginning = Header
    BY <1>3 DEF Beginning
  <2> QED BY <1>1, <1>2, <1>3, <2>1, <2>2, Outputs DEF Left
<1>4. CASE ~ header_emitted
  <2>1. out' = out \o Header /\ header_emitted'
    BY <1>4 DEF ensure_header
  <2>2. /\ out' \in Seq(FileByte) /\ out_drained' \in 0 .. Len(out')
        /\ sent' \o Left' = (sent \o Left) \o Header
    BY <1>2, <2>1, HeaderType, FileGrows
  <2>3. taken = 0 /\ Beginning = << >>
    BY <1>4 DEF FileInv, Calls, Beginning
  <2>4. Body(taken) = << >>
    <3>1. Body(0) \in Seq(FileByte) /\ Len(Body(0)) = 0
      BY BodyProperties
    <3> QED BY <2>3, <3>1, EmptySeq
  <2>5. /\ << >> \o << >> = << >> /\ << >> \o Header = Header
        /\ Header \o << >> = Header
    BY HeaderType, ConcatEmptySeq, EmptySeq
  <2>6. sent \o Left = << >>
    BY <1>1, <2>3, <2>4, <2>5
  <2> QED BY <2>1, <2>2, <2>4, <2>5, <2>6
<1> QED BY <1>3, <1>4

LEMMA SizeGrows ==
  ASSUME FileTypeOK, Sums, EncTypeOK, NEW data \in Pieces
  PROVE  /\ Size(data) \in Nat
         /\ format = "gzip" =>
              Size(data) = Len(fed \o data) % SIZE_WRAP
<1>1. /\ fed \in Seq(Byte) /\ data \in Seq(Byte) /\ size \in Nat
      /\ SIZE_WRAP \in Nat \ {0}
  BY EncoderAssumption, ContainerEncoderAssumption DEF EncTypeOK, FileTypeOK
<1>2. /\ Len(fed) \in Nat /\ Len(data) \in Nat
      /\ Len(fed \o data) = Len(fed) + Len(data)
  BY <1>1, LenProperties, ConcatProperties
<1>3. size + Len(data) \in Nat
  BY <1>1, <1>2
<1>4. Size(data) \in Nat
  BY <1>1, <1>3, Division DEF Size
<1>5. ASSUME format = "gzip"
      PROVE  Size(data) = Len(fed \o data) % SIZE_WRAP
  <2>1. size = Len(fed) % SIZE_WRAP
    BY <1>5 DEF Sums
  <2>2. ((Len(fed) % SIZE_WRAP) + Len(data)) % SIZE_WRAP
          = (Len(fed) + Len(data)) % SIZE_WRAP
    BY <1>1, <1>2, RemainderOfSum
  <2> QED BY <1>2, <2>1, <2>2 DEF Size
<1> QED BY <1>4, <1>5

LEMMA KFeedKeeps ==
  ASSUME StreamInv, FileInv, NEW data \in Pieces, KFeed(data)
  PROVE  FileInv'
<1>1. /\ at = "idle" /\ ~ ended /\ ensure_header
      /\ checksum' = checksum \o data
      /\ size' = IF format = "gzip" THEN Size(data) ELSE size
      /\ at' = "feed" /\ format' = format /\ sent' = sent /\ ended' = ended
      /\ out_drained' = out_drained
  BY DEF KFeed
<1>2. /\ fed' = fed \o data /\ taken' = taken /\ call' = "feed"
      /\ ~ finishing /\ finishing' = finishing
  BY DEF KFeed, Feed, Call
<1>3. EncTypeOK /\ FileTypeOK /\ Calls /\ Sums
  BY DEF FileInv, StreamInv, IInv
<1>4. /\ out' \in Seq(FileByte) /\ out_drained' \in 0 .. Len(out')
      /\ header_emitted'
      /\ sent' \o Left' = (Header \o Body(taken)) \o << >>
  BY <1>1, HeaderFirst
<1>5. FileTypeOK'
  BY <1>1, <1>3, <1>4, SizeGrows DEF FileTypeOK, ensure_header
<1>6. Calls'
  BY <1>1, <1>2, <1>4 DEF Calls
<1>7. Sums'
  BY <1>1, <1>2, <1>3, SizeGrows DEF Sums
<1>8. sent' \o Left' = (Beginning' \o Body(taken')) \o End'
  BY <1>1, <1>2, <1>4 DEF Beginning, End, Header
<1> QED BY <1>5, <1>6, <1>7, <1>8 DEF FileInv, Body

LEMMA KFinishKeeps ==
  ASSUME StreamInv, FileInv, KFinish
  PROVE  FileInv'
<1>1. /\ at = "idle" /\ ~ ended /\ ensure_header
      /\ checksum' = checksum /\ size' = size
      /\ at' = "finish" /\ format' = format /\ sent' = sent /\ ended' = ended
      /\ out_drained' = out_drained
  BY DEF KFinish
<1>2. fed' = fed /\ taken' = taken /\ call' = "finish" /\ finishing' = TRUE
  BY DEF KFinish, Finish, Call
<1>3. FileTypeOK /\ Calls /\ Sums
  BY DEF FileInv
<1>4. /\ out' \in Seq(FileByte) /\ out_drained' \in 0 .. Len(out')
      /\ header_emitted'
      /\ sent' \o Left' = (Header \o Body(taken)) \o << >>
  BY <1>1, HeaderFirst
<1>5. FileTypeOK'
  BY <1>1, <1>3, <1>4 DEF FileTypeOK, ensure_header
<1>6. Calls'
  BY <1>1, <1>2, <1>4 DEF Calls
<1>7. Sums'
  BY <1>1, <1>2, <1>3 DEF Sums
<1>8. sent' \o Left' = (Beginning' \o Body(taken')) \o End'
  BY <1>1, <1>2, <1>4 DEF Beginning, End, Header
<1> QED BY <1>5, <1>6, <1>7, <1>8 DEF FileInv, Body

LEMMA InnerStepKeeps ==
  ASSUME FileInv, InnerStep
  PROVE  FileInv'
<1>1. /\ pc # "idle" /\ finishing' = finishing /\ fed' = fed
      /\ call' = call /\ taken' = taken
  BY StepOfCall, OuterSame DEF InnerStep
<1>2. /\ format' = format /\ out' = out /\ out_drained' = out_drained
      /\ sent' = sent /\ header_emitted' = header_emitted
      /\ checksum' = checksum /\ size' = size /\ ended' = ended /\ at' = at
  BY DEF InnerStep, own
<1>3. FileTypeOK /\ Calls /\ Sums
  BY DEF FileInv
<1>4. FileTypeOK' /\ Sums'
  BY <1>1, <1>2, <1>3 DEF FileTypeOK, Sums
<1>5. Calls'
  BY <1>1, <1>2, <1>3 DEF Calls
<1> QED BY <1>1, <1>2, <1>4, <1>5
        DEF FileInv, Left, Beginning, End, Header, Trailer, Body

(* What the encoder produced goes behind the body so far.                  *)
LEMMA BodyMoves ==
  ASSUME StreamInv, FileInv, at # "idle", Advance(output - drained)
  PROVE  /\ Produced \in Seq(FileByte)
         /\ sent \o Left \in Seq(FileByte)
         /\ (sent \o Left) \o Produced = Header \o Body(taken')
         /\ Header \o Body(taken') \in Seq(FileByte)
<1>1. EncTypeOK /\ FileTypeOK
  BY DEF StreamInv, IInv, FileInv
<1>2. /\ taken' = taken + (output - drained)
      /\ output - drained \in Nat /\ taken \in Nat
  BY <1>1, TakesAll
<1>3. /\ Produced \in Seq(FileByte)
      /\ Body(taken + (output - drained)) = Body(taken) \o Produced
  BY <1>2, BodyGrows
<1>4. Body(taken) \in Seq(FileByte) /\ Header \in Seq(FileByte)
  BY <1>2, HeaderType, BodyProperties
<1>5. sent \o Left = Header \o Body(taken)
  <2>1. header_emitted /\ ~ ended
    BY DEF FileInv, Calls
  <2>2. Beginning = Header /\ End = << >>
    BY <2>1 DEF Beginning, End
  <2>3. Header \o Body(taken) \in Seq(FileByte)
    BY <1>4, ConcatProperties
  <2>4. (Header \o Body(taken)) \o << >> = Header \o Body(taken)
    BY <2>3, ConcatEmptySeq
  <2> QED BY <2>2, <2>4 DEF FileInv
<1>6. (Header \o Body(taken)) \o Produced = Header \o (Body(taken) \o Produced)
  BY <1>3, <1>4, FileAssociative
<1>7. Header \o (Body(taken) \o Produced) \in Seq(FileByte)
  BY <1>3, <1>4, ConcatProperties
<1> QED BY <1>1, <1>2, <1>3, <1>5, <1>6, <1>7, Outputs

LEMMA KFeedReturnsKeeps ==
  ASSUME StreamInv, FileInv, KFeedReturns
  PROVE  FileInv'
<1>1. /\ at = "feed" /\ at' = "idle" /\ Advance(output - drained)
      /\ out' = out \o Produced
      /\ format' = format /\ out_drained' = out_drained /\ sent' = sent
      /\ header_emitted' = header_emitted /\ checksum' = checksum
      /\ size' = size /\ ended' = ended
  BY DEF KFeedReturns
<1>2. EncTypeOK /\ FileTypeOK /\ Calls /\ Sums
  BY DEF StreamInv, IInv, FileInv
<1>3. /\ output' = drained' /\ pc' = "idle" /\ finishing' = finishing
      /\ fed' = fed /\ call' = call
  BY <1>1, <1>2, TakesAll
<1>4. ~ finishing /\ ~ ended /\ header_emitted
  BY <1>1, <1>2 DEF Calls
<1>5. /\ Produced \in Seq(FileByte)
      /\ (sent \o Left) \o Produced = Header \o Body(taken')
      /\ Header \o Body(taken') \in Seq(FileByte)
  BY <1>1, BodyMoves
<1>6. /\ out' \in Seq(FileByte) /\ out_drained' \in 0 .. Len(out')
      /\ sent' \o Left' = (sent \o Left) \o Produced
  BY <1>1, <1>2, <1>5, FileGrows
<1>7. FileTypeOK' /\ Sums'
  BY <1>1, <1>2, <1>3, <1>6 DEF FileTypeOK, Sums
<1>8. Calls'
  BY <1>1, <1>2, <1>3, <1>4 DEF Calls
<1>9. Beginning' = Header /\ End' = << >>
  BY <1>1, <1>4 DEF Beginning, End, Header
<1>10. sent' \o Left' = (Beginning' \o Body(taken')) \o End'
  BY <1>5, <1>6, <1>9, ConcatEmptySeq
<1> QED BY <1>7, <1>8, <1>10 DEF FileInv, Body

LEMMA KFinishReturnsKeeps ==
  ASSUME StreamInv, FileInv, KFinishReturns
  PROVE  FileInv'
<1> DEFINE t == Trailer(checksum, size)
<1>1. /\ at = "finish" /\ at' = "idle" /\ Advance(output - drained)
      /\ out' = out \o Produced \o t
      /\ format' = format /\ out_drained' = out_drained /\ sent' = sent
      /\ header_emitted' = header_emitted /\ checksum' = checksum
      /\ size' = size /\ ended' = TRUE
  BY DEF KFinishReturns
<1>2. EncTypeOK /\ FileTypeOK /\ Calls /\ Sums
  BY DEF StreamInv, IInv, FileInv
<1>3. /\ output' = drained' /\ pc' = "idle" /\ finishing' = finishing
      /\ fed' = fed /\ call' = call
  BY <1>1, <1>2, TakesAll
<1>4. finishing /\ ~ ended /\ header_emitted
  BY <1>1, <1>2 DEF Calls
<1>5. t \in Seq(FileByte) /\ t = Trailer(fed, Len(fed) % SIZE_WRAP)
  <2>1. checksum \in Seq(Byte) /\ size \in Nat
    BY <1>2 DEF Sums, EncTypeOK, FileTypeOK
  <2> QED BY <1>2, <2>1, TrailerType, TrailerSame
<1>6. /\ Produced \in Seq(FileByte) /\ sent \o Left \in Seq(FileByte)
      /\ (sent \o Left) \o Produced = Header \o Body(taken')
  BY <1>1, BodyMoves
<1>7. out' = out \o (Produced \o t) /\ Produced \o t \in Seq(FileByte)
  BY <1>1, <1>2, <1>5, <1>6, FileAssociative, ConcatProperties DEF FileTypeOK
<1>8. /\ out' \in Seq(FileByte) /\ out_drained' \in 0 .. Len(out')
      /\ sent' \o Left' = (sent \o Left) \o (Produced \o t)
  BY <1>1, <1>2, <1>7, FileGrows
<1>9. sent' \o Left' = (Header \o Body(taken')) \o t
  <2> HIDE DEF t
  <2>1. (sent \o Left) \o (Produced \o t) = ((sent \o Left) \o Produced) \o t
    BY <1>5, <1>6, FileAssociative
  <2> QED BY <1>6, <1>8, <2>1
<1>10. FileTypeOK' /\ Sums'
  BY <1>1, <1>2, <1>3, <1>8 DEF FileTypeOK, Sums
<1>11. Calls'
  BY <1>1, <1>2, <1>3, <1>4 DEF Calls
<1>12. Beginning' = Header /\ End' = t
  BY <1>1, <1>3, <1>4, <1>5 DEF Beginning, End, Header, Trailer
<1>13. sent' \o Left' = (Beginning' \o Body(taken')) \o End'
  BY <1>9, <1>12
<1> QED BY <1>10, <1>11, <1>13 DEF FileInv, Body

(* What the caller takes goes from the output to what it has.              *)
LEMMA KAdvanceKeeps ==
  ASSUME FileInv, NEW n \in Advances \cup {Len(out) - out_drained},
         KAdvance(n)
  PROVE  FileInv'
<1>1. /\ at = "idle" /\ n <= Len(out) - out_drained
      /\ sent' = sent \o SubSeq(out, out_drained + 1, out_drained + n)
      /\ Emptied(out_drained + n)
      /\ evars' = evars /\ format' = format /\ checksum' = checksum
      /\ header_emitted' = header_emitted /\ size' = size /\ ended' = ended
      /\ at' = at
  BY DEF KAdvance
<1>2. /\ pc' = pc /\ finishing' = finishing /\ fed' = fed /\ call' = call
      /\ taken' = taken /\ output' = output /\ drained' = drained
  BY <1>1, Stutter, OuterSame
<1>3. /\ out \in Seq(FileByte) /\ sent \in Seq(FileByte)
      /\ out_drained \in 0 .. Len(out) /\ Len(out) \in Nat
  BY Outputs DEF FileInv
<1>4. n \in Nat
  BY <1>3, EncoderAssumption
<1> DEFINE d == out_drained + n
           piece == SubSeq(out, out_drained + 1, d)
           left == SubSeq(out, d + 1, Len(out))
<1>5. d \in 0 .. Len(out)
  BY <1>1, <1>3, <1>4
<1>6. left \in Seq(FileByte) /\ Len(left) = Len(out) - d
  BY <1>3, <1>5, DropProperties
<1>7. piece \o left = Left
  <2>1. /\ out_drained + 1 \in 1 .. Len(out) + 1
        /\ d \in (out_drained + 1) - 1 .. Len(out)
        /\ Len(out) \in d .. Len(out)
    BY <1>1, <1>3, <1>4
  <2> QED BY <1>3, <2>1, ConcatAdjacentSubSeq DEF Left
<1>8. piece \in Seq(FileByte)
  <2>1. \A i \in out_drained + 1 .. d : out[i] \in FileByte
    BY <1>3, <1>5, ElementOfSeq
  <2> QED BY <1>3, <1>5, <2>1, SubSeqProperties
<1>9. /\ out' \in Seq(FileByte) /\ out_drained' \in 0 .. Len(out')
      /\ Left' = left
  <2>1. CASE d >= COMPACT_THRESHOLD
    <3>1. out' = left /\ out_drained' = 0
      BY <1>1, <2>1 DEF Emptied
    <3>2. SubSeq(left, 1, Len(left)) = left /\ Len(left) \in Nat
      BY <1>6, SubSeqFull, LenProperties
    <3> HIDE DEF left
    <3> QED BY <1>6, <3>1, <3>2 DEF Left
  <2>2. CASE ~ (d >= COMPACT_THRESHOLD)
    <3>1. out' = out /\ out_drained' = d
      BY <1>1, <2>2 DEF Emptied
    <3> QED BY <1>3, <1>5, <3>1 DEF Left
  <2> QED BY <2>1, <2>2
<1> HIDE DEF piece, left
<1>10. sent' \in Seq(FileByte) /\ sent' \o Left' = sent \o Left
  <2>1. sent' = sent \o piece
    BY <1>1 DEF piece
  <2>2. sent' \in Seq(FileByte)
    BY <1>3, <1>8, <2>1, ConcatProperties
  <2>3. (sent \o piece) \o left = sent \o (piece \o left)
    BY <1>3, <1>6, <1>8, FileAssociative
  <2> QED BY <1>7, <1>9, <2>1, <2>2, <2>3
<1>11. FileTypeOK' /\ Calls' /\ Sums'
  BY <1>1, <1>2, <1>9, <1>10 DEF FileInv, FileTypeOK, Calls, Sums
<1>12. /\ Beginning' = Beginning /\ End' = End
       /\ sent \o Left = (Beginning \o Body(taken)) \o End
  BY <1>1, <1>2 DEF FileInv, Beginning, End, Header, Trailer
<1>13. sent' \o Left' = (Beginning' \o Body(taken')) \o End'
  BY <1>2, <1>10, <1>12
<1> QED BY <1>11, <1>13 DEF FileInv, Body

LEMMA FileStutters ==
  ASSUME FileInv, kvars' = kvars
  PROVE  FileInv'
<1>1. evars' = evars /\ own' = own
  BY DEF kvars
<1>2. /\ pc' = pc /\ finishing' = finishing /\ fed' = fed /\ call' = call
      /\ taken' = taken /\ output' = output /\ drained' = drained
  BY <1>1, Stutter, OuterSame
<1>3. /\ format' = format /\ out' = out /\ out_drained' = out_drained
      /\ sent' = sent /\ header_emitted' = header_emitted
      /\ checksum' = checksum /\ size' = size /\ ended' = ended /\ at' = at
  BY <1>1 DEF own
<1>4. FileTypeOK' /\ Calls' /\ Sums'
  BY <1>2, <1>3 DEF FileInv, FileTypeOK, Calls, Sums
<1>5. Left' = Left /\ Beginning' = Beginning /\ End' = End
  BY <1>2, <1>3 DEF Left, Beginning, End, Header, Trailer
<1> QED BY <1>2, <1>3, <1>4, <1>5 DEF FileInv, Body

LEMMA FileNext ==
  ASSUME StreamInv, FileInv, [KNext]_kvars
  PROVE  FileInv'
<1>1. ASSUME NEW data \in Pieces, KFeed(data) PROVE FileInv'
  BY <1>1, KFeedKeeps
<1>2. CASE KFinish
  BY <1>2, KFinishKeeps
<1>3. CASE KRefused \/ kvars' = kvars
  BY <1>3, FileStutters DEF KRefused
<1>4. ASSUME NEW n \in Advances \cup {Len(out) - out_drained}, KAdvance(n)
      PROVE  FileInv'
  BY <1>4, KAdvanceKeeps
<1>5. CASE InnerStep
  BY <1>5, InnerStepKeeps
<1>6. CASE KFeedReturns
  BY <1>6, KFeedReturnsKeeps
<1>7. CASE KFinishReturns
  BY <1>7, KFinishReturnsKeeps
<1> QED BY <1>1, <1>2, <1>3, <1>4, <1>5, <1>6, <1>7 DEF KNext, KStep
-----------------------------------------------------------------------------
(* What the sink takes goes behind what it has.                            *)
LEMMA SinkGrows ==
  ASSUME SinkInv, outcome = "ok", NEW n \in Nat, sink' = sink \o Taken(n)
  PROVE  /\ Len(sink') = Len(sink) + n
         /\ sink' = [i \in 1 .. Len(sink') |-> i - 1]
<1> DEFINE k == Len(sink)
           s == sink
           t == Taken(n)
<1>1. /\ k \in Nat /\ Len(s) = k /\ taken = k
      /\ s = [i \in 1 .. k |-> i - 1]
  BY DEF SinkInv
<1>2. t = [i \in 1 .. n |-> k + i - 1]
  BY <1>1 DEF Taken
<1> HIDE DEF k, s, t
<1>3. s \in Seq(Int) /\ \A i \in 1 .. k : s[i] = i - 1
  BY <1>1, SeqDef
<1>4. t \in Seq(Int) /\ Len(t) = n /\ \A i \in 1 .. n : t[i] = k + i - 1
  BY <1>1, <1>2, SeqDef, LenProperties
<1> DEFINE all == s \o t
           r == [i \in 1 .. k + n |-> i - 1]
<1>5. /\ all \in Seq(Int) /\ Len(all) = k + n
      /\ \A i \in 1 .. k + n : all[i] = IF i <= k THEN s[i] ELSE t[i - k]
  <2>1. /\ s \o t \in Seq(Int) /\ Len(s \o t) = Len(s) + Len(t)
        /\ \A i \in 1 .. Len(s) + Len(t) : (s \o t)[i]
             = IF i <= Len(s) THEN s[i] ELSE t[i - Len(s)]
    BY <1>3, <1>4, ConcatProperties
  <2> QED BY <1>1, <1>4, <2>1
<1>6. /\ r \in Seq(Int) /\ Len(r) = k + n
      /\ \A i \in 1 .. k + n : r[i] = i - 1
  <2>1. k + n \in Nat
    BY <1>1
  <2> QED BY <2>1, SeqDef, LenProperties
<1> HIDE DEF all, r
<1>7. ASSUME NEW i \in 1 .. k + n PROVE all[i] = i - 1
  <2>1. CASE i <= k
    BY <1>1, <1>3, <1>5, <2>1
  <2>2. CASE i > k
    <3>1. i - k \in 1 .. n /\ k + (i - k) - 1 = i - 1 /\ ~ (i <= k)
      BY <1>1, <2>2
    <3> QED BY <1>4, <1>5, <3>1
  <2>3. i <= k \/ i > k
    BY <1>1
  <2> QED BY <2>1, <2>2, <2>3
<1>8. all = r
  BY <1>5, <1>6, <1>7, SeqEqual
<1>9. sink' = all
  BY DEF all, s, t
<1> QED BY <1>5, <1>8, <1>9 DEF k, r

LEMMA DrainedKeeps ==
  ASSUME StreamInv, SinkInv, Drained
  PROVE  SinkInv'
<1>1. /\ place # "idle" /\ pc = "idle" /\ place' = "idle" /\ Drain
      /\ outcome = "ok" /\ Len(sink) = taken
  BY DEF Drained, SinkInv
<1>2. EncTypeOK
  BY DEF StreamInv, IInv
<1>3. ASSUME sink' = sink \o Taken(output - drained),
             Advance(output - drained), outcome' = "ok"
      PROVE  SinkInv'
  <2>1. /\ output' = drained' /\ taken' = taken + (output - drained)
        /\ output - drained \in Nat /\ taken \in Nat /\ pc' = pc
    BY <1>2, <1>3, TakesAll
  <2>2. /\ Len(sink') = Len(sink) + (output - drained)
        /\ sink' = [i \in 1 .. Len(sink') |-> i - 1]
    BY <1>1, <1>3, <2>1, SinkGrows
  <2>3. Len(sink') = taken' /\ Len(sink') \in Nat
    BY <1>1, <2>1, <2>2
  <2> QED BY <1>1, <1>3, <2>1, <2>2, <2>3 DEF SinkInv
<1>4. ASSUME NEW n \in 0 .. (output - drained) - 1,
             sink' = sink \o Taken(n), outcome' = "err", UNCHANGED evars
      PROVE  SinkInv'
  <2>1. n \in Nat /\ Len(sink) \in Nat
    BY <1>2, Numbers DEF SinkInv
  <2>2. /\ Len(sink') = Len(sink) + n
        /\ sink' = [i \in 1 .. Len(sink') |-> i - 1]
    BY <1>1, <1>4, <2>1, SinkGrows
  <2>3. Len(sink') \in Nat /\ pc' = pc
    BY <1>4, <2>1, <2>2, Stutter
  <2> QED BY <1>1, <1>4, <2>2, <2>3 DEF SinkInv
<1> QED BY <1>1, <1>3, <1>4 DEF Drain

LEMMA SinkNext ==
  ASSUME StreamInv, SinkInv, [WNext]_wvars
  PROVE  SinkInv'
<1>1. ASSUME NEW buf \in Pieces, Write(buf) PROVE SinkInv'
  BY <1>1 DEF Write, MayCall, Feed, SinkInv
<1>2. CASE WFinish
  BY <1>2 DEF WFinish, MayCall, Finish, SinkInv
<1>3. CASE EncoderStep
  <2>1. pc # "idle" /\ taken' = taken
    BY <1>3, StepOfCall, OuterSame DEF EncoderStep
  <2> QED BY <1>3, <2>1 DEF EncoderStep, SinkInv
<1>4. CASE Drained
  BY <1>4, DrainedKeeps
<1>5. CASE Dropped \/ wvars' = wvars
  <2>1. /\ evars' = evars /\ place' = place /\ sink' = sink
        /\ outcome' = outcome
    BY <1>5 DEF Dropped, wvars
  <2> QED BY <2>1, Stutter, OuterSame DEF SinkInv
<1> QED BY <1>1, <1>2, <1>3, <1>4, <1>5 DEF WNext, WStep
-----------------------------------------------------------------------------
LEMMA UsersStart == UsersInit => UsersInv
<1> SUFFICES ASSUME UsersInit PROVE UsersInv
  OBVIOUS
<1>1. KInit /\ WInit
  BY DEF UsersInit
<1>2. StreamInv /\ EncTypeOK
  BY <1>1, InitStream DEF KInit, StreamInv, IInv
<1>3. /\ << >> \in Seq(FileByte) /\ Len(<< >>) = 0
      /\ << >> \o << >> = << >>
  BY EmptySeq, ConcatEmptySeq
<1>4. /\ pc = "idle" /\ output = 0 /\ drained = 0 /\ finishing = FALSE
      /\ fed = << >> /\ taken = 0 /\ call = "new"
  BY <1>1 DEF KInit, EInit
<1>5. FileTypeOK /\ Calls
  <2>1. /\ format \in {"gzip", "zlib"} /\ out = << >> /\ out_drained = 0
        /\ sent = << >> /\ header_emitted = FALSE /\ size = 0
        /\ ended = FALSE /\ at = "idle"
    BY <1>1 DEF KInit
  <2>2. FileTypeOK
    <3>1. out_drained \in 0 .. Len(out) /\ size \in Nat
      BY <1>3, <2>1
    <3>2. header_emitted \in BOOLEAN /\ ended \in BOOLEAN
      BY <2>1
    <3> QED BY <1>3, <2>1, <3>1, <3>2 DEF FileTypeOK
  <2> QED BY <1>4, <2>1, <2>2 DEF Calls
<1>6. Sums
  <2>1. 0 % SIZE_WRAP = 0
    <3>1. (0 + SIZE_WRAP * 0) % SIZE_WRAP = 0
      BY ContainerEncoderAssumption, Remainder
    <3>2. 0 + SIZE_WRAP * 0 = 0
      BY ContainerEncoderAssumption
    <3> QED BY <3>1, <3>2
  <2> QED BY <1>1, <1>3, <1>4, <2>1 DEF KInit, Sums
<1>7. sent \o Left = (Beginning \o Body(taken)) \o End
  <2>1. sent = << >> /\ Left = << >>
    BY <1>1, <1>3, SubSeqEmpty DEF KInit, Left
  <2>2. Body(taken) = << >>
    <3>1. Body(0) \in Seq(FileByte) /\ Len(Body(0)) = 0
      BY BodyProperties
    <3> QED BY <1>4, <3>1, EmptySeq
  <2>3. Beginning = << >> /\ End = << >>
    BY <1>1 DEF KInit, Beginning, End
  <2> QED BY <1>3, <2>1, <2>2, <2>3
<1>8. SinkInv
  <2>1. place = "idle" /\ sink = << >> /\ outcome = "ok"
    BY <1>1 DEF WInit
  <2>2. << >> = [i \in 1 .. 0 |-> i - 1]
    OBVIOUS
  <2> QED BY <1>3, <1>4, <2>1, <2>2 DEF SinkInv
<1> QED BY <1>2, <1>5, <1>6, <1>7, <1>8 DEF UsersInv, FileInv

LEMMA UsersStep == UsersInv /\ [UsersNext]_uservars => UsersInv'
<1> SUFFICES ASSUME UsersInv, [UsersNext]_uservars PROVE UsersInv'
  OBVIOUS
<1>1. StreamInv /\ StreamInv'
  BY StepsOfTheEncoder, NextStream DEF UsersInv
<1>2. CASE Containing
  <2>1. user = "container" /\ user' = user /\ KNext
    BY <1>2 DEF Containing
  <2> QED BY <1>1, <2>1, FileNext DEF UsersInv
<1>3. CASE Writing
  <2>1. user = "writer" /\ user' = user /\ WNext
    BY <1>3 DEF Writing
  <2> QED BY <1>1, <2>1, SinkNext DEF UsersInv
<1>4. CASE uservars' = uservars
  <2>1. kvars' = kvars /\ wvars' = wvars /\ user' = user
    BY <1>4 DEF uservars
  <2> QED BY <1>1, <2>1, FileNext, SinkNext DEF UsersInv
<1> QED BY <1>2, <1>3, <1>4 DEF UsersNext

LEMMA UsersInvariance == UsersSpec => []UsersInv
  BY UsersStart, UsersStep, PTL DEF UsersSpec

(* However the caller feeds and takes bytes: between two calls what it has *)
(* taken and what is in the output is one header, the bytes of the stream  *)
(* in order and, after finish, the trailer with the checksum and the size, *)
(* modulo SIZE_WRAP, of all that was fed, and the stream is the whole one. *)
THEOREM ContainersAreWhole == UsersSpec => []FilesAreWhole
<1>1. ASSUME UsersInv, user = "container", at = "idle" PROVE FileIsWhole
  <2>1. FileInv /\ OneFinalBlock
    BY <1>1, StreamEnds DEF UsersInv
  <2>2. /\ pc = "idle" /\ output = drained /\ (ended <=> finishing)
        /\ header_emitted <=> call # "new"
    BY <1>1, <2>1 DEF FileInv, Calls
  <2>3. ended => meaning = fed /\ bit_count = 0
    BY <2>1, <2>2 DEF OneFinalBlock
  <2>4. sent \o SubSeq(out, out_drained + 1, Len(out))
          = (IF call # "new" THEN Header ELSE << >>)
              \o [i \in 1 .. taken |-> <<"body", i - 1>>]
              \o (IF ended THEN Trailer(fed, Len(fed) % SIZE_WRAP) ELSE << >>)
    BY <2>1, <2>2 DEF FileInv, Left, Beginning, Body, End
  <2> QED BY <2>2, <2>3, <2>4 DEF FileIsWhole
<1>2. UsersInv => FilesAreWhole
  BY <1>1 DEF FilesAreWhole, FileIsWhole
<1> QED BY <1>2, UsersInvariance, PTL

(* Whatever part of its output a failing write leaves in the sink, the     *)
(* sink holds the beginning of the stream, each byte once; after a call    *)
(* that succeeds nothing is missing, and after a finish that does not even *)
(* the last bit of the final block.                                        *)
THEOREM SinksHoldTheStream == UsersSpec => []SinksAreStreams
<1>1. ASSUME UsersInv, user = "writer" PROVE SinkIsStream
  <2>1. SinkInv /\ OneFinalBlock /\ EncTypeOK /\ BitsTile
    BY <1>1, StreamEnds DEF UsersInv, StreamInv, IInv
  <2>2. ASSUME place = "idle", outcome = "ok"
        PROVE  /\ 8 * Len(sink) = Position(0)
               /\ finishing => Position(0) = written[Len(written)].at
                                               + written[Len(written)].width
    <3>1. pc = "idle" /\ Len(sink) = taken /\ output = drained
      BY <2>1, <2>2 DEF SinkInv
    <3>2. taken \in Nat /\ output \in Nat
      BY <2>1, Numbers
    <3>3. taken - output + output = taken
      BY <3>2
    <3>4. 8 * Len(sink) = Position(0)
      BY <3>1, <3>2, <3>3 DEF Position
    <3>5. ASSUME finishing
          PROVE  Position(0) = written[Len(written)].at
                                 + written[Len(written)].width
      <4>1. bit_count = 0 /\ HasFinal
        BY <1>1, <2>1, <3>1, <3>5, StreamEnds DEF UsersInv, OneFinalBlock
      <4>2. written # << >>
        BY <4>1, EmptySeq DEF HasFinal
      <4>3. BitsBehind = 0
        BY <3>1, <4>1 DEF BitsBehind
      <4> QED BY <2>1, <4>2, <4>3 DEF BitsTile
    <3> QED BY <3>4, <3>5
  <2>3. sink = [i \in 1 .. Len(sink) |-> i - 1]
    BY <2>1 DEF SinkInv
  <2> QED BY <2>1, <2>2, <2>3 DEF SinkIsStream
<1>2. UsersInv => SinksAreStreams
  BY <1>1 DEF SinksAreStreams
<1> QED BY <1>2, UsersInvariance, PTL
=============================================================================
