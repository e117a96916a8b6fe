--------------------------- MODULE DecoderProofs ---------------------------
(***************************************************************************)
(* Proofs, for every value of the constants, that the streaming decoder    *)
(* keeps its types, its window, the trailer behind the stream and its      *)
(* memory bound, that it implements Inflate, and that its compaction is    *)
(* rare.                                                                   *)
(*                                                                         *)
(* The heart of the inductive invariant is how many bits the reader may    *)
(* have loaded and not delivered: less than a byte at the boundary of      *)
(* every element, except between two symbols, where the look-ahead of the  *)
(* literal table may have loaded that many more.  END_OF_BLOCK, being as   *)
(* wide as that look-ahead, gives them back.                               *)
(***************************************************************************)
EXTENDS CompactionCost, DataLemmas, SequenceTheorems, TLAPS

Readers == [byte_index : Nat, bit_count : Nat]

(* How many undelivered bits a reader may hold in a state.                 *)
BitLimit(s) == IF s.kind = "SymbolLoop" THEN s.literal.peek + 7
               ELSE IF s.kind = "Transient" THEN 22
               ELSE IF s.kind = "StoredBody" THEN 0 ELSE 7

-----------------------------------------------------------------------------
LEMMA UpdateReader ==
  ASSUME NEW r \in Readers, NEW x \in Nat, NEW y \in Nat
  PROVE  [r EXCEPT !.byte_index = x, !.bit_count = y]
           = [byte_index |-> x, bit_count |-> y]
<1>1. [r EXCEPT !.byte_index = x] = [byte_index |-> x, bit_count |-> r.bit_count]
  BY DEF Readers
<1>2. [r EXCEPT !.byte_index = x, !.bit_count = y]
        = [[r EXCEPT !.byte_index = x] EXCEPT !.bit_count = y]
  OBVIOUS
<1>3. [[byte_index |-> x, bit_count |-> r.bit_count] EXCEPT !.bit_count = y]
        = [byte_index |-> x, bit_count |-> y]
  OBVIOUS
<1> QED BY <1>1, <1>2, <1>3

(* The record a peek makes of a reader.                                    *)
LEMMA PeekBitsRecord ==
  ASSUME NEW r \in Readers, NEW n \in Nat
  PROVE  peek_bits(r, n) =
           [byte_index |-> r.byte_index + bytes_for(r.bit_count, n),
            bit_count  |-> r.bit_count + 8 * bytes_for(r.bit_count, n)]
<1> DEFINE b == bytes_for(r.bit_count, n)
<1>0. r.byte_index \in Nat /\ r.bit_count \in Nat
      /\ r = [byte_index |-> r.byte_index, bit_count |-> r.bit_count]
  BY DEF Readers
<1>3. b \in Nat
  BY <1>0 DEF bytes_for
<1>1. peek_bits(r, n) = [r EXCEPT !.byte_index = r.byte_index + b,
                                  !.bit_count  = r.bit_count + 8 * b]
  BY DEF peek_bits
<1> HIDE DEF b
<1>2. [r EXCEPT !.byte_index = r.byte_index + b,
                !.bit_count  = r.bit_count + 8 * b]
        = [byte_index |-> r.byte_index + b, bit_count |-> r.bit_count + 8 * b]
  <2>1. r.byte_index + b \in Nat /\ r.bit_count + 8 * b \in Nat
    BY <1>0, <1>3
  <2> QED BY <2>1, UpdateReader
<1> QED BY <1>1, <1>2 DEF b

(* The bit reader: a peek of bits that are available loads whole bytes of  *)
(* the input, moves no position, and loads less than a byte too many.      *)
LEMMA PeekBits ==
  ASSUME input \in Nat, NEW r \in Readers, r.byte_index <= input,
         NEW n \in Nat, n <= available_bits(r)
  PROVE  LET p == peek_bits(r, n) IN
         /\ p \in Readers
         /\ p.byte_index <= input
         /\ n <= p.bit_count
         /\ p.bit_count <= r.bit_count \/ p.bit_count <= n + 7
         /\ 8 * p.byte_index - p.bit_count = 8 * r.byte_index - r.bit_count
         /\ available_bits(p) = available_bits(r)
<1> DEFINE b == bytes_for(r.bit_count, n)
<1>1. /\ r.bit_count \in Nat /\ r.byte_index \in Nat
      /\ n <= r.bit_count + 8 * (input - r.byte_index)
  BY DEF Readers, available_bits
<1>2. /\ b \in Nat /\ r.byte_index + b <= input
      /\ n <= r.bit_count + 8 * b
      /\ b = 0 \/ r.bit_count + 8 * b <= n + 7
  BY <1>1, SMT DEF bytes_for
<1>3. peek_bits(r, n) = [byte_index |-> r.byte_index + b,
                         bit_count  |-> r.bit_count + 8 * b]
  BY PeekBitsRecord
<1> HIDE DEF b
<1> QED
  BY <1>1, <1>2, <1>3, SMT DEF available_bits, Readers

(* Delivering n available bits moves the position by n.                    *)
LEMMA ReadReader ==
  ASSUME input \in Nat, NEW r \in Readers, r.byte_index <= input,
         NEW n \in Nat, n <= available_bits(r)
  PROVE  LET p == read_bits(r, n) IN
         /\ p \in Readers
         /\ p.byte_index <= input
         /\ p.bit_count <= r.bit_count - n \/ p.bit_count <= 7
         /\ 8 * p.byte_index - p.bit_count = 8 * r.byte_index - r.bit_count + n
         /\ available_bits(p) = available_bits(r) - n
<1> DEFINE q == peek_bits(r, n)
<1>1. /\ q \in Readers
      /\ q.byte_index <= input
      /\ n <= q.bit_count
      /\ q.bit_count <= r.bit_count \/ q.bit_count <= n + 7
      /\ 8 * q.byte_index - q.bit_count = 8 * r.byte_index - r.bit_count
      /\ available_bits(q) = available_bits(r)
  BY PeekBits
<1>2. read_bits(r, n) = [byte_index |-> q.byte_index, bit_count |-> q.bit_count - n]
  BY <1>1 DEF read_bits, skip_bits, Readers
<1> HIDE DEF q
<1> QED
  BY <1>1, <1>2, SMT DEF Readers, available_bits

(* Decoding a code of w bits with a table that looks ahead by table.peek.  *)
LEMMA Decode ==
  ASSUME input \in Nat, NEW r \in Readers, r.byte_index <= input,
         NEW table, table.peek \in Nat, NEW w \in Nat,
         peeked(table, w) <= available_bits(r)
  PROVE  LET p == decode(r, table, w) IN
         /\ p \in Readers
         /\ p.byte_index <= input
         /\ \/ p.bit_count <= r.bit_count - w
            \/ p.bit_count <= 7
            \/ p.bit_count <= table.peek + 7 - w
         /\ 8 * p.byte_index - p.bit_count = 8 * r.byte_index - r.bit_count + w
         /\ available_bits(p) = available_bits(r) - w
<1> DEFINE n == peeked(table, w)
           q == peek_bits(r, n)
<1>0. n \in Nat /\ w <= n /\ table.peek <= n /\ (n = w \/ n = table.peek)
  BY DEF peeked, Max2
<1>1. /\ q \in Readers
      /\ q.byte_index <= input
      /\ n <= q.bit_count
      /\ q.bit_count <= r.bit_count \/ q.bit_count <= n + 7
      /\ 8 * q.byte_index - q.bit_count = 8 * r.byte_index - r.bit_count
      /\ available_bits(q) = available_bits(r)
  BY <1>0, PeekBits
<1>2. decode(r, table, w) = skip_bits(q, w)
  BY DEF decode
<1> HIDE DEF q, n
<1>3. decode(r, table, w) = [byte_index |-> q.byte_index, bit_count |-> q.bit_count - w]
  BY <1>1, <1>2 DEF skip_bits, Readers
<1> QED
  BY <1>0, <1>1, <1>3, SMT DEF Readers, available_bits
-----------------------------------------------------------------------------
(* The inductive invariant.  Of the tables in force: the look-ahead is the *)
(* width of END_OF_BLOCK if it has a code, a distance never looks further, *)
(* and a code length is looked for bit by bit.                             *)
TablesOK ==
  /\ state.kind = "DynamicCodeLengths" => state.bitwidth_decoder.peek = 1
  /\ state.kind = "SymbolLoop" =>
       /\ state.distance.peek <= state.literal.peek
       /\ state.literal.eob > 0 => state.literal.peek = state.literal.eob

BitsOK ==
  /\ reader.bit_count <= BitLimit(state)
  /\ reader.bit_count <= 8 * (fed - input + reader.byte_index)
  /\ pending <= 8 * (fed - input)
  /\ pc # "drive" => reader = new_seeded(pending)
  /\ finished <=> state.kind = "Finished"
  /\ finished => reader.byte_index = 0

IInv == TypeOK /\ TablesOK /\ BitsOK

(* A state record of a kind has that kind's fields.                        *)
LEMMA StateFamily ==
  ASSUME NEW s \in DecodeStates
  PROVE  /\ s.kind = "SymbolLoop" => s \in SymbolStates
         /\ s.kind = "DynamicCodeLengths" => s \in LengthsStates
         /\ s.kind = "DynamicBitwidthTable" => s \in BitwidthStates
         /\ s.kind = "StoredBody" => s \in StoredStates
         /\ s.kind \in {"StoredAlignAndLen", "DynamicHeader"} =>
              s \in BeginStates
<1>1. s \in PlainStates =>
        s.kind \in {"BlockHeader", "Finished", "Transient"}
  BY DEF PlainStates
<1>2. s \in BeginStates =>
        s.kind \in {"StoredAlignAndLen", "DynamicHeader"}
  BY DEF BeginStates
<1>3. s \in StoredStates => s.kind = "StoredBody"
  BY DEF StoredStates
<1>4. s \in BitwidthStates => s.kind = "DynamicBitwidthTable"
  BY DEF BitwidthStates
<1>5. s \in LengthsStates => s.kind = "DynamicCodeLengths"
  BY DEF LengthsStates
<1>6. s \in SymbolStates => s.kind = "SymbolLoop"
  BY DEF SymbolStates
<1> QED BY <1>1, <1>2, <1>3, <1>4, <1>5, <1>6 DEF DecodeStates

LEMMA BitLimitBound ==
  ASSUME NEW s \in DecodeStates
  PROVE  BitLimit(s) \in 0 .. 22
<1>1. s.kind = "SymbolLoop" => s.literal.peek \in 1 .. 15
  BY StateFamily DEF SymbolStates, HuffmanDecoders, MAX_BITS
<1> QED BY <1>1 DEF BitLimit

LEMMA BlockHeaderState == [kind |-> "BlockHeader"] \in DecodeStates
BY DEF DecodeStates, PlainStates
LEMMA FinishedState == [kind |-> "Finished"] \in DecodeStates
BY DEF DecodeStates, PlainStates
LEMMA TransientState == [kind |-> "Transient"] \in DecodeStates
BY DEF DecodeStates, PlainStates
-----------------------------------------------------------------------------
(* The outcomes of a step keep the invariant.                              *)
StepFrame == UNCHANGED <<id, fed, delivered, drained>>

(* A reader a step may end with: inside the input, at a position of the    *)
(* stream.                                                                 *)
GoodReader(r) == /\ r \in Readers
                 /\ r.byte_index <= input
                 /\ r.bit_count <= 8 * (fed - input + r.byte_index)

LEMMA ReaderType ==
  ASSUME NEW m \in Nat, NEW r
  PROVE  r \in [byte_index : 0 .. m, bit_count : 0 .. 22]
           <=> r \in Readers /\ r.byte_index <= m /\ r.bit_count <= 22
BY DEF Readers

LEMMA CurrentReader ==
  ASSUME IInv
  PROVE  /\ GoodReader(reader)
         /\ id \in StreamIds /\ S.size \in Nat
         /\ fed \in Nat /\ input \in Nat /\ pending \in Nat
         /\ input <= fed /\ fed <= S.size
         /\ Pos \in BitsOf(S.size)
         /\ Pos = 8 * (fed - input + reader.byte_index) - reader.bit_count
<1>1. id \in StreamIds /\ S.size \in Nat
  BY StreamsAssumption DEF IInv, TypeOK, S
<1>2. /\ fed \in Nat /\ input \in Nat /\ pending \in Nat
      /\ input <= fed /\ fed <= S.size
  BY <1>1 DEF IInv, TypeOK
<1>3. GoodReader(reader)
  BY <1>2, ReaderType DEF IInv, TypeOK, BitsOK, GoodReader
<1> QED
  BY <1>1, <1>2, <1>3 DEF GoodReader, Readers, Pos, PosOf, BytePos, BitsOf

LEMMA ProgressInv ==
  ASSUME IInv, StepFrame, pc = "drive",
         NEW r, GoodReader(r), Progress(r), r.bit_count <= BitLimit(state'),
         state' \in DecodeStates, TablesOK', ~ finished,
         state'.kind # "Finished",
         output' \in Seq(Byte), Len(output) <= Len(output')
  PROVE  IInv'
<1>1. BitLimit(state') \in 0 .. 22
  BY BitLimitBound
<1>0. r.bit_count \in Nat /\ r.bit_count <= 22
  <2> DEFINE limit == BitLimit(state')
             count == r.bit_count
  <2>1. count \in Nat
    BY DEF GoodReader, Readers
  <2>2. limit \in 0 .. 22 /\ count <= limit
    BY <1>1
  <2> HIDE DEF limit, count
  <2>3. count <= 22
    BY <2>1, <2>2
  <2> QED BY <2>1, <2>3 DEF count
<1> USE DEF StepFrame, Progress
<1>2. reader' \in [byte_index : 0 .. input', bit_count : 0 .. 22]
  <2>1. input' \in Nat /\ input' = input BY CurrentReader
  <2> QED BY <2>1, <1>0, ReaderType DEF GoodReader
<1>3. S' = S /\ DecodeStates' = DecodeStates
  BY DEF S, DecodeStates, PlainStates, BeginStates, StoredStates,
         BitwidthStates, LengthsStates, SymbolStates
<1>4. TypeOK'
  BY <1>2, <1>3 DEF IInv, TypeOK
<1>5. BitsOK'
  BY DEF IInv, BitsOK, GoodReader, Readers
<1> QED BY <1>4, <1>5 DEF IInv

LEMMA SameStates ==
  ASSUME UNCHANGED id
  PROVE  S' = S /\ DecodeStates' = DecodeStates
BY DEF S, DecodeStates, PlainStates, BeginStates, StoredStates,
       BitwidthStates, LengthsStates, SymbolStates

(* A commit leaves the reader where the next drive takes it up.            *)
LEMMA CommitReader ==
  ASSUME IInv, StepFrame, NEW r, GoodReader(r), r.bit_count <= 22, Commit(r)
  PROVE  /\ input' \in 0 .. fed'
         /\ pending' \in 0 .. 22
         /\ reader' \in [byte_index : 0 .. input', bit_count : 0 .. 22]
         /\ pending' <= 8 * (fed' - input')
         /\ reader'.bit_count <= 8 * (fed' - input' + reader'.byte_index)
         /\ reader' = new_seeded(pending')
         /\ reader'.byte_index = 0
         /\ reader'.bit_count = r.bit_count
         /\ pc' \in {"idle"}
         /\ result' \in {"ok"}
<1>1. /\ fed \in Nat /\ input \in Nat /\ input <= fed
      /\ r.byte_index \in Nat /\ r.bit_count \in Nat
      /\ r.byte_index <= input
      /\ r.bit_count <= 8 * (fed - input + r.byte_index)
  BY CurrentReader DEF GoodReader, Readers
<1>2. /\ fed' = fed /\ input' = input - r.byte_index
      /\ pending' = r.bit_count
      /\ reader' = [byte_index |-> 0, bit_count |-> r.bit_count]
      /\ pc' = "idle" /\ result' = "ok"
  BY DEF Commit, StepFrame, new_seeded
<1>3. input' \in Nat /\ reader' \in Readers
  BY <1>1, <1>2 DEF Readers
<1>4. reader' \in [byte_index : 0 .. input', bit_count : 0 .. 22]
  BY <1>1, <1>2, <1>3, ReaderType
<1> QED BY <1>1, <1>2, <1>4 DEF new_seeded

LEMMA LeaveInv ==
  ASSUME IInv, StepFrame, Commit(reader), UNCHANGED <<state, output, finished>>
  PROVE  IInv'
<1>1. GoodReader(reader) /\ reader.bit_count <= 22
  BY CurrentReader, ReaderType DEF IInv, TypeOK
<1>2. S' = S /\ DecodeStates' = DecodeStates
  BY SameStates DEF StepFrame
<1>3. TypeOK'
  BY <1>1, <1>2, CommitReader DEF IInv, TypeOK, StepFrame
<1>4. TablesOK'
  BY DEF IInv, TablesOK
<1>5. BitsOK'
  BY <1>1, CommitReader DEF IInv, BitsOK, BitLimit
<1> QED BY <1>3, <1>4, <1>5 DEF IInv

LEMMA FinishedInv ==
  ASSUME IInv, StepFrame, NEW r, GoodReader(r), r.bit_count <= 7,
         Finished(r), UNCHANGED output
  PROVE  IInv'
<1>0. r.bit_count \in Nat BY DEF GoodReader, Readers
<1>1. Commit(r) /\ state' = [kind |-> "Finished"] /\ finished'
  BY DEF Finished
<1>2. S' = S /\ DecodeStates' = DecodeStates
  BY SameStates DEF StepFrame
<1>3. TypeOK'
  BY <1>0, <1>1, <1>2, CommitReader, FinishedState
     DEF IInv, TypeOK, StepFrame, Finished
<1>4. TablesOK'
  BY <1>1 DEF TablesOK
<1>5. BitsOK'
  BY <1>0, <1>1, CommitReader DEF BitsOK, BitLimit
<1> QED BY <1>3, <1>4, <1>5 DEF IInv

LEMMA ErrorInv ==
  ASSUME IInv, StepFrame, ~ finished, Error
  PROVE  IInv'
<1>1. S' = S /\ DecodeStates' = DecodeStates
  BY SameStates DEF StepFrame
<1>2. /\ state' = [kind |-> "Transient"]
      /\ reader' = [byte_index |-> 0, bit_count |-> pending]
      /\ pc' = "idle" /\ result' = "err"
      /\ UNCHANGED <<input, pending, output, finished>>
  BY DEF Error, new_seeded
<1>3. /\ input \in Nat /\ pending \in 0 .. 22
      /\ pending <= 8 * (fed - input)
  BY CurrentReader DEF IInv, TypeOK, BitsOK
<1>4. reader' \in [byte_index : 0 .. input', bit_count : 0 .. 22]
  BY <1>2, <1>3, ReaderType DEF Readers
<1>5. TypeOK'
  BY <1>1, <1>2, <1>4, TransientState DEF IInv, TypeOK, StepFrame
<1>6. TablesOK'
  BY <1>2 DEF TablesOK
<1>7. BitsOK'
  BY <1>2, <1>3, CurrentReader DEF BitsOK, BitLimit, new_seeded, StepFrame
<1> QED BY <1>5, <1>6, <1>7 DEF IInv
-----------------------------------------------------------------------------
(* The steps.                                                              *)
LEMMA Lookups ==
  ASSUME IInv, NEW p \in BitsOf(S.size)
  PROVE  /\ S.header[p] \in Headers   /\ S.lens[p] \in LenWords
         /\ S.byte[p] \in Byte        /\ S.dynamic[p] \in Dynamics
         /\ S.rle[p] \in RleElements  /\ S.symbol[p] \in Symbols
BY CurrentReader, StreamsAssumption DEF S

(* What reading n bits leaves of the current reader.                       *)
LEMMA ReadBits ==
  ASSUME IInv, NEW r, GoodReader(r), NEW n \in Nat, n <= available_bits(r)
  PROVE  LET p == read_bits(r, n) IN
         /\ GoodReader(p)
         /\ p.bit_count <= r.bit_count - n \/ p.bit_count <= 7
<1>1. input \in Nat /\ fed \in Nat /\ input <= fed
  BY CurrentReader
<1>2. r \in Readers /\ r.byte_index <= input
  BY DEF GoodReader
<1> DEFINE p == read_bits(r, n)
<1>3. /\ p \in Readers
      /\ p.byte_index <= input
      /\ p.bit_count <= r.bit_count - n \/ p.bit_count <= 7
      /\ 8 * p.byte_index - p.bit_count = 8 * r.byte_index - r.bit_count + n
  BY <1>1, <1>2, ReadReader
<1> HIDE DEF p
<1>4. p.bit_count <= 8 * (fed - input + p.byte_index)
  BY <1>1, <1>2, <1>3 DEF GoodReader, Readers
<1> QED BY <1>3, <1>4 DEF GoodReader, p

LEMMA StepBlockHeaderInv ==
  ASSUME IInv, StepFrame, StepBlockHeader(S)
  PROVE  IInv'
<1> DEFINE h == S.header[Pos]
           r == read_bits(reader, 3)
<1>1. pc = "drive" /\ state.kind = "BlockHeader" /\ ~ finished
  BY DEF StepBlockHeader, InState, IInv, BitsOK
<1>2. h \in Headers
  BY CurrentReader, Lookups
<1>3. CASE available_bits(reader) < 3 /\ NeedMoreBytes
  BY <1>3, LeaveInv DEF NeedMoreBytes
<1>4. CASE Error
  BY <1>1, <1>4, ErrorInv
<1>5. CASE /\ available_bits(reader) >= 3
           /\ Progress(r) /\ UNCHANGED output
           /\ \/ state' = [kind |-> "StoredAlignAndLen", is_final |-> h.is_final]
              \/ state' = [kind |-> "SymbolLoop", is_final |-> h.is_final,
                           literal |-> FixedLiteral, distance |-> FixedDistance]
              \/ state' = [kind |-> "DynamicHeader", is_final |-> h.is_final]
  <2>1. reader.bit_count <= 7 /\ available_bits(reader) \in Nat
    BY <1>1, CurrentReader
       DEF IInv, BitsOK, BitLimit, available_bits, GoodReader, Readers
  <2>2. GoodReader(r) /\ r.bit_count <= 7
    BY <1>5, <2>1, CurrentReader, ReadBits DEF GoodReader, Readers
  <2>3. output \in Seq(Byte) /\ output' = output
    BY <1>5 DEF IInv, TypeOK
  <2> HIDE DEF r, h
  <2>4. CASE state' = [kind |-> "StoredAlignAndLen", is_final |-> h.is_final]
    <3>1. state' \in DecodeStates /\ state'.kind = "StoredAlignAndLen"
      BY <1>2, <2>4 DEF DecodeStates, BeginStates, Headers
    <3>2. TablesOK' /\ BitLimit(state') = 7
      BY <3>1 DEF TablesOK, BitLimit
    <3> QED BY <1>1, <1>5, <2>2, <2>3, <3>1, <3>2, ProgressInv
  <2>5. CASE state' = [kind |-> "DynamicHeader", is_final |-> h.is_final]
    <3>1. state' \in DecodeStates /\ state'.kind = "DynamicHeader"
      BY <1>2, <2>5 DEF DecodeStates, BeginStates, Headers
    <3>2. TablesOK' /\ BitLimit(state') = 7
      BY <3>1 DEF TablesOK, BitLimit
    <3> QED BY <1>1, <1>5, <2>2, <2>3, <3>1, <3>2, ProgressInv
  <2>6. CASE state' = [kind |-> "SymbolLoop", is_final |-> h.is_final,
                       literal |-> FixedLiteral, distance |-> FixedDistance]
    <3>1. /\ FixedLiteral = [max |-> 9, peek |-> 7, eob |-> 7]
          /\ FixedDistance = [max |-> 5, peek |-> 5, eob |-> 0]
      BY DEF FixedLiteral, FixedDistance, from_code_lengths, Min2, Max2,
             fixed_literal_code_lengths, fixed_distance_code_lengths
    <3>2. FixedLiteral \in HuffmanDecoders /\ FixedDistance \in HuffmanDecoders
      BY <3>1 DEF HuffmanDecoders, MAX_BITS
    <3>3. state' \in DecodeStates /\ state'.kind = "SymbolLoop"
      BY <1>2, <2>6, <3>2 DEF DecodeStates, SymbolStates, Headers
    <3>4. TablesOK' /\ BitLimit(state') = 14
      BY <2>6, <3>1 DEF TablesOK, BitLimit
    <3> QED BY <1>1, <1>5, <2>2, <2>3, <3>3, <3>4, ProgressInv
            DEF GoodReader, Readers
  <2> QED BY <1>5, <2>4, <2>5, <2>6
<1> QED
  BY <1>3, <1>4, <1>5 DEF StepBlockHeader

LEMMA StepStoredAlignAndLenInv ==
  ASSUME IInv, StepFrame, StepStoredAlignAndLen(S)
  PROVE  IInv'
<1> DEFINE aligned == align_to_byte(reader)
           word    == S.lens[BytePos(unwound(aligned))]
           r       == read_bytes(aligned, 4)
<1>1. /\ pc = "drive" /\ state.kind = "StoredAlignAndLen" /\ ~ finished
      /\ state.is_final \in BOOLEAN
  BY StateFamily DEF StepStoredAlignAndLen, InState, IInv, BitsOK, TypeOK,
                     BeginStates
<1>2. CASE (available_bits(reader) < (reader.bit_count % 8) + 32) /\ NeedMoreBytes
  BY <1>2, LeaveInv DEF NeedMoreBytes
<1>3. CASE Error
  BY <1>1, <1>3, ErrorInv
<1>4. CASE /\ available_bits(reader) >= (reader.bit_count % 8) + 32
           /\ state' = [kind |-> "StoredBody", is_final |-> state.is_final,
                        remaining |-> word.len]
           /\ Progress(r) /\ UNCHANGED output
  <2>1. /\ reader.bit_count \in 0 .. 7
        /\ reader.byte_index \in Nat /\ reader.byte_index <= input
        /\ fed \in Nat /\ input \in Nat /\ input <= fed /\ fed <= S.size
        /\ S.size \in Nat
    <3>1. /\ reader \in Readers /\ reader.byte_index <= input
          /\ fed \in Nat /\ input \in Nat /\ input <= fed /\ fed <= S.size
          /\ S.size \in Nat
      BY CurrentReader DEF GoodReader
    <3>2. reader.bit_count <= 7
      BY <1>1 DEF IInv, BitsOK, BitLimit
    <3> QED BY <3>1, <3>2 DEF Readers
  <2>2. reader.bit_count % 8 = reader.bit_count
    BY <2>1
  <2>3. aligned = [byte_index |-> reader.byte_index, bit_count |-> 0]
    BY <2>1, <2>2 DEF align_to_byte
  <2>4. unwound(aligned) = reader.byte_index
    BY <2>1, <2>3 DEF unwound
  <2>5. reader.byte_index + 4 <= input
    BY <1>4, <2>1, <2>2 DEF available_bits
  <2>6. r = [byte_index |-> reader.byte_index + 4, bit_count |-> 0]
    BY <2>4 DEF read_bytes
  <2>7. GoodReader(r) /\ r.bit_count = 0
    BY <2>1, <2>5, <2>6 DEF GoodReader, Readers
  <2>8. word.len \in 0 .. U16_MAX
    <3>1. BytePos(unwound(aligned)) \in BitsOf(S.size)
      BY <2>1, <2>4 DEF BytePos, BitsOf
    <3> QED BY <3>1, Lookups DEF LenWords
  <2>9. output \in Seq(Byte) /\ output' = output
    BY <1>4 DEF IInv, TypeOK
  <2> HIDE DEF r, word
  <2>10. state' \in DecodeStates /\ state'.kind = "StoredBody"
    BY <1>1, <1>4, <2>8 DEF DecodeStates, StoredStates
  <2>11. TablesOK' /\ BitLimit(state') = 0
    BY <2>10 DEF TablesOK, BitLimit
  <2> QED BY <1>1, <1>4, <2>7, <2>9, <2>10, <2>11, ProgressInv
<1> QED
  BY <1>2, <1>3, <1>4 DEF StepStoredAlignAndLen

(* The end of a block, when less than a byte is left undelivered.          *)
LEMMA EndBlockInv ==
  ASSUME IInv, StepFrame, pc = "drive", ~ finished, NEW r, GoodReader(r),
         r.bit_count <= 7, NEW b, EndBlock(r, b), UNCHANGED output
  PROVE  IInv'
<1>1. CASE Finished(r)
  BY <1>1, FinishedInv
<1>2. CASE state' = [kind |-> "BlockHeader"] /\ Progress(r)
  <2>1. state' \in DecodeStates /\ state'.kind = "BlockHeader"
    BY <1>2, BlockHeaderState
  <2>2. TablesOK' /\ BitLimit(state') = 7
    BY <2>1 DEF TablesOK, BitLimit
  <2>3. output \in Seq(Byte) /\ output' = output
    BY DEF IInv, TypeOK
  <2> QED BY <1>2, <2>1, <2>2, <2>3, ProgressInv
<1> QED BY <1>1, <1>2 DEF EndBlock

LEMMA StepStoredBodyInv ==
  ASSUME IInv, StepFrame, StepStoredBody(S)
  PROVE  IInv'
<1> DEFINE take == Min2(available_bits(reader) \div 8, state.remaining)
           from == unwound(reader)
           more == [k \in 1 .. take |-> S.byte[BytePos(from + k - 1)]]
           r    == read_bytes(reader, take)
<1>1. /\ pc = "drive" /\ state.kind = "StoredBody" /\ ~ finished
      /\ state \in StoredStates
  BY StateFamily DEF StepStoredBody, InState, IInv, BitsOK, TypeOK
<1>2. /\ reader.bit_count = 0
      /\ reader.byte_index \in Nat /\ reader.byte_index <= input
      /\ fed \in Nat /\ input \in Nat /\ input <= fed /\ fed <= S.size
      /\ S.size \in Nat /\ GoodReader(reader)
  BY <1>1, CurrentReader DEF IInv, BitsOK, BitLimit, GoodReader, Readers
<1>3. CASE state.remaining > 0 /\ available_bits(reader) \div 8 = 0 /\ NeedMoreBytes
  BY <1>3, LeaveInv DEF NeedMoreBytes
<1>4. CASE EndBlock(reader, state.is_final) /\ UNCHANGED output
  BY <1>1, <1>2, <1>4, EndBlockInv
<1>5. CASE /\ take > 0
           /\ output' = output \o more
           /\ state' = [state EXCEPT !.remaining = @ - take]
           /\ Progress(r)
  <2>1. /\ available_bits(reader) \div 8 = input - reader.byte_index
        /\ from = reader.byte_index
    BY <1>2 DEF available_bits, unwound
  <2>2. /\ state.is_final \in BOOLEAN
        /\ state.remaining \in 0 .. U16_MAX /\ U16_MAX \in Nat
    <3>1. U16_MAX \in Nat BY DEF U16_MAX
    <3> QED BY <1>1, <3>1 DEF StoredStates
  <2>3. /\ take \in Nat /\ take <= state.remaining
        /\ take <= input - reader.byte_index
    BY <1>2, <2>1, <2>2 DEF Min2
  <2> HIDE DEF take
  <2>4. r = [byte_index |-> reader.byte_index + take, bit_count |-> 0]
    BY <2>1 DEF read_bytes
  <2>5. GoodReader(r) /\ r.bit_count = 0
    BY <1>2, <2>3, <2>4 DEF GoodReader, Readers
  <2>6. more \in Seq(Byte) /\ Len(more) = take
    <3>1. ASSUME NEW k \in 1 .. take
          PROVE  S.byte[BytePos(from + k - 1)] \in Byte
      <4>1. BytePos(from + k - 1) \in BitsOf(S.size)
        BY <1>2, <2>1, <2>3 DEF BytePos, BitsOf
      <4> QED BY <4>1, Lookups
    <3> QED BY <2>3, <3>1
  <2> HIDE DEF more, r
  <2>7. output' \in Seq(Byte) /\ Len(output) <= Len(output')
    BY <1>5, <2>3, <2>6 DEF IInv, TypeOK
  <2>8. state' = [kind |-> "StoredBody", is_final |-> state.is_final,
                  remaining |-> state.remaining - take]
    BY <1>1, <1>5 DEF StoredStates
  <2>9. state.remaining - take \in 0 .. U16_MAX
    BY <2>2, <2>3
  <2>10. state' \in DecodeStates /\ state'.kind = "StoredBody"
    BY <2>2, <2>8, <2>9 DEF DecodeStates, StoredStates
  <2>11. TablesOK' /\ BitLimit(state') = 0
    BY <2>10 DEF TablesOK, BitLimit
  <2>12. Progress(r) BY <1>5
  <2>13. pc = "drive" /\ ~ finished BY <1>1
  <2> HIDE DEF from
  <2> QED BY <2>5, <2>7, <2>10, <2>11, <2>12, <2>13, ProgressInv
<1> QED
  BY <1>3, <1>4, <1>5 DEF StepStoredBody

LEMMA StepDynamicHeaderInv ==
  ASSUME IInv, StepFrame, StepDynamicHeader(S)
  PROVE  IInv'
<1> DEFINE r == read_bits(reader, 14)
<1>1. /\ pc = "drive" /\ state.kind = "DynamicHeader" /\ ~ finished
      /\ state.is_final \in BOOLEAN
  BY StateFamily DEF StepDynamicHeader, InState, IInv, BitsOK, TypeOK,
                     BeginStates
<1>2. CASE available_bits(reader) < 14 /\ NeedMoreBytes
  BY <1>2, LeaveInv DEF NeedMoreBytes
<1>3. CASE Error
  BY <1>1, <1>3, ErrorInv
<1>4. CASE /\ available_bits(reader) >= 14
           /\ state' = [kind |-> "DynamicBitwidthTable",
                        is_final |-> state.is_final,
                        at |-> Pos, order_idx |-> 0]
           /\ Progress(r) /\ UNCHANGED output
  <2>1. reader.bit_count <= 7 /\ available_bits(reader) \in Nat
    BY <1>1, CurrentReader
       DEF IInv, BitsOK, BitLimit, available_bits, GoodReader, Readers
  <2>2. GoodReader(r) /\ r.bit_count <= 7
    BY <1>4, <2>1, CurrentReader, ReadBits DEF GoodReader, Readers
  <2>3. output \in Seq(Byte) /\ output' = output
    BY <1>4 DEF IInv, TypeOK
  <2> HIDE DEF r
  <2>4. state' \in DecodeStates /\ state'.kind = "DynamicBitwidthTable"
    BY <1>1, <1>4, CurrentReader DEF DecodeStates, BitwidthStates
  <2>5. TablesOK' /\ BitLimit(state') = 7
    BY <2>4 DEF TablesOK, BitLimit
  <2> QED BY <1>1, <1>4, <2>2, <2>3, <2>4, <2>5, ProgressInv
<1> QED
  BY <1>2, <1>3, <1>4 DEF StepDynamicHeader

(* The tables a dynamic header describes.                                  *)
LEMMA DynamicTables ==
  ASSUME IInv, NEW p \in BitsOf(S.size)
  PROVE  LET dyn == S.dynamic[p] IN
         /\ dyn.hclen \in 4 .. 19
         /\ dyn.target_len \in 258 .. 318
         /\ from_code_lengths(dyn.bitwidth, 1) \in HuffmanDecoders
         /\ from_code_lengths(dyn.bitwidth, 1).peek = 1
         /\ DynamicLiteral(dyn) \in HuffmanDecoders
         /\ DynamicDistance(dyn) \in HuffmanDecoders
         /\ DynamicDistance(dyn).peek <= DynamicLiteral(dyn).peek
         /\ DynamicLiteral(dyn).eob > 0 =>
              DynamicLiteral(dyn).peek = DynamicLiteral(dyn).eob
<1> DEFINE dyn == S.dynamic[p]
<1>1. dyn \in Dynamics
  BY Lookups
<1> HIDE DEF dyn
<1>2. /\ dyn.hclen \in 4 .. 19 /\ dyn.target_len \in 258 .. 318
      /\ dyn.bitwidth \in CodeLengths({0})
      /\ dyn.literal \in CodeLengths(0 .. MAX_BITS)
      /\ dyn.distance \in CodeLengths({0})
  BY <1>1 DEF Dynamics
<1>3. /\ dyn.bitwidth.max \in 1 .. 15 /\ dyn.bitwidth.eob = 0
      /\ dyn.distance.max \in 1 .. 15 /\ dyn.distance.eob = 0
  BY <1>2 DEF CodeLengths, MAX_BITS
<1>4. /\ dyn.literal.max \in 1 .. 15 /\ dyn.literal.eob \in 0 .. 15
      /\ dyn.literal.eob <= dyn.literal.max
  BY <1>2 DEF CodeLengths, MAX_BITS
<1>5. /\ from_code_lengths(dyn.bitwidth, 1) \in HuffmanDecoders
      /\ from_code_lengths(dyn.bitwidth, 1).peek = 1
  BY <1>3 DEF from_code_lengths, HuffmanDecoders, MAX_BITS, Min2, Max2
<1> DEFINE lit == DynamicLiteral(dyn)
<1>6. /\ lit \in HuffmanDecoders
      /\ lit.peek \in 1 .. 15
      /\ lit.eob > 0 => lit.peek = lit.eob
  BY <1>4 DEF DynamicLiteral, from_code_lengths, HuffmanDecoders, MAX_BITS,
              Min2, Max2
<1> HIDE DEF lit
<1>7. /\ from_code_lengths(dyn.distance, lit.peek) \in HuffmanDecoders
      /\ from_code_lengths(dyn.distance, lit.peek).peek <= lit.peek
  BY <1>3, <1>6 DEF from_code_lengths, HuffmanDecoders, MAX_BITS, Min2,
                    Max2
<1> QED BY <1>2, <1>5, <1>6, <1>7 DEF lit, dyn, DynamicDistance

LEMMA StepDynamicBitwidthTableInv ==
  ASSUME IInv, StepFrame, StepDynamicBitwidthTable(S)
  PROVE  IInv'
<1> DEFINE dyn == S.dynamic[state.at]
           r   == read_bits(reader, 3)
<1>1. /\ pc = "drive" /\ state.kind = "DynamicBitwidthTable" /\ ~ finished
      /\ state \in BitwidthStates
  BY StateFamily DEF StepDynamicBitwidthTable, InState, IInv, BitsOK, TypeOK
<1>2. /\ state.is_final \in BOOLEAN /\ state.at \in BitsOf(S.size)
      /\ state.order_idx \in 0 .. 19
  BY <1>1 DEF BitwidthStates
<1>3. output \in Seq(Byte)
  BY DEF IInv, TypeOK
<1>4. GoodReader(reader) /\ reader.bit_count <= 7
  BY <1>1, CurrentReader DEF IInv, BitsOK, BitLimit
<1>5. /\ dyn.hclen \in 4 .. 19
      /\ from_code_lengths(dyn.bitwidth, 1) \in HuffmanDecoders
      /\ from_code_lengths(dyn.bitwidth, 1).peek = 1
  BY <1>2, DynamicTables
<1> HIDE DEF dyn
<1>6. CASE NeedMoreBytes
  BY <1>6, LeaveInv DEF NeedMoreBytes
<1>7. CASE Error
  BY <1>1, <1>7, ErrorInv
<1>8. CASE /\ state.order_idx < dyn.hclen
           /\ available_bits(reader) >= 3
           /\ state' = [state EXCEPT !.order_idx = @ + 1]
           /\ Progress(r) /\ UNCHANGED output
  <2>1. GoodReader(r) /\ r.bit_count <= 7
    <3>1. available_bits(reader) \in Nat
      BY <1>4, CurrentReader DEF available_bits, GoodReader, Readers
    <3> QED BY <1>4, <1>8, <3>1, ReadBits DEF GoodReader, Readers
  <2> HIDE DEF r
  <2>2. state' = [kind |-> "DynamicBitwidthTable", is_final |-> state.is_final,
                  at |-> state.at, order_idx |-> state.order_idx + 1]
    BY <1>1, <1>8 DEF BitwidthStates
  <2>3. state.order_idx + 1 \in 0 .. 19
    BY <1>2, <1>5, <1>8
  <2>4. state' \in DecodeStates /\ state'.kind = "DynamicBitwidthTable"
    BY <1>2, <2>2, <2>3 DEF DecodeStates, BitwidthStates
  <2>5. TablesOK' /\ BitLimit(state') = 7
    BY <2>4 DEF TablesOK, BitLimit
  <2>6. Progress(r) /\ output' = output
    BY <1>8
  <2> QED BY <1>1, <1>3, <2>1, <2>4, <2>5, <2>6, ProgressInv
<1>9. CASE /\ state' = [kind |-> "DynamicCodeLengths",
                        is_final |-> state.is_final,
                        at |-> state.at, len |-> 0,
                        bitwidth_decoder |-> from_code_lengths(dyn.bitwidth, 1)]
           /\ Progress(reader) /\ UNCHANGED output
  <2>1. state' \in LengthsStates /\ state'.kind = "DynamicCodeLengths"
    BY <1>2, <1>5, <1>9 DEF LengthsStates
  <2>2. state' \in DecodeStates
    BY <2>1 DEF DecodeStates
  <2>3. TablesOK' /\ BitLimit(state') = 7
    BY <1>5, <1>9, <2>1 DEF TablesOK, BitLimit
  <2>4. Progress(reader) /\ output' = output
    BY <1>9
  <2> QED BY <1>1, <1>3, <1>4, <2>1, <2>2, <2>3, <2>4, ProgressInv
<1> QED
  BY <1>6, <1>7, <1>8, <1>9 DEF StepDynamicBitwidthTable, dyn

(* What decoding one code leaves of a reader.                              *)
LEMMA DecodeReader ==
  ASSUME IInv, NEW r, GoodReader(r), NEW table, table.peek \in Nat,
         NEW w \in Nat, peeked(table, w) <= available_bits(r)
  PROVE  LET p == decode(r, table, w) IN
         /\ GoodReader(p)
         /\ \/ p.bit_count <= r.bit_count - w
            \/ p.bit_count <= 7
            \/ p.bit_count <= table.peek + 7 - w
<1> DEFINE p == decode(r, table, w)
<1>1. input \in Nat /\ fed \in Nat /\ input <= fed
  BY CurrentReader
<1>2. r \in Readers /\ r.byte_index <= input
  BY DEF GoodReader
<1>3. /\ p \in Readers
      /\ p.byte_index <= input
      /\ \/ p.bit_count <= r.bit_count - w
         \/ p.bit_count <= 7
         \/ p.bit_count <= table.peek + 7 - w
      /\ 8 * p.byte_index - p.bit_count = 8 * r.byte_index - r.bit_count + w
  BY <1>1, <1>2, Decode
<1> HIDE DEF p
<1>4. p.bit_count <= 8 * (fed - input + p.byte_index)
  BY <1>1, <1>2, <1>3 DEF GoodReader, Readers
<1> QED BY <1>3, <1>4 DEF GoodReader, p

LEMMA Available ==
  ASSUME IInv, NEW r, GoodReader(r)
  PROVE  available_bits(r) \in Nat /\ r.bit_count \in Nat
BY CurrentReader DEF available_bits, GoodReader, Readers

LEMMA StepDynamicCodeLengthsInv ==
  ASSUME IInv, StepFrame, StepDynamicCodeLengths(S)
  PROVE  IInv'
<1> DEFINE dyn   == S.dynamic[state.at]
           e     == S.rle[Pos]
           table == state.bitwidth_decoder
           extra == RleExtraBits(e.code)
           r     == decode(reader, table, e.width)
           q     == read_bits(r, extra)
           short == \/ available_bits(reader) < peeked(table, e.width)
                    \/ e.code # "invalid" /\ available_bits(r) < extra
           bad   == \/ e.code = "invalid"
                    \/ e.code = "previous" /\ state.len = 0
                    \/ state.len + e.repeat > dyn.target_len
<1>1. /\ pc = "drive" /\ state.kind = "DynamicCodeLengths" /\ ~ finished
      /\ state \in LengthsStates
  BY StateFamily DEF StepDynamicCodeLengths, InState, IInv, BitsOK, TypeOK
<1>2. /\ state.is_final \in BOOLEAN /\ state.at \in BitsOf(S.size)
      /\ state.len \in 0 .. 318 /\ table \in HuffmanDecoders
      /\ table.peek = 1
  BY <1>1 DEF LengthsStates, IInv, TablesOK
<1>3. output \in Seq(Byte)
  BY DEF IInv, TypeOK
<1>4. GoodReader(reader) /\ reader.bit_count \in Nat /\ reader.bit_count <= 7
  BY <1>1, CurrentReader, Available DEF IInv, BitsOK, BitLimit
<1>5. /\ dyn.target_len \in 258 .. 318
      /\ DynamicLiteral(dyn) \in HuffmanDecoders
      /\ DynamicDistance(dyn) \in HuffmanDecoders
      /\ DynamicDistance(dyn).peek <= DynamicLiteral(dyn).peek
      /\ DynamicLiteral(dyn).eob > 0 =>
           DynamicLiteral(dyn).peek = DynamicLiteral(dyn).eob
  BY <1>2, DynamicTables
<1>6. /\ e.width \in 1 .. 15 /\ e.repeat \in 1 .. 138
      /\ extra \in Nat
  <2>1. e \in RleElements BY CurrentReader, Lookups
  <2> QED BY <2>1 DEF RleElements, RleExtraBits, MAX_BITS
<1>7. CASE NeedMoreBytes
  BY <1>7, LeaveInv DEF NeedMoreBytes
<1>8. CASE Error
  BY <1>1, <1>8, ErrorInv
<1>9. CASE /\ ~ short /\ ~ bad
           /\ state' = [state EXCEPT !.len = @ + e.repeat]
           /\ Progress(q) /\ UNCHANGED output
  <2>0. /\ ~ (available_bits(reader) < peeked(table, e.width))
        /\ ~ (available_bits(r) < extra)
        /\ ~ (state.len + e.repeat > dyn.target_len)
        /\ Progress(q) /\ output' = output
        /\ state' = [state EXCEPT !.len = @ + e.repeat]
    BY <1>9
  <2> HIDE DEF e, dyn, table
  <2>1. GoodReader(r) /\ r.bit_count <= 7
    <3>1. peeked(table, e.width) <= available_bits(reader)
      <4>1. peeked(table, e.width) \in Nat
        BY <1>2, <1>6 DEF peeked, Max2
      <4> QED BY <1>4, <2>0, <4>1, Available
    <3>2. table.peek \in Nat /\ e.width \in Nat
      BY <1>2, <1>6
    <3>3. /\ GoodReader(r)
          /\ \/ r.bit_count <= reader.bit_count - e.width
             \/ r.bit_count <= 7
             \/ r.bit_count <= table.peek + 7 - e.width
      BY <1>4, <3>1, <3>2, DecodeReader
    <3>4. r.bit_count \in Nat BY <3>3, Available
    <3> HIDE DEF r
    <3> QED BY <1>2, <1>4, <1>6, <3>3, <3>4
  <2> HIDE DEF r, extra
  <2>2. GoodReader(q) /\ q.bit_count <= 7
    <3>1. extra <= available_bits(r)
      BY <1>6, <2>0, <2>1, Available
    <3>2. /\ GoodReader(q)
          /\ q.bit_count <= r.bit_count - extra \/ q.bit_count <= 7
      BY <1>6, <2>1, <3>1, ReadBits
    <3>3. q.bit_count \in Nat /\ r.bit_count \in Nat
      BY <2>1, <3>2, Available
    <3> HIDE DEF q
    <3> QED BY <1>6, <2>1, <3>2, <3>3
  <2> HIDE DEF q
  <2>3. state.len + e.repeat \in 0 .. 318
    <3>1. state.len \in Nat /\ e.repeat \in Nat /\ dyn.target_len \in 258 .. 318
      BY <1>2, <1>5, <1>6
    <3>2. ~ (state.len + e.repeat > dyn.target_len)
      BY <2>0
    <3> QED BY <3>1, <3>2
  <2>4. state' = [kind |-> "DynamicCodeLengths", is_final |-> state.is_final,
                  at |-> state.at, len |-> state.len + e.repeat,
                  bitwidth_decoder |-> table]
    BY <1>1, <2>0 DEF LengthsStates, table
  <2>6. state' \in LengthsStates /\ state'.kind = "DynamicCodeLengths"
    BY <1>2, <2>3, <2>4 DEF LengthsStates
  <2>7. state' \in DecodeStates
    BY <2>6 DEF DecodeStates
  <2>8. TablesOK' /\ BitLimit(state') = 7
    BY <1>2, <2>4, <2>6 DEF TablesOK, BitLimit
  <2> QED BY <1>1, <1>3, <2>0, <2>2, <2>6, <2>7, <2>8, ProgressInv
<1>10. CASE /\ state' = [kind |-> "SymbolLoop", is_final |-> state.is_final,
                         literal |-> DynamicLiteral(dyn),
                         distance |-> DynamicDistance(dyn)]
            /\ Progress(reader) /\ UNCHANGED output
  <2> HIDE DEF dyn
  <2>1. state' \in SymbolStates /\ state'.kind = "SymbolLoop"
    BY <1>2, <1>5, <1>10 DEF SymbolStates
  <2>2. state' \in DecodeStates
    BY <2>1 DEF DecodeStates
  <2>3. TablesOK'
    BY <1>5, <1>10, <2>1 DEF TablesOK
  <2>4. BitLimit(state') = DynamicLiteral(dyn).peek + 7
    BY <1>10 DEF BitLimit
  <2>5. DynamicLiteral(dyn).peek \in Nat
    BY <1>5 DEF HuffmanDecoders, MAX_BITS
  <2>6. reader.bit_count <= BitLimit(state')
    BY <1>4, <2>4, <2>5
  <2>7. Progress(reader) /\ output' = output
    BY <1>10
  <2> QED BY <1>1, <1>3, <1>4, <2>1, <2>2, <2>3, <2>6, <2>7, ProgressInv
<1> QED
  BY <1>7, <1>8, <1>9, <1>10 DEF StepDynamicCodeLengths

(* A match fits the buffer's type: every byte of it is one of the buffer.  *)
LEMMA RepeatedBytes ==
  ASSUME NEW out \in Seq(Byte), NEW d \in Nat \ {0}, d <= Len(out),
         NEW n \in Nat
  PROVE  /\ Repeated(out, d, n) \in Seq(Byte) /\ Len(Repeated(out, d, n)) = n
         /\ copy_from_distance(out, d, n) \in Seq(Byte)
         /\ Len(copy_from_distance(out, d, n)) = Len(out) + n
<1>1. ASSUME NEW i \in 1 .. n
      PROVE  out[Len(out) - d + 1 + ((i - 1) % d)] \in Byte
  <2>1. (i - 1) % d \in 0 .. d - 1
    BY SMT
  <2> DEFINE m == (i - 1) % d
  <2> HIDE DEF m
  <2>2. Len(out) - d + 1 + m \in 1 .. Len(out)
    BY <2>1 DEF m
  <2> QED BY <2>2 DEF m
<1>2. Repeated(out, d, n) \in Seq(Byte) /\ Len(Repeated(out, d, n)) = n
  BY <1>1 DEF Repeated
<1> QED
  BY <1>2 DEF copy_from_distance

LEMMA StepSymbolLoopInv ==
  ASSUME IInv, StepFrame, StepSymbolLoop(S)
  PROVE  IInv'
<1> DEFINE lit     == state.literal
           dist    == state.distance
           sym     == S.symbol[Pos]
           width   == IF sym.kind = "endOfBlock" THEN lit.eob ELSE sym.width
           invalid == \/ sym.kind = "invalid"
                      \/ sym.kind = "endOfBlock" /\ lit.eob = 0
           r1      == decode(reader, lit, width)
           r2      == read_bits(r1, sym.extra)
           r3      == decode(r2, dist, sym.dwidth)
           r4      == read_bits(r3, sym.dextra)
           short   == \/ available_bits(reader) < peeked(lit, width)
                      \/ /\ sym.kind = "match"
                         /\ \/ available_bits(r1) < sym.extra
                            \/ available_bits(r2) < peeked(dist, sym.dwidth)
                            \/ /\ sym.dkind = "distance"
                               /\ available_bits(r3) < sym.dextra
           bad     == \/ invalid
                      \/ sym.kind = "forbidden"
                      \/ /\ sym.kind = "match"
                         /\ \/ sym.dkind # "distance"
                            \/ sym.distance > Len(output)
<1>1. /\ pc = "drive" /\ state.kind = "SymbolLoop" /\ ~ finished
      /\ state \in SymbolStates
  BY StateFamily DEF StepSymbolLoop, InState, IInv, BitsOK, TypeOK
<1>2. /\ lit \in HuffmanDecoders /\ dist \in HuffmanDecoders
      /\ dist.peek <= lit.peek
      /\ lit.eob > 0 => lit.peek = lit.eob
  BY <1>1 DEF SymbolStates, IInv, TablesOK
<1>3. /\ lit.peek \in 1 .. 15 /\ lit.eob \in 0 .. 15 /\ dist.peek \in 1 .. 15
  BY <1>2 DEF HuffmanDecoders, MAX_BITS
<1>4. output \in Seq(Byte)
  BY DEF IInv, TypeOK
<1>5. /\ GoodReader(reader) /\ reader.bit_count \in Nat
      /\ reader.bit_count <= lit.peek + 7
  BY <1>1, CurrentReader, Available DEF IInv, BitsOK, BitLimit
<1>6. sym \in Symbols
  BY CurrentReader, Lookups
<1>7. /\ sym.width \in 1 .. 15 /\ sym.dwidth \in 1 .. 15
      /\ sym.extra \in 0 .. 5 /\ sym.dextra \in 0 .. 13
  BY <1>6 DEF Symbols, MAX_BITS
<1>8. sym.byte \in Byte /\ sym.distance \in Nat \ {0} /\ sym.length \in Nat
  <2>1. sym.distance \in 1 .. WINDOW_SIZE /\ sym.length \in 1 .. MAX_MATCH
    BY <1>6 DEF Symbols
  <2>2. WINDOW_SIZE \in Nat /\ MAX_MATCH \in Nat
    BY StreamsAssumption
  <2> QED BY <1>6, <2>1, <2>2 DEF Symbols
<1>9. width \in 0 .. 15
  BY <1>3, <1>7
<1> HIDE DEF sym, lit, dist
<1>10. ASSUME ~ short
       PROVE  /\ GoodReader(r1) /\ r1.bit_count \in Nat
              /\ \/ r1.bit_count <= reader.bit_count - width
                 \/ r1.bit_count <= 7
                 \/ r1.bit_count <= lit.peek + 7 - width
  <2>1. ~ (available_bits(reader) < peeked(lit, width))
    BY <1>10
  <2> HIDE DEF width
  <2>2. peeked(lit, width) \in Nat
    BY <1>3, <1>9 DEF peeked, Max2
  <2>3. peeked(lit, width) <= available_bits(reader)
    BY <1>5, <2>1, <2>2, Available
  <2>4. lit.peek \in Nat /\ width \in Nat
    BY <1>3, <1>9
  <2> QED BY <1>5, <2>3, <2>4, DecodeReader, Available
<1>11. CASE Commit(reader) /\ UNCHANGED <<state, output, finished>>
  BY <1>11, LeaveInv
<1>12. CASE Error
  BY <1>1, <1>12, ErrorInv
<1>13. state' = state => state' \in DecodeStates /\ TablesOK' /\ BitLimit(state') = lit.peek + 7
  BY <1>1 DEF IInv, TypeOK, TablesOK, BitLimit, lit
<1>14. CASE /\ ~ short /\ sym.kind = "literal"
            /\ output' = Append(output, sym.byte)
            /\ Progress(r1) /\ UNCHANGED state
  <2>1. GoodReader(r1) /\ r1.bit_count <= lit.peek + 7
    <3>1. /\ GoodReader(r1) /\ r1.bit_count \in Nat
          /\ \/ r1.bit_count <= reader.bit_count - width
             \/ r1.bit_count <= 7
             \/ r1.bit_count <= lit.peek + 7 - width
      BY <1>10, <1>14
    <3> HIDE DEF r1, width
    <3> QED BY <1>3, <1>5, <1>9, <3>1
  <2>2. Progress(r1) /\ state' = state
    BY <1>14
  <2>3. output' \in Seq(Byte) /\ Len(output) <= Len(output')
    BY <1>4, <1>8, <1>14
  <2> HIDE DEF r1
  <2> QED BY <1>1, <1>13, <2>1, <2>2, <2>3, ProgressInv
<1>15. CASE /\ ~ short /\ ~ bad /\ sym.kind = "endOfBlock"
            /\ EndBlock(r1, state.is_final) /\ UNCHANGED output
  <2>1. width = lit.peek
    BY <1>2, <1>3, <1>15
  <2>2. GoodReader(r1) /\ r1.bit_count <= 7
    <3>1. /\ GoodReader(r1) /\ r1.bit_count \in Nat
          /\ \/ r1.bit_count <= reader.bit_count - width
             \/ r1.bit_count <= 7
             \/ r1.bit_count <= lit.peek + 7 - width
      BY <1>10, <1>15
    <3> HIDE DEF r1, width
    <3> QED BY <1>3, <1>5, <2>1, <3>1
  <2>3. EndBlock(r1, state.is_final) /\ UNCHANGED output
    BY <1>15
  <2> HIDE DEF r1
  <2> QED BY <1>1, <2>2, <2>3, EndBlockInv
<1>16. CASE /\ ~ short /\ ~ bad /\ sym.kind = "match"
            /\ output' = copy_from_distance(output, sym.distance, sym.length)
            /\ Progress(r4) /\ UNCHANGED state
  <2>0. /\ ~ (available_bits(r1) < sym.extra)
        /\ ~ (available_bits(r2) < peeked(dist, sym.dwidth))
        /\ ~ (available_bits(r3) < sym.dextra)
        /\ ~ (sym.distance > Len(output))
    BY <1>16
  <2>1. GoodReader(r1) /\ r1.bit_count \in Nat /\ r1.bit_count <= lit.peek + 7
    <3>1. /\ GoodReader(r1) /\ r1.bit_count \in Nat
          /\ \/ r1.bit_count <= reader.bit_count - width
             \/ r1.bit_count <= 7
             \/ r1.bit_count <= lit.peek + 7 - width
      BY <1>10, <1>16
    <3> HIDE DEF r1, width
    <3> QED BY <1>3, <1>5, <1>9, <3>1
  <2> HIDE DEF r1
  <2>2. GoodReader(r2) /\ r2.bit_count \in Nat /\ r2.bit_count <= lit.peek + 7
    <3>1. sym.extra \in Nat /\ sym.extra <= available_bits(r1)
      BY <1>7, <2>0, <2>1, Available
    <3>2. /\ GoodReader(r2) /\ r2.bit_count \in Nat
          /\ r2.bit_count <= r1.bit_count - sym.extra \/ r2.bit_count <= 7
      BY <2>1, <3>1, ReadBits, Available
    <3> HIDE DEF r2
    <3> QED BY <1>3, <2>1, <3>1, <3>2
  <2> HIDE DEF r2
  <2>3. GoodReader(r3) /\ r3.bit_count \in Nat /\ r3.bit_count <= lit.peek + 7
    <3>1. dist.peek \in Nat /\ sym.dwidth \in Nat
      BY <1>3, <1>7
    <3>2. peeked(dist, sym.dwidth) <= available_bits(r2)
      <4>1. peeked(dist, sym.dwidth) \in Nat
        BY <3>1 DEF peeked, Max2
      <4> QED BY <2>0, <2>2, <4>1, Available
    <3>3. /\ GoodReader(r3) /\ r3.bit_count \in Nat
          /\ \/ r3.bit_count <= r2.bit_count - sym.dwidth
             \/ r3.bit_count <= 7
             \/ r3.bit_count <= dist.peek + 7 - sym.dwidth
      BY <2>2, <3>1, <3>2, DecodeReader, Available
    <3>4. dist.peek <= lit.peek
      BY <1>2
    <3> HIDE DEF r3
    <3> QED BY <1>3, <2>2, <3>1, <3>3, <3>4
  <2> HIDE DEF r3
  <2>4. GoodReader(r4) /\ r4.bit_count \in Nat /\ r4.bit_count <= lit.peek + 7
    <3>1. sym.dextra \in Nat /\ sym.dextra <= available_bits(r3)
      BY <1>7, <2>0, <2>3, Available
    <3>2. /\ GoodReader(r4) /\ r4.bit_count \in Nat
          /\ r4.bit_count <= r3.bit_count - sym.dextra \/ r4.bit_count <= 7
      BY <2>3, <3>1, ReadBits, Available
    <3> HIDE DEF r4
    <3> QED BY <1>3, <2>3, <3>1, <3>2
  <2>5. Progress(r4) /\ state' = state
    BY <1>16
  <2> HIDE DEF r4
  <2>6. sym.distance <= Len(output)
    BY <1>4, <1>8, <2>0
  <2>7. output' \in Seq(Byte) /\ Len(output') = Len(output) + sym.length
    BY <1>4, <1>8, <1>16, <2>6, RepeatedBytes
  <2>8. Len(output) <= Len(output')
    BY <1>4, <1>8, <2>7
  <2> QED BY <1>1, <1>13, <2>4, <2>5, <2>7, <2>8, ProgressInv
<1> HIDE DEF short, bad, r1, r4
<1>17. \/ Commit(reader) /\ UNCHANGED <<state, output, finished>>
       \/ Error
       \/ /\ ~ short /\ sym.kind = "literal"
          /\ output' = Append(output, sym.byte)
          /\ Progress(r1) /\ UNCHANGED state
       \/ /\ ~ short /\ ~ bad /\ sym.kind = "endOfBlock"
          /\ EndBlock(r1, state.is_final) /\ UNCHANGED output
       \/ /\ ~ short /\ ~ bad /\ sym.kind = "match"
          /\ output' = copy_from_distance(output, sym.distance, sym.length)
          /\ Progress(r4) /\ UNCHANGED state
  BY DEF StepSymbolLoop, Yield, NeedMoreBytes, short, bad, r1, r4, sym, lit, dist
<1> QED
  BY <1>11, <1>12, <1>14, <1>15, <1>16, <1>17

LEMMA StepFinishedInv ==
  ASSUME IInv, StepFrame, StepFinished
  PROVE  IInv'
<1>1. reader.bit_count <= 7 /\ GoodReader(reader)
  BY CurrentReader DEF StepFinished, InState, IInv, BitsOK, BitLimit
<1> QED BY <1>1, FinishedInv DEF StepFinished

LEMMA FeedInv ==
  ASSUME IInv, NEW n \in Nat, Feed(n)
  PROVE  IInv'
<1>1. n \in Nat /\ S.size \in Nat /\ fed \in Nat /\ input \in Nat
      /\ input <= fed /\ n <= S.size - fed
  BY CurrentReader DEF Feed
<1>2. /\ S' = S /\ DecodeStates' = DecodeStates
      /\ UNCHANGED <<id, delivered, pending, state, output, drained, finished>>
  BY SameStates DEF Feed
<1>3. TablesOK'
  BY <1>2 DEF TablesOK, IInv
<1>4. CASE UNCHANGED <<fed, input, reader, pc>> /\ result' = "err"
  <2>1. TypeOK' BY <1>2, <1>4 DEF TypeOK, IInv
  <2>2. BitsOK' BY <1>2, <1>4 DEF BitsOK, IInv
  <2> QED BY <1>3, <2>1, <2>2 DEF IInv
<1>5. CASE /\ fed' = fed + n /\ input' = input + n
           /\ reader' = new_seeded(pending)
           /\ pc' = (IF state.kind = "Transient" THEN "panic" ELSE "drive")
           /\ UNCHANGED result
  <2>1. pc = "idle" /\ reader = new_seeded(pending)
    BY DEF Feed, IInv, BitsOK
  <2>2. reader' = reader
    BY <1>5, <2>1
  <2>3. reader' \in [byte_index : 0 .. input', bit_count : 0 .. 22]
    <3>1. reader \in Readers /\ reader.bit_count <= 22 /\ reader.byte_index = 0
      BY <2>1, CurrentReader, ReaderType
         DEF IInv, TypeOK, GoodReader, new_seeded
    <3>2. input' \in Nat BY <1>1, <1>5
    <3> QED BY <2>2, <3>1, <3>2, ReaderType
  <2>4. fed' \in 0 .. S.size /\ input' \in 0 .. fed'
        /\ fed' - input' = fed - input
    BY <1>1, <1>5
  <2>5. TypeOK'
    BY <1>2, <1>5, <2>3, <2>4 DEF IInv, TypeOK
  <2>6. BitsOK'
    BY <1>2, <1>5, <2>1, <2>2, <2>4 DEF IInv, BitsOK
  <2> QED BY <1>3, <2>5, <2>6 DEF IInv
<1> QED BY <1>4, <1>5 DEF Feed

(* What advance(n) does to the output buffer, in terms of the bytes        *)
(* maybe_compact drops.                                                    *)
LEMMA AdvanceOutput ==
  ASSUME IInv, NEW n \in 0 .. Len(Unread), Advance(n)
  PROVE  LET keep == keep_from(Len(output), drained + n) IN
         /\ n \in Nat /\ drained + n <= Len(output)
         /\ Len(Unread) = Len(output) - drained
         /\ keep \in Nat /\ keep <= drained + n
         /\ keep > 0 => /\ COMPACT_THRESHOLD <= Len(output)
                        /\ keep <= Len(output) - WINDOW_SIZE
                        /\ \/ keep = drained + n
                           \/ keep = Len(output) - WINDOW_SIZE
         /\ keep = 0 => drained + n < COMPACT_THRESHOLD
         /\ drained' = drained + n - keep
         /\ output' \in Seq(Byte)
         /\ Len(output') = Len(output) - keep
         /\ \A k \in 1 .. Len(output) - keep : output'[k] = output[k + keep]
<1>1. output \in Seq(Byte) /\ drained \in 0 .. Len(output)
  BY DEF IInv, TypeOK
<1>2. Len(Unread) = Len(output) - drained
  BY <1>1 DEF Unread
<1>3. n \in Nat /\ drained + n <= Len(output) /\ drained \in Nat
      /\ Len(output) \in Nat /\ WINDOW_SIZE \in Nat /\ COMPACT_THRESHOLD \in Nat
  BY <1>1, <1>2, StreamsAssumption, DecoderAssumption
<1> DEFINE keep == keep_from(Len(output), drained + n)
<1>4. /\ keep \in Nat /\ keep <= drained + n
      /\ keep > 0 => /\ COMPACT_THRESHOLD <= Len(output)
                     /\ keep <= Len(output) - WINDOW_SIZE
                     /\ \/ keep = drained + n
                        \/ keep = Len(output) - WINDOW_SIZE
      /\ keep = 0 => drained + n < COMPACT_THRESHOLD
  BY <1>3, DecoderAssumption DEF keep_from, Min2, Max2
<1>5. /\ drained' = drained + n - keep
      /\ output' = SubSeq(output, keep + 1, Len(output))
  <2>1. drained' = drained + n - keep
    BY <1>3, <1>4 DEF Advance
  <2>2. output' = SubSeq(output, keep + 1, Len(output))
    BY DEF Advance
  <2> QED BY <2>1, <2>2
<1> HIDE DEF keep
<1>6. /\ output' \in Seq(Byte) /\ Len(output') = Len(output) - keep
      /\ \A k \in 1 .. Len(output) - keep : output'[k] = output[k + keep]
  BY <1>1, <1>3, <1>4, <1>5
<1> QED BY <1>2, <1>3, <1>4, <1>5, <1>6 DEF keep

LEMMA AdvanceInv ==
  ASSUME IInv, NEW n \in 0 .. Len(Unread), Advance(n)
  PROVE  IInv'
<1>1. S' = S /\ DecodeStates' = DecodeStates
  BY SameStates DEF Advance
<1>2. UNCHANGED <<id, fed, input, pending, state, finished, reader, pc, result>>
  BY DEF Advance
<1>3. output' \in Seq(Byte) /\ drained' \in 0 .. Len(output')
  BY AdvanceOutput DEF IInv, TypeOK
<1>4. delivered' \in Seq(Byte)
  <2>1. output \in Seq(Byte) /\ drained \in 0 .. Len(output)
        /\ delivered \in Seq(Byte)
    BY DEF IInv, TypeOK
  <2>2. Unread \in Seq(Byte)
    BY <2>1 DEF Unread
  <2>3. SubSeq(Unread, 1, n) \in Seq(Byte)
    BY <2>2
  <2> QED BY <2>1, <2>3 DEF Advance
<1>5. TypeOK'
  BY <1>1, <1>2, <1>3, <1>4 DEF TypeOK, IInv
<1>6. TablesOK' /\ BitsOK'
  BY <1>2 DEF TablesOK, BitsOK, IInv
<1> QED BY <1>5, <1>6 DEF IInv

LEMMA InitInv == Init => IInv
<1> SUFFICES ASSUME Init PROVE IInv
  OBVIOUS
<1>1. S.size \in Nat
  BY StreamsAssumption DEF Init, S
<1>2. reader \in [byte_index : 0 .. input, bit_count : 0 .. 22]
  BY DEF Init, new_seeded
<1>3. state \in DecodeStates
  BY BlockHeaderState DEF Init
<1>4. TypeOK
  <2>1. /\ id \in StreamIds /\ fed \in 0 .. S.size /\ input \in 0 .. fed
        /\ pending \in 0 .. 22
    BY <1>1 DEF Init
  <2>2. /\ delivered \in Seq(Byte) /\ output \in Seq(Byte)
        /\ drained \in 0 .. Len(output)
    BY DEF Init
  <2>3. /\ finished \in BOOLEAN /\ pc \in {"idle", "drive", "panic"}
        /\ result \in {"ok", "err"}
    BY DEF Init
  <2> QED BY <1>2, <1>3, <2>1, <2>2, <2>3 DEF TypeOK
<1>5. TablesOK
  BY DEF Init, TablesOK
<1>6. BitsOK
  BY DEF Init, BitsOK, BitLimit, new_seeded
<1> QED BY <1>4, <1>5, <1>6 DEF IInv

(* What any caller makes the decoder do: Next, with feeds of any size.     *)
Moves == \/ Step
         \/ \E n \in Nat : Feed(n)
         \/ \E n \in 0 .. Len(Unread) : Advance(n)
         \/ UNCHANGED vars

LEMMA NextMoves == [Next]_vars => Moves
BY DecoderAssumption DEF Next, Moves

LEMMA MovesInv == IInv /\ Moves => IInv'
<1> SUFFICES ASSUME IInv, Moves PROVE IInv'
  OBVIOUS
<1>1. CASE Step
  <2>1. StepFrame
    BY <1>1 DEF Step, StepFrame
  <2> QED
    BY <1>1, <2>1, StepBlockHeaderInv, StepStoredAlignAndLenInv,
       StepStoredBodyInv, StepDynamicHeaderInv, StepDynamicBitwidthTableInv,
       StepDynamicCodeLengthsInv, StepSymbolLoopInv, StepFinishedInv DEF Step
<1>2. CASE \E n \in Nat : Feed(n)
  BY <1>2, FeedInv
<1>3. CASE \E n \in 0 .. Len(Unread) : Advance(n)
  BY <1>3, AdvanceInv
<1>4. CASE UNCHANGED vars
  <2>1. DecodeStates' = DecodeStates /\ S' = S
    BY <1>4, SameStates DEF vars
  <2> QED BY <1>4, <2>1 DEF vars, IInv, TypeOK, TablesOK, BitsOK
<1> QED BY <1>1, <1>2, <1>3, <1>4 DEF Moves

LEMMA NextInv == IInv /\ [Next]_vars => IInv'
BY MovesInv, NextMoves

LEMMA Invariance == Spec => []IInv
BY InitInv, NextInv, PTL DEF Spec
-----------------------------------------------------------------------------
(* Type correctness; in particular the bit buffer of 64 bits never holds   *)
(* more than 22, so the shifts of peek_bits never overflow.                *)
THEOREM TypeCorrect == Spec => []TypeOK
<1>1. IInv => TypeOK BY DEF IInv
<1> QED BY <1>1, Invariance, PTL

(* When the stream has ended, less than a byte is loaded, not delivered.   *)
LEMMA InvTrailer == IInv => TrailerKept
<1> SUFFICES ASSUME IInv, finished PROVE fed - input = (Pos + 7) \div 8
  BY DEF TrailerKept
<1>1. reader.bit_count <= 7 /\ reader.byte_index = 0
  BY DEF IInv, BitsOK, BitLimit
<1>2. fed \in Nat /\ input \in Nat /\ input <= fed /\ reader.bit_count \in Nat
      /\ Pos = 8 * (fed - input + reader.byte_index) - reader.bit_count
  BY CurrentReader DEF GoodReader, Readers
<1> QED BY <1>1, <1>2

(* So no byte behind it has been taken from the input.                     *)
THEOREM TrailerIsKept == Spec => []TrailerKept
BY InvTrailer, Invariance, PTL

(* read_bytes never unwinds past the start of its slice, nor drops a       *)
(* fraction of a byte.                                                     *)
THEOREM NeverUnderflows == Spec => []NoUnderflow
<1>1. IInv => NoUnderflow
  <2> SUFFICES ASSUME IInv PROVE NoUnderflow
    OBVIOUS
  <2>1. reader.bit_count \in Nat /\ reader.byte_index \in Nat
    BY CurrentReader DEF GoodReader, Readers
  <2>2. /\ state.kind = "StoredAlignAndLen" => reader.bit_count <= 7
        /\ state.kind = "StoredBody" => reader.bit_count <= 0
    BY DEF IInv, BitsOK, BitLimit
  <2> QED BY <2>1, <2>2 DEF NoUnderflow, unwound
<1> QED BY <1>1, Invariance, PTL
-----------------------------------------------------------------------------
(* What a step does to the output: it only appends, a symbol of a Huffman  *)
(* block only below the cap, and then no more than a match.                *)
Appends == /\ output' \in Seq(Byte)
           /\ Len(output) <= Len(output')
           /\ \A k \in 1 .. Len(output) : output'[k] = output[k]

AppendsLittle == \/ output' = output
                 \/ /\ Len(output) - drained < MAX_INTERNAL_BUFFER
                    /\ Len(output') <= Len(output) + MAX_MATCH

LEMMA StepAppends ==
  ASSUME IInv, Step
  PROVE  /\ Appends
         /\ state.kind = "StoredBody" \/ AppendsLittle
<1>1. StepFrame
  BY DEF Step, StepFrame
<1>2. output \in Seq(Byte) /\ MAX_MATCH \in Nat \ {0}
  BY StreamsAssumption DEF IInv, TypeOK
<1>3. IInv'
  BY NextInv DEF Next
<1>4. output' \in Seq(Byte)
  BY <1>3 DEF IInv, TypeOK
<1>5. CASE output' = output
  BY <1>2, <1>5 DEF Appends, AppendsLittle
<1>6. CASE StepStoredBody(S)
  <2>1. state.kind = "StoredBody"
    BY <1>6 DEF StepStoredBody, InState
  <2>2. CASE \E more : output' = output \o more /\ more \in Seq(Byte)
    BY <1>2, <1>4, <2>2, <2>1 DEF Appends
  <2> DEFINE take == Min2(available_bits(reader) \div 8, state.remaining)
             from == unwound(reader)
             more == [k \in 1 .. take |-> S.byte[BytePos(from + k - 1)]]
  <2>3. CASE take > 0 /\ output' = output \o more
    <3>1. state.remaining \in Nat
      <4>1. U16_MAX \in Nat BY DEF U16_MAX
      <4>2. state \in StoredStates
        BY <2>1, StateFamily DEF IInv, TypeOK
      <4> QED BY <4>1, <4>2 DEF StoredStates
    <3>2. available_bits(reader) \div 8 \in Nat
      BY CurrentReader, Available
    <3>3. take \in Nat BY <3>1, <3>2 DEF Min2
    <3> HIDE DEF take
    <3>4. more \in Seq({more[k] : k \in 1 .. take}) /\ Len(more) = take
      BY <3>3
    <3> HIDE DEF more
    <3> QED BY <1>2, <1>4, <2>1, <2>3, <3>3, <3>4 DEF Appends
  <2>4. output' = output \/ (take > 0 /\ output' = output \o more)
    BY <1>6 DEF StepStoredBody, NeedMoreBytes
  <2> QED BY <1>5, <2>3, <2>4
<1>7. CASE StepSymbolLoop(S)
  <2> DEFINE sym == S.symbol[Pos]
  <2>1. sym \in Symbols
    BY CurrentReader, Lookups
  <2>2. sym.byte \in Byte /\ sym.distance \in Nat \ {0}
        /\ sym.length \in 1 .. MAX_MATCH
    <3>1. sym.distance \in 1 .. WINDOW_SIZE /\ WINDOW_SIZE \in Nat
      BY <2>1, StreamsAssumption DEF Symbols
    <3> QED BY <2>1, <3>1 DEF Symbols
  <2> DEFINE below == Len(output) - drained < MAX_INTERNAL_BUFFER
  <2>3. \/ output' = output
        \/ below /\ output' = Append(output, sym.byte)
        \/ /\ below /\ ~ (sym.distance > Len(output))
           /\ output' = copy_from_distance(output, sym.distance, sym.length)
    <3>1. ~ OutputFull => below
      <4>1. Len(output) \in Nat /\ drained \in Nat /\ MAX_INTERNAL_BUFFER \in Nat
        BY <1>2, DecoderAssumption DEF IInv, TypeOK
      <4> QED BY <4>1 DEF OutputFull
    <3> HIDE DEF below
    <3> QED BY <1>7, <3>1
            DEF StepSymbolLoop, Yield, NeedMoreBytes, Error, EndBlock
  <2> HIDE DEF sym
  <2>4. CASE below /\ output' = Append(output, sym.byte)
    BY <1>2, <1>4, <2>2, <2>4 DEF Appends, AppendsLittle
  <2>5. CASE /\ below /\ ~ (sym.distance > Len(output))
             /\ output' = copy_from_distance(output, sym.distance, sym.length)
    <3>1. sym.distance <= Len(output) /\ sym.length \in Nat
      BY <1>2, <2>2, <2>5
    <3>2. Len(output') = Len(output) + sym.length
      BY <1>2, <2>2, <2>5, <3>1, RepeatedBytes
    <3>3. Len(Repeated(output, sym.distance, sym.length)) = sym.length
          /\ \A k \in 1 .. Len(output) : output'[k] = output[k]
      <4> DEFINE more == Repeated(output, sym.distance, sym.length)
      <4>1. more \in Seq(Byte) /\ Len(more) = sym.length
        BY <1>2, <2>2, <3>1, RepeatedBytes
      <4>2. output' = output \o more
        BY <2>5 DEF copy_from_distance
      <4> HIDE DEF more
      <4> QED BY <1>2, <3>1, <4>1, <4>2 DEF more
    <3> QED BY <1>2, <1>4, <2>2, <2>5, <3>2, <3>3 DEF Appends, AppendsLittle
  <2> QED BY <1>5, <2>3, <2>4, <2>5
<1>8. \/ output' = output \/ StepStoredBody(S) \/ StepSymbolLoop(S)
  BY DEF Step, StepBlockHeader, StepStoredAlignAndLen, StepDynamicHeader,
         StepDynamicBitwidthTable, StepDynamicCodeLengths, StepFinished,
         NeedMoreBytes, Error
<1> QED BY <1>5, <1>6, <1>7, <1>8

(* The window.  The consumed bytes still buffered are the last the caller  *)
(* took; once any were dropped, a window's worth of bytes is kept.         *)
WindowInv ==
  /\ drained <= Len(delivered)
  /\ \A k \in 1 .. drained : output[k] = delivered[Len(delivered) - drained + k]
  /\ drained < Len(delivered) => WINDOW_SIZE <= Len(output)

LEMMA OutputTypes ==
  ASSUME IInv
  PROVE  /\ output \in Seq(Byte) /\ delivered \in Seq(Byte)
         /\ drained \in Nat /\ drained <= Len(output)
         /\ Len(output) \in Nat /\ Len(delivered) \in Nat
         /\ WINDOW_SIZE \in Nat \ {0} /\ MAX_MATCH \in Nat \ {0}
BY StreamsAssumption DEF IInv, TypeOK

LEMMA OutputNumbers ==
  ASSUME IInv
  PROVE  /\ drained \in Nat /\ drained <= Len(output)
         /\ Len(output) \in Nat /\ Len(delivered) \in Nat
BY OutputTypes

LEMMA UnreadType ==
  ASSUME IInv
  PROVE  /\ Unread \in Seq(Byte) /\ Len(Unread) = Len(output) - drained
         /\ \A k \in 1 .. Len(output) - drained : Unread[k] = output[drained + k]
<1>1. \A k \in drained + 1 .. Len(output) : output[k] \in Byte
  BY OutputTypes, ElementOfSeq
<1>2. drained + 1 \in Int /\ Len(output) \in Int
  BY OutputTypes
<1>3. /\ Unread \in Seq(Byte)
      /\ Len(Unread) = IF drained + 1 <= Len(output)
                         THEN Len(output) - (drained + 1) + 1 ELSE 0
      /\ \A k \in 1 .. Len(output) - (drained + 1) + 1 :
           Unread[k] = output[drained + 1 + k - 1]
  BY <1>1, <1>2, SubSeqProperties DEF Unread
<1> QED BY <1>3, OutputTypes

(* A sequence that agrees with another from its n-th place on.             *)
LEMMA SuffixIs ==
  ASSUME NEW T, NEW a \in Seq(T), NEW b \in Seq(T), NEW n \in Nat,
         Len(a) = n + Len(b), \A k \in 1 .. Len(b) : a[n + k] = b[k]
  PROVE  b = SubSeq(a, n + 1, Len(a))
<1> DEFINE t == SubSeq(a, n + 1, Len(a))
<1>1. Len(a) \in Nat /\ Len(b) \in Nat
  BY LenProperties
<1>2. \A i \in n + 1 .. Len(a) : a[i] \in T
  BY <1>1, ElementOfSeq
<1>3. /\ t \in Seq(T)
      /\ Len(t) = IF n + 1 <= Len(a) THEN Len(a) - (n + 1) + 1 ELSE 0
      /\ \A i \in 1 .. Len(a) - (n + 1) + 1 : t[i] = a[n + 1 + i - 1]
  BY <1>1, <1>2, SubSeqProperties
<1> HIDE DEF t
<1>4. Len(t) = Len(b) /\ \A i \in 1 .. Len(b) : t[i] = a[n + i]
  BY <1>1, <1>3
<1>5. t = b
  BY <1>3, <1>4, SeqEqual
<1> QED BY <1>5 DEF t

(* The window in the terms of what has been delivered.                     *)
LEMMA WindowKeptByInv == IInv /\ WindowInv => WindowKept
<1> SUFFICES ASSUME IInv, WindowInv PROVE WindowKept
  OBVIOUS
<1> DEFINE n == Len(History) - Len(output)
<1>1. /\ History \in Seq(Byte)
      /\ Len(History) = Len(delivered) + Len(Unread)
      /\ \A i \in 1 .. Len(delivered) + Len(Unread) :
           History[i] = IF i <= Len(delivered) THEN delivered[i]
                                               ELSE Unread[i - Len(delivered)]
  BY OutputTypes, UnreadType, ConcatProperties DEF History
<1>2. n \in Nat /\ n = Len(delivered) - drained
  <2>1. Len(Unread) = Len(output) - drained BY UnreadType
  <2>2. Len(History) = Len(delivered) + Len(Unread) BY <1>1
  <2>3. drained <= Len(delivered) BY DEF WindowInv
  <2> QED BY <2>1, <2>2, <2>3, OutputTypes
<1> HIDE DEF n
<1>3. Len(History) = n + Len(output)
  BY <1>2, OutputTypes, <1>1, UnreadType DEF n
<1>4. ASSUME NEW k \in 1 .. Len(output)
      PROVE  History[n + k] = output[k]
  <2>1. /\ k \in Nat /\ n + k \in 1 .. Len(delivered) + Len(Unread)
        /\ n + k <= Len(delivered) <=> k <= drained
        /\ n + k - Len(delivered) = k - drained
    <3>1. Len(Unread) = Len(output) - drained BY UnreadType
    <3> QED BY <1>2, <3>1, OutputTypes, SMTT(30)
  <2>2. CASE k <= drained
    <3>1. History[n + k] = delivered[n + k]
      BY <1>1, <2>1, <2>2
    <3>2. k \in 1 .. drained BY <2>2, OutputTypes
    <3>3. output[k] = delivered[Len(delivered) - drained + k]
      BY <3>2 DEF WindowInv
    <3> QED BY <1>2, <3>1, <3>3
  <2>3. CASE ~ (k <= drained)
    <3>0. ~ (n + k <= Len(delivered)) BY <2>1, <2>3
    <3>1. History[n + k] = Unread[k - drained]
      <4> DEFINE i == n + k
      <4>1. i \in 1 .. Len(delivered) + Len(Unread) /\ ~ (i <= Len(delivered))
        BY <2>1, <3>0
      <4> HIDE DEF i
      <4>2. History[i] = Unread[i - Len(delivered)]
        BY <1>1, <4>1
      <4>3. History[n + k] = Unread[n + k - Len(delivered)]
        BY <1>2, <2>1, <4>2, OutputNumbers, SMTT(30) DEF i
      <4> QED BY <2>1, <4>3
    <3>2. k - drained \in 1 .. Len(output) - drained /\ drained + (k - drained) = k
      BY <2>1, <2>3, OutputTypes
    <3> QED BY <3>1, <3>2, UnreadType
  <2> QED BY <2>2, <2>3
<1>5. output = SubSeq(History, n + 1, Len(History))
  <2>1. output \in Seq(Byte) /\ History \in Seq(Byte)
    BY <1>1, OutputTypes
  <2> QED BY <1>2, <1>3, <1>4, <2>1, SuffixIs
<1>6. Len(output) >= Min2(Len(History), WINDOW_SIZE)
  <2>1. drained < Len(delivered) => WINDOW_SIZE <= Len(output)
    BY DEF WindowInv
  <2> QED BY <1>2, <1>3, <2>1, OutputTypes DEF Min2
<1>7. n >= 0
  BY <1>2
<1> QED BY <1>5, <1>6, <1>7 DEF WindowKept, n

(* What the caller has taken grows by the bytes advance passes over.       *)
LEMMA AdvanceDelivered ==
  ASSUME IInv, NEW n \in 0 .. Len(Unread), Advance(n)
  PROVE  /\ Len(delivered') = Len(delivered) + n
         /\ \A k \in 1 .. Len(delivered) : delivered'[k] = delivered[k]
         /\ \A k \in 1 .. n : delivered'[Len(delivered) + k] = output[drained + k]
<1> DEFINE taken == SubSeq(Unread, 1, n)
<1>1. n \in Nat /\ n <= Len(Unread) /\ Len(Unread) = Len(output) - drained
  BY OutputTypes, UnreadType
<1>2. \A i \in 1 .. n : Unread[i] \in Byte
  BY <1>1, UnreadType, ElementOfSeq
<1>3. /\ taken \in Seq(Byte)
      /\ Len(taken) = IF 1 <= n THEN n - 1 + 1 ELSE 0
      /\ \A i \in 1 .. n - 1 + 1 : taken[i] = Unread[1 + i - 1]
  BY <1>1, <1>2, SubSeqProperties
<1>4. delivered' = delivered \o taken
  BY DEF Advance
<1> HIDE DEF taken
<1>5. Len(taken) = n /\ \A i \in 1 .. n : taken[i] = Unread[i]
  BY <1>1, <1>3
<1>6. /\ Len(delivered') = Len(delivered) + Len(taken)
      /\ \A i \in 1 .. Len(delivered) + Len(taken) : delivered'[i] =
           IF i <= Len(delivered) THEN delivered[i] ELSE taken[i - Len(delivered)]
  BY <1>3, <1>4, OutputTypes, ConcatProperties
<1>7. ASSUME NEW k \in 1 .. n
      PROVE  delivered'[Len(delivered) + k] = output[drained + k]
  <2>1. /\ Len(delivered) + k \in 1 .. Len(delivered) + Len(taken)
        /\ ~ (Len(delivered) + k <= Len(delivered))
        /\ Len(delivered) + k - Len(delivered) = k
        /\ k \in 1 .. Len(output) - drained
    BY <1>1, <1>5, OutputTypes
  <2> QED BY <1>5, <1>6, <2>1, UnreadType
<1>8. ASSUME NEW k \in 1 .. Len(delivered)
      PROVE  delivered'[k] = delivered[k]
  BY <1>1, <1>5, <1>6, OutputTypes
<1> QED BY <1>5, <1>6, <1>7, <1>8

LEMMA AdvanceWindow ==
  ASSUME IInv, WindowInv, NEW n \in 0 .. Len(Unread), Advance(n)
  PROVE  WindowInv'
<1> DEFINE keep == keep_from(Len(output), drained + n)
<1>1. /\ n \in Nat /\ drained + n <= Len(output)
      /\ keep \in Nat /\ keep <= drained + n
      /\ keep > 0 => keep <= Len(output) - WINDOW_SIZE
      /\ drained' = drained + n - keep
      /\ Len(output') = Len(output) - keep
  BY AdvanceOutput
<1>2. \A k \in 1 .. Len(output) - keep : output'[k] = output[k + keep]
  BY AdvanceOutput
<1>3. drained <= Len(delivered)
      /\ (drained < Len(delivered) => WINDOW_SIZE <= Len(output))
  BY DEF WindowInv
<1>4. Len(delivered') = Len(delivered) + n
  BY AdvanceDelivered
<1> HIDE DEF keep
<1>5. ASSUME NEW k \in 1 .. drained'
      PROVE  output'[k] = delivered'[Len(delivered') - drained' + k]
  <2> DEFINE at == Len(delivered) - drained + (k + keep)
  <2>1. /\ k \in Nat /\ k >= 1 /\ k + keep <= drained + n
        /\ Len(delivered') - drained' + k = at
        /\ k \in 1 .. Len(output) - keep
    BY <1>1, <1>4, OutputTypes
  <2>2. output'[k] = output[k + keep]
    BY <1>2, <2>1
  <2>3. CASE k + keep <= drained
    <3>1. k + keep \in 1 .. drained /\ at \in 1 .. Len(delivered)
      <4>1. k + keep \in 1 .. drained
        BY <1>1, <2>1, <2>3, OutputNumbers
      <4> QED BY <1>3, <4>1, OutputNumbers
    <3>2. output[k + keep] = delivered[at]
      BY <3>1 DEF WindowInv
    <3>3. delivered'[at] = delivered[at]
      BY <3>1, AdvanceDelivered
    <3> QED BY <2>1, <2>2, <3>2, <3>3
  <2>4. CASE ~ (k + keep <= drained)
    <3> DEFINE j == k + keep - drained
    <3>1. /\ j \in 1 .. n /\ at = Len(delivered) + j
          /\ drained + j = k + keep
      <4>1. k \in Nat /\ keep \in Nat
        BY <1>1, <2>1
      <4>2. k + keep <= drained + n /\ n \in Nat
        BY <1>1, <2>1
      <4> QED BY <2>4, <4>1, <4>2, OutputNumbers
    <3>2. delivered'[Len(delivered) + j] = output[drained + j]
      BY <3>1, AdvanceDelivered
    <3> QED BY <2>1, <2>2, <3>1, <3>2
  <2> QED BY <2>3, <2>4
<1>6. drained' <= Len(delivered')
  BY <1>1, <1>3, <1>4, OutputTypes
<1>7. drained' < Len(delivered') => WINDOW_SIZE <= Len(output')
  BY <1>1, <1>3, <1>4, OutputTypes
<1> QED BY <1>5, <1>6, <1>7 DEF WindowInv

LEMMA MovesWindow == IInv /\ WindowInv /\ Moves => WindowInv'
<1> SUFFICES ASSUME IInv, WindowInv, Moves PROVE WindowInv'
  OBVIOUS
<1>1. CASE Step
  <2>1. Appends /\ UNCHANGED <<delivered, drained>>
    BY <1>1, StepAppends DEF Step
  <2> QED BY <2>1, OutputTypes DEF Appends, WindowInv
<1>2. CASE \E n \in Nat : Feed(n)
  <2>1. UNCHANGED <<delivered, output, drained>>
    BY <1>2 DEF Feed
  <2> QED BY <2>1 DEF WindowInv
<1>3. CASE \E n \in 0 .. Len(Unread) : Advance(n)
  BY <1>3, AdvanceWindow
<1>4. CASE UNCHANGED vars
  BY <1>4 DEF vars, WindowInv
<1> QED BY <1>1, <1>2, <1>3, <1>4 DEF Moves

(* However the caller drains, compaction never drops an unread byte nor    *)
(* one that a back-reference may reach.                                    *)
THEOREM WindowIsKept == Spec => []WindowKept
<1>1. Init => WindowInv
  BY DEF Init, WindowInv
<1> QED BY <1>1, Invariance, NextMoves, MovesWindow, WindowKeptByInv, PTL DEF Spec
-----------------------------------------------------------------------------
(* Memory.  Without stored blocks the unread bytes stay within the cap and *)
(* one match, and the consumed ones below the compaction threshold.        *)
HuffmanOnly == \A p \in BitsOf(S.size) : S.header[p].type # "stored"

MemInv ==
  /\ drained < COMPACT_THRESHOLD
  /\ HuffmanOnly => /\ state.kind \notin {"StoredAlignAndLen", "StoredBody"}
                    /\ Len(output) - drained < MAX_INTERNAL_BUFFER + MAX_MATCH

LEMMA SameKind ==
  ASSUME IInv, NEW n
  PROVE  /\ [state EXCEPT !.order_idx = n].kind = state.kind
         /\ [state EXCEPT !.len = n].kind = state.kind
         /\ [state EXCEPT !.remaining = n].kind = state.kind
BY StateFamily DEF IInv, TypeOK, PlainStates, BeginStates, StoredStates,
   BitwidthStates, LengthsStates, SymbolStates

LEMMA NoStoredStep ==
  ASSUME IInv, Step, HuffmanOnly,
         state.kind \notin {"StoredAlignAndLen", "StoredBody"}
  PROVE  state'.kind \notin {"StoredAlignAndLen", "StoredBody"}
<1>1. ~ StepStoredAlignAndLen(S) /\ ~ StepStoredBody(S)
  BY DEF StepStoredAlignAndLen, StepStoredBody, InState
<1>2. CASE StepBlockHeader(S)
  <2>1. S.header[Pos].type # "stored"
    BY CurrentReader DEF HuffmanOnly
  <2> QED BY <1>2, <2>1 DEF StepBlockHeader, NeedMoreBytes, Error
<1>3. CASE StepDynamicHeader(S)
  BY <1>3 DEF StepDynamicHeader, NeedMoreBytes, Error
<1>4. CASE StepDynamicBitwidthTable(S)
  <2>1. state' = [state EXCEPT !.order_idx = @ + 1]
          => state' = state \/ state'.kind = state.kind
    BY <1>4, SameKind DEF StepDynamicBitwidthTable, InState
  <2> QED BY <1>4, <2>1 DEF StepDynamicBitwidthTable, NeedMoreBytes, Error
<1>5. CASE StepDynamicCodeLengths(S)
  <2> DEFINE n == S.rle[Pos].repeat
  <2>1. state' = [state EXCEPT !.len = @ + n] => state'.kind = state.kind
    BY <1>5, SameKind DEF StepDynamicCodeLengths, InState
  <2> HIDE DEF n
  <2>2. \/ state' = state
        \/ state' = [state EXCEPT !.len = @ + n]
        \/ state'.kind \in {"SymbolLoop", "Transient"}
    BY <1>5 DEF StepDynamicCodeLengths, NeedMoreBytes, Error, n
  <2> QED BY <2>1, <2>2
<1>6. CASE StepSymbolLoop(S)
  BY <1>6 DEF StepSymbolLoop, NeedMoreBytes, Yield, Error, EndBlock, Finished
<1>7. CASE StepFinished
  BY <1>7 DEF StepFinished, Finished
<1> QED BY <1>1, <1>2, <1>3, <1>4, <1>5, <1>6, <1>7 DEF Step

LEMMA MemNext == IInv /\ MemInv /\ [Next]_vars => MemInv'
<1> SUFFICES ASSUME IInv, MemInv, [Next]_vars PROVE MemInv'
  OBVIOUS
<1> USE OutputNumbers
<1>1. MAX_INTERNAL_BUFFER \in Nat /\ COMPACT_THRESHOLD \in Nat
      /\ WINDOW_SIZE \in Nat /\ WINDOW_SIZE < COMPACT_THRESHOLD
      /\ MAX_MATCH \in Nat /\ MAX_MATCH > 0
  BY StreamsAssumption, DecoderAssumption
<1>2. HuffmanOnly' => HuffmanOnly
  <2>1. id' = id
    BY DEF Next, Step, Feed, Advance, vars
  <2> QED BY <2>1 DEF HuffmanOnly, S
<1>3. CASE Step
  <2>1. drained' = drained
    BY <1>3 DEF Step
  <2>2. ASSUME HuffmanOnly
        PROVE  Len(output') - drained < MAX_INTERNAL_BUFFER + MAX_MATCH
    <3>1. AppendsLittle /\ Appends
      BY <1>3, <2>2, StepAppends DEF MemInv
    <3>2. Len(output') \in Nat
      BY <3>1 DEF Appends
    <3> QED BY <1>1, <2>2, <3>1, <3>2 DEF AppendsLittle, MemInv
  <2> QED BY <1>2, <1>3, <2>1, <2>2, NoStoredStep DEF MemInv
<1>4. CASE \E n \in FeedSizes : Feed(n)
  BY <1>2, <1>4 DEF Feed, MemInv
<1>5. CASE \E n \in 0 .. Len(Unread) : Advance(n)
  <2> PICK n \in 0 .. Len(Unread) : Advance(n)
    BY <1>5
  <2> DEFINE keep == keep_from(Len(output), drained + n)
  <2>1. /\ n \in Nat /\ drained + n <= Len(output)
        /\ keep \in Nat /\ keep <= drained + n
        /\ keep > 0 => \/ keep = drained + n
                       \/ keep = Len(output) - WINDOW_SIZE
        /\ keep = 0 => drained + n < COMPACT_THRESHOLD
        /\ drained' = drained + n - keep
        /\ Len(output') = Len(output) - keep
    BY AdvanceOutput
  <2> HIDE DEF keep
  <2>2. drained' < COMPACT_THRESHOLD
    BY <1>1, <2>1
  <2>3. Len(output') - drained' <= Len(output) - drained
    BY <2>1
  <2>4. state' = state
    BY DEF Advance
  <2>5. HuffmanOnly => Len(output') - drained' < MAX_INTERNAL_BUFFER + MAX_MATCH
    <3>1. HuffmanOnly => Len(output) - drained < MAX_INTERNAL_BUFFER + MAX_MATCH
      BY DEF MemInv
    <3> QED BY <1>1, <2>1, <2>3, <3>1
  <2> QED BY <1>2, <2>2, <2>4, <2>5 DEF MemInv
<1>6. CASE UNCHANGED vars
  BY <1>2, <1>6 DEF vars, MemInv
<1> QED BY <1>3, <1>4, <1>5, <1>6 DEF Next

(* The output buffer of a stream without stored blocks is bounded, however *)
(* long the stream is and however it is fed and drained.                   *)
THEOREM MemoryIsBounded == Spec => []MemoryBounded
<1>1. Init => MemInv
  <2>1. COMPACT_THRESHOLD \in Nat /\ WINDOW_SIZE \in Nat \ {0}
        /\ WINDOW_SIZE < COMPACT_THRESHOLD
        /\ MAX_INTERNAL_BUFFER \in Nat \ {0} /\ MAX_MATCH \in Nat \ {0}
    BY StreamsAssumption, DecoderAssumption
  <2> QED BY <2>1 DEF Init, MemInv
<1>2. IInv /\ MemInv => MemoryBounded
  <2> SUFFICES ASSUME IInv, MemInv, HuffmanOnly
               PROVE  Len(output)
                        < COMPACT_THRESHOLD + MAX_INTERNAL_BUFFER + MAX_MATCH
    BY DEF HuffmanOnly, MemoryBounded
  <2>1. /\ COMPACT_THRESHOLD \in Nat /\ MAX_INTERNAL_BUFFER \in Nat
        /\ MAX_MATCH \in Nat
    BY StreamsAssumption, DecoderAssumption
  <2>2. /\ drained < COMPACT_THRESHOLD
        /\ Len(output) - drained < MAX_INTERNAL_BUFFER + MAX_MATCH
    BY DEF MemInv
  <2> QED BY <2>1, <2>2, OutputNumbers
<1> QED BY <1>1, <1>2, Invariance, MemNext, PTL DEF Spec
-----------------------------------------------------------------------------
(* What a drive that returns for want of input has found too few bits for. *)
Lacks(bits) ==
  LET e     == S.rle[Pos]
      sym   == S.symbol[Pos]
      width == IF sym.kind = "endOfBlock" THEN state.literal.eob
                                          ELSE sym.width
  IN
  \/ state.kind = "BlockHeader" /\ bits < 3
  \/ state.kind = "StoredAlignAndLen" /\ bits < (reader.bit_count % 8) + 32
  \/ state.kind = "StoredBody" /\ state.remaining > 0 /\ bits < 8
  \/ state.kind = "DynamicHeader" /\ bits < 14
  \/ /\ state.kind = "DynamicBitwidthTable"
     /\ state.order_idx < S.dynamic[state.at].hclen /\ bits < 3
  \/ /\ state.kind = "DynamicCodeLengths"
     /\ state.len < S.dynamic[state.at].target_len
     /\ bits < e.width + RleExtraBits(e.code)
  \/ /\ state.kind = "SymbolLoop"
     /\ \/ bits < peeked(state.literal, width)
        \/ /\ sym.kind = "match"
           /\ bits < width + sym.extra + peeked(state.distance, sym.dwidth)
        \/ /\ sym.kind = "match" /\ sym.dkind = "distance"
           /\ bits < width + sym.extra + sym.dwidth + sym.dextra

LEMMA StepLacks ==
  ASSUME IInv, StepFrame, Returns, ~ Yielded, ~ finished',
         \/ StepBlockHeader(S) \/ StepStoredAlignAndLen(S)
         \/ StepStoredBody(S) \/ StepDynamicHeader(S)
         \/ StepDynamicBitwidthTable(S) \/ StepDynamicCodeLengths(S)
         \/ StepSymbolLoop(S) \/ StepFinished
  PROVE  NeedMoreBytes /\ Lacks(available_bits(reader))
<1> DEFINE bits == available_bits(reader)
<1>1. bits \in Nat /\ GoodReader(reader) /\ reader.bit_count \in Nat
  BY CurrentReader, Available
<1>2. /\ \A r : ~ Progress(r) /\ ~ Finished(r)
      /\ \A r : \A b \in BOOLEAN : ~ EndBlock(r, b)
      /\ ~ Error
  BY DEF Returns, Progress, Finished, EndBlock, Error
<1> SUFFICES NeedMoreBytes /\ Lacks(bits)
  OBVIOUS
<1> HIDE DEF bits
<1>4. CASE StepBlockHeader(S)
  BY <1>2, <1>4 DEF StepBlockHeader, InState, Lacks, bits
<1>5. CASE StepStoredAlignAndLen(S)
  BY <1>2, <1>5 DEF StepStoredAlignAndLen, InState, Lacks, bits
<1>6. CASE StepStoredBody(S)
  <2>1. state \in StoredStates /\ state.kind = "StoredBody"
    BY <1>6, StateFamily DEF StepStoredBody, InState, IInv, TypeOK
  <2>2. state.is_final \in BOOLEAN /\ state.remaining \in Nat
    BY <2>1 DEF StoredStates
  <2>3. bits \div 8 = 0 /\ NeedMoreBytes /\ state.remaining > 0
    BY <1>2, <1>6, <2>2 DEF StepStoredBody, bits
  <2> QED BY <1>1, <2>1, <2>3 DEF Lacks
<1>7. CASE StepDynamicHeader(S)
  BY <1>2, <1>7 DEF StepDynamicHeader, InState, Lacks, bits
<1>8. CASE StepDynamicBitwidthTable(S)
  BY <1>2, <1>8 DEF StepDynamicBitwidthTable, InState, Lacks, bits
<1>9. CASE StepDynamicCodeLengths(S)
  <2> DEFINE e     == S.rle[Pos]
             table == state.bitwidth_decoder
             r     == decode(reader, table, e.width)
             extra == RleExtraBits(e.code)
  <2>1. /\ NeedMoreBytes
        /\ state.kind = "DynamicCodeLengths"
        /\ state.len < S.dynamic[state.at].target_len
        /\ bits < peeked(table, e.width) \/ available_bits(r) < extra
    BY <1>2, <1>9 DEF StepDynamicCodeLengths, InState, bits
  <2>2. e.width \in 1 .. 15 /\ extra \in 0 .. 7
    <3>1. e \in RleElements BY CurrentReader, Lookups
    <3> QED BY <3>1 DEF RleElements, RleExtraBits, MAX_BITS
  <2>3. table.peek = 1
    BY <1>9 DEF StepDynamicCodeLengths, InState, IInv, TablesOK
  <2>4. peeked(table, e.width) = e.width
    BY <2>2, <2>3 DEF peeked, Max2
  <2>5. peeked(table, e.width) <= bits => available_bits(r) = bits - e.width
    <3>1. ASSUME peeked(table, e.width) <= available_bits(reader)
          PROVE  available_bits(r) = available_bits(reader) - e.width
      BY <1>1, <2>2, <2>3, <3>1, CurrentReader, Decode DEF GoodReader
    <3> QED BY <3>1 DEF bits
  <2> HIDE DEF table, r
  <2>6. bits < e.width + extra
    <3> HIDE DEF e, extra
    <3> QED BY <1>1, <2>1, <2>2, <2>4, <2>5
  <2> QED BY <2>1, <2>6 DEF Lacks
<1>10. CASE StepSymbolLoop(S)
  <2> DEFINE lit   == state.literal
             dist  == state.distance
             sym   == S.symbol[Pos]
             width == IF sym.kind = "endOfBlock" THEN lit.eob ELSE sym.width
             r1    == decode(reader, lit, width)
             r2    == read_bits(r1, sym.extra)
             r3    == decode(r2, dist, sym.dwidth)
  <2>1. state.kind = "SymbolLoop" /\ state \in SymbolStates
    BY <1>10, StateFamily DEF StepSymbolLoop, InState, IInv, TypeOK
  <2>2. /\ lit.peek \in 1 .. 15 /\ lit.eob \in 0 .. 15 /\ dist.peek \in 1 .. 15
        /\ state.is_final \in BOOLEAN
    BY <2>1 DEF SymbolStates, HuffmanDecoders, MAX_BITS
  <2>3. /\ sym.width \in 1 .. 15 /\ sym.dwidth \in 1 .. 15
        /\ sym.extra \in 0 .. 5 /\ sym.dextra \in 0 .. 13
    <3>1. sym \in Symbols BY CurrentReader, Lookups
    <3> QED BY <3>1 DEF Symbols, MAX_BITS
  <2>4. ~ OutputFull
    <3>1. CASE OutputFull
      <4>1. Yield
        BY <1>10, <3>1 DEF StepSymbolLoop
      <4>2. Yielded
        BY <3>1, <4>1 DEF Yield, OutputFull, Yielded, StepFrame
      <4> QED BY <4>2
    <3> QED BY <3>1
  <2>5. /\ NeedMoreBytes
        /\ \/ bits < peeked(lit, width)
           \/ /\ sym.kind = "match"
              /\ \/ available_bits(r1) < sym.extra
                 \/ available_bits(r2) < peeked(dist, sym.dwidth)
                 \/ /\ sym.dkind = "distance"
                    /\ available_bits(r3) < sym.dextra
    BY <1>2, <1>10, <2>2, <2>4 DEF StepSymbolLoop, bits
  <2>6. width \in 0 .. 15
    BY <2>2, <2>3
  <2>13. /\ \/ bits < peeked(lit, width)
            \/ /\ sym.kind = "match"
               /\ bits < width + sym.extra + peeked(dist, sym.dwidth)
            \/ /\ sym.kind = "match" /\ sym.dkind = "distance"
               /\ bits < width + sym.extra + sym.dwidth + sym.dextra
    <3> HIDE DEF width
    <3>7. peeked(lit, width) \in 1 .. 15 /\ peeked(dist, sym.dwidth) \in 1 .. 15
      BY <2>2, <2>3, <2>6 DEF peeked, Max2
    <3> HIDE DEF lit, dist, sym
    <3>8. peeked(lit, width) <= bits
            => GoodReader(r1) /\ available_bits(r1) = bits - width
      <4>1. ASSUME peeked(lit, width) <= available_bits(reader)
            PROVE  /\ GoodReader(r1)
                   /\ available_bits(r1) = available_bits(reader) - width
        <5>1. lit.peek \in Nat /\ width \in Nat
          BY <2>2, <2>6
        <5> QED BY <1>1, <4>1, <5>1, CurrentReader, Decode, DecodeReader
                DEF GoodReader
      <4> QED BY <4>1 DEF bits
    <3> HIDE DEF r1
    <3>9. GoodReader(r1) /\ sym.extra <= available_bits(r1)
            => /\ GoodReader(r2)
               /\ available_bits(r2) = available_bits(r1) - sym.extra
      <4>1. sym.extra \in Nat
        BY <2>3
      <4> QED BY <4>1, CurrentReader, ReadReader, ReadBits DEF GoodReader
    <3> HIDE DEF r2
    <3>10. GoodReader(r2) /\ peeked(dist, sym.dwidth) <= available_bits(r2)
             => available_bits(r3) = available_bits(r2) - sym.dwidth
      <4>1. dist.peek \in Nat /\ sym.dwidth \in Nat
        BY <2>2, <2>3
      <4> QED BY <4>1, CurrentReader, Decode DEF GoodReader
    <3> HIDE DEF r3
    <3>11. /\ GoodReader(r1) => available_bits(r1) \in Nat
           /\ GoodReader(r2) => available_bits(r2) \in Nat
      BY Available
    <3>12. CASE bits < peeked(lit, width)
      BY <3>12
    <3>13. CASE ~ (bits < peeked(lit, width))
      <4>1. GoodReader(r1) /\ available_bits(r1) = bits - width
        BY <1>1, <3>7, <3>8, <3>13
      <4>2. /\ sym.kind = "match"
            /\ \/ available_bits(r1) < sym.extra
               \/ available_bits(r2) < peeked(dist, sym.dwidth)
               \/ /\ sym.dkind = "distance"
                  /\ available_bits(r3) < sym.dextra
        BY <2>5, <3>13
      <4>3. CASE available_bits(r1) < sym.extra
        BY <1>1, <2>3, <2>6, <3>7, <4>1, <4>2, <4>3
      <4>4. CASE ~ (available_bits(r1) < sym.extra)
        <5>1. /\ GoodReader(r2)
              /\ available_bits(r2) = bits - width - sym.extra
          BY <1>1, <2>3, <2>6, <3>9, <3>11, <4>1, <4>4
        <5>2. CASE available_bits(r2) < peeked(dist, sym.dwidth)
          BY <1>1, <2>3, <2>6, <3>7, <4>2, <5>1, <5>2
        <5>3. CASE ~ (available_bits(r2) < peeked(dist, sym.dwidth))
          <6>1. available_bits(r3) = bits - width - sym.extra - sym.dwidth
            BY <2>3, <3>7, <3>10, <3>11, <5>1, <5>3
          <6>2. sym.dkind = "distance" /\ available_bits(r3) < sym.dextra
            BY <4>2, <4>4, <5>3
          <6> DEFINE left == available_bits(r3)
          <6>3. left = bits - width - sym.extra - sym.dwidth /\ left < sym.dextra
            BY <6>1, <6>2
          <6> HIDE DEF left
          <6>4. bits < width + sym.extra + sym.dwidth + sym.dextra
            <7>1. /\ bits \in Int /\ width \in Int /\ sym.extra \in Int
                  /\ sym.dwidth \in Int /\ sym.dextra \in Int
              BY <1>1, <2>3, <2>6
            <7> QED BY <6>3, <7>1
          <6> QED BY <4>2, <6>2, <6>4
        <5> QED BY <5>2, <5>3
      <4> QED BY <4>3, <4>4
    <3> QED BY <3>12, <3>13
  <2> QED BY <2>1, <2>5, <2>13 DEF Lacks
<1>11. CASE StepFinished
  BY <1>2, <1>11 DEF StepFinished
<1> QED BY <1>4, <1>5, <1>6, <1>7, <1>8, <1>9, <1>10, <1>11

(* The most a step may lack is one bit of the longest match: a code of 15  *)
(* bits and 5 more for its length, 15 and 13 for its distance.             *)
LEMMA LacksLittle ==
  ASSUME IInv, Lacks(available_bits(reader))
  PROVE  available_bits(reader) < 48
<1> DEFINE bits == available_bits(reader)
<1>1. bits \in Nat /\ reader.bit_count \in Nat
  BY CurrentReader, Available DEF GoodReader, Readers
<1>2. Lacks(bits)
  OBVIOUS
<1> HIDE DEF bits
<1>3. CASE state.kind \notin {"DynamicCodeLengths", "SymbolLoop"}
  <2>1. reader.bit_count % 8 \in 0 .. 7
    BY <1>1
  <2> QED BY <1>1, <1>2, <1>3, <2>1 DEF Lacks, bits
<1>4. CASE state.kind = "DynamicCodeLengths"
  <2> DEFINE e == S.rle[Pos]
             extra == RleExtraBits(e.code)
  <2>1. e.width \in 1 .. 15 /\ extra \in 0 .. 7
    <3>1. e \in RleElements BY CurrentReader, Lookups
    <3> QED BY <3>1 DEF RleElements, RleExtraBits, MAX_BITS
  <2>2. bits < e.width + extra
    BY <1>2, <1>4 DEF Lacks
  <2> HIDE DEF e, extra
  <2>3. bits < 48
    BY <1>1, <2>1, <2>2
  <2> QED BY <2>3 DEF bits
<1>5. CASE state.kind = "SymbolLoop"
  <2> DEFINE sym   == S.symbol[Pos]
             width == IF sym.kind = "endOfBlock" THEN state.literal.eob
                                                 ELSE sym.width
             code  == peeked(state.literal, width)
             dcode == peeked(state.distance, sym.dwidth)
  <2>1. /\ sym.width \in 1 .. 15 /\ sym.dwidth \in 1 .. 15
        /\ sym.extra \in 0 .. 5 /\ sym.dextra \in 0 .. 13
    <3>1. sym \in Symbols BY CurrentReader, Lookups
    <3> QED BY <3>1 DEF Symbols, MAX_BITS
  <2>2. /\ state.literal.peek \in 1 .. 15 /\ state.distance.peek \in 1 .. 15
        /\ width \in 0 .. 15
    <3>1. state \in SymbolStates
      BY <1>5, StateFamily DEF IInv, TypeOK
    <3> QED BY <2>1, <3>1 DEF SymbolStates, HuffmanDecoders, MAX_BITS
  <2>3. code \in 1 .. 15 /\ dcode \in 1 .. 15
    <3> HIDE DEF width, sym
    <3> QED BY <2>1, <2>2 DEF peeked, Max2
  <2>4. \/ bits < code
        \/ bits < width + sym.extra + dcode
        \/ bits < width + sym.extra + sym.dwidth + sym.dextra
    BY <1>2, <1>5 DEF Lacks
  <2> HIDE DEF code, dcode, width, sym
  <2>5. bits < 48
    BY <1>1, <2>1, <2>2, <2>3, <2>4
  <2> QED BY <2>5 DEF bits
<1> QED BY <1>3, <1>4, <1>5

(* A feed that returns for want of input has left fewer than 48 bits       *)
(* unread, so what decoder.input holds between two feeds is bounded.       *)
THEOREM LittleIsHeldBack == Spec => HoldsBackLittle
<1>1. ASSUME IInv, [Next]_vars
      PROVE  [Returns /\ ~ Yielded /\ ~ finished'
                => 8 * input' + pending' < 48]_vars
  <2> SUFFICES ASSUME Returns, ~ Yielded, ~ finished', Next
               PROVE  8 * input' + pending' < 48
    BY <1>1
  <2>1. Step
    BY DEF Returns, Next, Feed, Advance
  <2>2. StepFrame
    BY <2>1 DEF Step, StepFrame
  <2>3. NeedMoreBytes /\ Lacks(available_bits(reader))
    BY <1>1, <2>1, <2>2, StepLacks DEF Step
  <2>4. available_bits(reader) < 48
    BY <1>1, <2>3, LacksLittle
  <2> QED
    BY <1>1, <2>3, <2>4, CurrentReader
    DEF NeedMoreBytes, Commit, available_bits, GoodReader, Readers
<1> QED BY <1>1, Invariance, PTL DEF Spec, HoldsBackLittle
-----------------------------------------------------------------------------
(***************************************************************************)
(* The streaming decoder implements Inflate, for every stream, every size  *)
(* of the buffers and every order of the caller's calls.                   *)
(*                                                                         *)
(* A step that reads an element of the format is the step of Inflate that  *)
(* reads it; every other step (a drive that runs out of input or of room,  *)
(* feed, advance with its compaction) leaves the position, the phase and   *)
(* the history as they are.  Two facts of the invariant carry the proof:   *)
(* how many bits a reader may hold, which places it in the stream, and the *)
(* window, which makes the output buffer as good as the whole history for  *)
(* a back-reference, and too short for it exactly when the history is.     *)
(*                                                                         *)
(* Its compaction, which Inflate does not see, is rare: the last part.     *)
(***************************************************************************)
(* The outcomes of a step move the position to that of the step's reader.  *)
LEMMA StepPos ==
  ASSUME IInv, StepFrame, NEW r, GoodReader(r), Progress(r) \/ Commit(r)
  PROVE  Pos' = PosOf(r)
<1>1. /\ fed \in Nat /\ input \in Nat /\ fed' = fed
      /\ r.byte_index \in Nat /\ r.bit_count \in Nat
  BY CurrentReader DEF GoodReader, Readers, StepFrame
<1>2. CASE Progress(r)
  BY <1>1, <1>2 DEF Progress, Pos, PosOf, BytePos
<1>3. CASE Commit(r)
  <2>1. /\ input' = input - r.byte_index
        /\ reader' = [byte_index |-> 0, bit_count |-> r.bit_count]
    BY <1>3 DEF Commit, new_seeded
  <2> QED BY <1>1, <2>1 DEF Pos, PosOf, BytePos
<1> QED BY <1>2, <1>3

(* What a reader has available ends where the bytes fed end.               *)
LEMMA PosAvailable ==
  ASSUME IInv, NEW r, GoodReader(r)
  PROVE  /\ PosOf(r) \in Nat /\ available_bits(r) \in Nat
         /\ PosOf(r) + available_bits(r) = 8 * fed
         /\ 8 * fed \in Nat /\ 8 * fed <= 8 * S.size /\ S.size \in Nat
BY CurrentReader DEF GoodReader, Readers, PosOf, BytePos, available_bits

LEMMA ReadPos ==
  ASSUME IInv, NEW r, GoodReader(r), NEW n \in Nat, n <= available_bits(r)
  PROVE  LET p == read_bits(r, n) IN
         /\ GoodReader(p) /\ PosOf(p) = PosOf(r) + n
         /\ available_bits(p) = available_bits(r) - n
<1> DEFINE p == read_bits(r, n)
<1>1. input \in Nat /\ fed \in Nat /\ input <= fed
  BY CurrentReader
<1>2. r \in Readers /\ r.byte_index <= input
  BY DEF GoodReader
<1>3. /\ p \in Readers
      /\ 8 * p.byte_index - p.bit_count = 8 * r.byte_index - r.bit_count + n
      /\ available_bits(p) = available_bits(r) - n
  BY <1>1, <1>2, ReadReader
<1>4. GoodReader(p)
  BY ReadBits
<1> HIDE DEF p
<1>5. PosOf(p) = PosOf(r) + n
  BY <1>1, <1>2, <1>3 DEF PosOf, BytePos, Readers
<1> QED BY <1>3, <1>4, <1>5 DEF p

LEMMA DecodePos ==
  ASSUME IInv, NEW r, GoodReader(r), NEW table, table.peek \in Nat,
         NEW w \in Nat, peeked(table, w) <= available_bits(r)
  PROVE  LET p == decode(r, table, w) IN
         /\ GoodReader(p) /\ PosOf(p) = PosOf(r) + w
         /\ available_bits(p) = available_bits(r) - w
<1> DEFINE p == decode(r, table, w)
<1>1. input \in Nat /\ fed \in Nat /\ input <= fed
  BY CurrentReader
<1>2. r \in Readers /\ r.byte_index <= input
  BY DEF GoodReader
<1>3. /\ p \in Readers
      /\ 8 * p.byte_index - p.bit_count = 8 * r.byte_index - r.bit_count + w
      /\ available_bits(p) = available_bits(r) - w
  BY <1>1, <1>2, Decode
<1>4. GoodReader(p)
  BY DecodeReader
<1> HIDE DEF p
<1>5. PosOf(p) = PosOf(r) + w
  BY <1>1, <1>2, <1>3 DEF PosOf, BytePos, Readers
<1> QED BY <1>3, <1>4, <1>5 DEF p
-----------------------------------------------------------------------------
(* The history.                                                            *)
LEMMA HistoryType ==
  ASSUME IInv
  PROVE  /\ History \in Seq(Byte)
         /\ Len(History) = Len(delivered) + (Len(output) - drained)
         /\ Len(History) \in Nat
BY OutputTypes, UnreadType DEF History

LEMMA HistoryKept ==
  ASSUME StepFrame, output' = output
  PROVE  History' = History
BY DEF StepFrame, History, Unread

(* What is appended to the buffer is appended to the history.              *)
LEMMA HistoryGrows ==
  ASSUME IInv, StepFrame, NEW more \in Seq(Byte), output' = output \o more
  PROVE  History' = History \o more
<1>1. output \in Seq(Byte) /\ drained \in 0 .. Len(output)
  BY DEF IInv, TypeOK
<1>2. delivered \in Seq(Byte) /\ Unread \in Seq(Byte)
  BY OutputTypes, UnreadType
<1>3. SubSeq(output \o more, drained + 1, Len(output \o more)) = Unread \o more
  BY <1>1, DropOfConcat DEF Unread
<1>4. Unread' = Unread \o more /\ delivered' = delivered
  BY <1>3 DEF Unread, StepFrame
<1>5. (delivered \o Unread) \o more = delivered \o (Unread \o more)
  BY <1>2, ConcatAssociative
<1> QED BY <1>4, <1>5 DEF History

(* What advance takes off the output it adds to what is delivered, and     *)
(* what maybe_compact drops had been delivered.                            *)
LEMMA HistoryAdvances ==
  ASSUME IInv, NEW n \in 0 .. Len(Unread), Advance(n)
  PROVE  History' = History
<1> DEFINE keep == keep_from(Len(output), drained + n)
           taken == SubSeq(Unread, 1, n)
           rest  == SubSeq(Unread, n + 1, Len(Unread))
<1>1. output \in Seq(Byte) /\ drained \in 0 .. Len(output)
  BY DEF IInv, TypeOK
<1>2. /\ delivered \in Seq(Byte) /\ Unread \in Seq(Byte)
      /\ drained \in Nat /\ Len(output) \in Nat
  BY OutputTypes, UnreadType
<1>3. /\ n \in Nat /\ drained + n <= Len(output)
      /\ Len(Unread) = Len(output) - drained
      /\ keep \in Nat /\ keep <= drained + n
      /\ drained' = drained + n - keep
      /\ Len(output') = Len(output) - keep
  BY AdvanceOutput
<1>4. /\ output' = SubSeq(output, keep + 1, Len(output))
      /\ delivered' = delivered \o taken
  BY DEF Advance
<1> HIDE DEF keep
<1>5. Unread' = SubSeq(output, drained + n + 1, Len(output))
  <2>1. keep \in 0 .. Len(output) /\ drained' \in 0 .. Len(output) - keep
        /\ keep + drained' = drained + n
    BY <1>2, <1>3
  <2>2. SubSeq(SubSeq(output, keep + 1, Len(output)), drained' + 1,
               Len(output) - keep)
          = SubSeq(output, keep + drained' + 1, Len(output))
    BY <1>1, <2>1, DropOfDrop
  <2> QED BY <1>3, <1>4, <2>1, <2>2 DEF Unread
<1>6. rest = SubSeq(output, drained + n + 1, Len(output))
  <2>1. n \in 0 .. Len(output) - drained
    BY <1>2, <1>3
  <2>2. SubSeq(SubSeq(output, drained + 1, Len(output)), n + 1,
               Len(output) - drained)
          = SubSeq(output, drained + n + 1, Len(output))
    BY <1>1, <2>1, DropOfDrop
  <2> QED BY <1>3, <2>2 DEF Unread
<1>7. Unread = taken \o rest /\ taken \in Seq(Byte) /\ rest \in Seq(Byte)
  BY <1>2, SplitAt, TakeProperties, DropProperties
<1>8. Unread' = rest
  BY <1>5, <1>6
<1> HIDE DEF taken, rest
<1>9. (delivered \o taken) \o rest = delivered \o (taken \o rest)
  BY <1>2, <1>7, ConcatAssociative
<1> QED BY <1>4, <1>7, <1>8, <1>9 DEF History

(* A back-reference finds in the buffer what it would find in the history, *)
(* and too little in the one exactly when there is too little in the other.*)
LEMMA Reach ==
  ASSUME IInv, WindowInv, NEW d \in 1 .. WINDOW_SIZE, NEW n \in Nat
  PROVE  /\ d <= Len(History) <=> d <= Len(output)
         /\ d <= Len(output) => Repeated(History, d, n) = Repeated(output, d, n)
<1> DEFINE k == Len(History) - Len(output)
<1>1. /\ output \in Seq(Byte) /\ History \in Seq(Byte)
      /\ Len(output) \in Nat /\ Len(History) \in Nat /\ WINDOW_SIZE \in Nat
      /\ d \in Nat /\ d >= 1 /\ d <= WINDOW_SIZE
  BY OutputTypes, HistoryType
<1>2. /\ k >= 0 /\ output = SubSeq(History, k + 1, Len(History))
      /\ Len(output) >= Min2(Len(History), WINDOW_SIZE)
  BY WindowKeptByInv DEF WindowKept
<1>3. k \in 0 .. Len(History)
  BY <1>1, <1>2
<1> HIDE DEF k
<1>4. /\ Len(output) = Len(History) - k
      /\ \A i \in 1 .. Len(History) - k : output[i] = History[k + i]
  BY <1>1, <1>2, <1>3, DropProperties
<1>5. d <= Len(History) <=> d <= Len(output)
  BY <1>1, <1>2, <1>3, <1>4 DEF Min2
<1>6. ASSUME d <= Len(output)
      PROVE  Repeated(History, d, n) = Repeated(output, d, n)
  <2>1. ASSUME NEW i \in 1 .. n
        PROVE  History[Len(History) - d + 1 + ((i - 1) % d)]
                 = output[Len(output) - d + 1 + ((i - 1) % d)]
    <3> DEFINE m == (i - 1) % d
    <3>1. m \in 0 .. d - 1
      BY <1>1, SMT
    <3> HIDE DEF m
    <3>2. /\ Len(output) - d + 1 + m \in 1 .. Len(History) - k
          /\ k + (Len(output) - d + 1 + m) = Len(History) - d + 1 + m
      BY <1>1, <1>3, <1>4, <1>6, <3>1
    <3>3. output[Len(output) - d + 1 + m] = History[Len(History) - d + 1 + m]
      BY <1>4, <3>2
    <3> QED BY <3>3 DEF m
  <2> QED BY <2>1 DEF Repeated
<1> QED BY <1>5, <1>6
-----------------------------------------------------------------------------
(* Where the decoder stands for Inflate, in each of its states.            *)
LEMMA PhaseOf ==
  /\ state.kind = "Transient" => Phase = [kind |-> "Failed"] /\ AbstractPos = 0
  /\ state.kind # "Transient" => AbstractPos = Pos
  /\ state.kind = "DynamicCodeLengths" =>
       Phase = [kind |-> "DynamicCodeLengths", is_final |-> state.is_final,
                at |-> state.at, len |-> state.len]
  /\ state.kind = "SymbolLoop" =>
       Phase = [kind |-> "SymbolLoop", is_final |-> state.is_final,
                eob |-> state.literal.eob]
  /\ state.kind \notin {"Transient", "DynamicCodeLengths", "SymbolLoop"} =>
       Phase = state
BY DEF Phase, AbstractPos

LEMMA PhaseOfNext ==
  /\ state'.kind = "Transient" =>
       Phase' = [kind |-> "Failed"] /\ AbstractPos' = 0
  /\ state'.kind # "Transient" => AbstractPos' = Pos'
  /\ state'.kind = "DynamicCodeLengths" =>
       Phase' = [kind |-> "DynamicCodeLengths", is_final |-> state'.is_final,
                 at |-> state'.at, len |-> state'.len]
  /\ state'.kind = "SymbolLoop" =>
       Phase' = [kind |-> "SymbolLoop", is_final |-> state'.is_final,
                 eob |-> state'.literal.eob]
  /\ state'.kind \notin {"Transient", "DynamicCodeLengths", "SymbolLoop"} =>
       Phase' = state'
BY DEF Phase, AbstractPos

Inflates == [Abstract!Next]_(Abstract!vars)

LEMMA Stutters ==
  ASSUME id' = id, AbstractPos' = AbstractPos, Phase' = Phase,
         History' = History
  PROVE  Inflates
BY DEF Inflates, Abstract!vars

(* A drive that returns for want of input or of room.                      *)
LEMMA LeaveStutters ==
  ASSUME IInv, StepFrame, Commit(reader), UNCHANGED <<state, output, finished>>
  PROVE  Inflates
<1>1. Pos' = Pos
  BY CurrentReader, StepPos DEF Pos
<1>2. AbstractPos' = AbstractPos /\ Phase' = Phase
  BY <1>1 DEF AbstractPos, Phase
<1>3. History' = History
  BY HistoryKept
<1> QED BY <1>2, <1>3, Stutters DEF StepFrame

(* A drive that reports what is malformed.                                 *)
LEMMA Rejects ==
  ASSUME StepFrame, Error, Abstract!Malformed
  PROVE  Inflates
<1>1. state' = [kind |-> "Transient"] /\ output' = output
  BY DEF Error
<1>2. Phase' = [kind |-> "Failed"] /\ AbstractPos' = 0
  BY <1>1, PhaseOfNext
<1>3. History' = History /\ id' = id
  BY <1>1, HistoryKept DEF StepFrame
<1>4. Abstract!Reject
  BY <1>2, <1>3 DEF Abstract!Reject
<1> QED BY <1>3, <1>4 DEF Abstract!Next, Inflates

(* Reading an element of n bits: the position before and after it.         *)
Reads(n) == /\ AbstractPos' = AbstractPos + n
            /\ AbstractPos + n <= 8 * S.size
            /\ id' = id

LEMMA ReadsRead ==
  ASSUME NEW n, Reads(n)
  PROVE  Abstract!Read(n)
BY DEF Reads, Abstract!Read, Abstract!Has, Abstract!S, S

(* A step that ends with reader r, n bits behind the current one, in a     *)
(* state that is not the placeholder.                                      *)
LEMMA StepReads ==
  ASSUME IInv, StepFrame, NEW r, GoodReader(r), Progress(r) \/ Commit(r),
         state.kind # "Transient", state'.kind # "Transient",
         NEW n \in Nat, PosOf(r) = Pos + n
  PROVE  Reads(n)
<1>1. Pos' = Pos + n
  BY StepPos
<1>2. AbstractPos' = Pos' /\ AbstractPos = Pos
  BY PhaseOf, PhaseOfNext
<1>3. PosOf(r) <= 8 * S.size
  BY PosAvailable
<1> QED BY <1>1, <1>2, <1>3 DEF Reads, StepFrame

LEMMA StepBlockHeaderInflates ==
  ASSUME IInv, StepFrame, StepBlockHeader(S)
  PROVE  Inflates
<1> DEFINE h == S.header[Pos]
           r == read_bits(reader, 3)
<1>1. state.kind = "BlockHeader"
  BY DEF StepBlockHeader, InState
<1>2. Phase = state /\ AbstractPos = Pos /\ Abstract!S = S
  BY <1>1, PhaseOf DEF Abstract!S, S
<1>3. CASE NeedMoreBytes
  BY <1>3, LeaveStutters DEF NeedMoreBytes
<1>4. CASE h.type = "reserved" /\ Error
  <2>1. Abstract!Malformed
    BY <1>1, <1>2, <1>4
       DEF Abstract!Malformed, Abstract!ReservedType
  <2> QED BY <1>4, <2>1, Rejects
<1>5. CASE /\ available_bits(reader) >= 3
           /\ Progress(r) /\ UNCHANGED output
           /\ \/ /\ h.type = "stored"
                 /\ state' = [kind |-> "StoredAlignAndLen", is_final |-> h.is_final]
              \/ /\ h.type = "fixed"
                 /\ state' = [kind |-> "SymbolLoop", is_final |-> h.is_final,
                              literal |-> FixedLiteral, distance |-> FixedDistance]
              \/ /\ h.type = "dynamic"
                 /\ state' = [kind |-> "DynamicHeader", is_final |-> h.is_final]
  <2>1. GoodReader(r) /\ PosOf(r) = Pos + 3
    <3>1. GoodReader(reader) /\ 3 <= available_bits(reader)
      BY <1>5, CurrentReader, Available
    <3> QED BY <3>1, ReadPos DEF Pos
  <2> HIDE DEF r, h
  <2>2. Reads(3)
    BY <1>1, <1>5, <2>1, StepReads
  <2>3. History' = History
    BY <1>5, HistoryKept
  <2>4. Phase.kind = "BlockHeader" /\ Abstract!Read(3)
    BY <1>1, <1>2, <2>2, ReadsRead
  <2>5. Abstract!fixed_literal_code_lengths = fixed_literal_code_lengths
    BY DEF Abstract!fixed_literal_code_lengths, fixed_literal_code_lengths
  <2>6. \/ /\ h.type = "stored"
           /\ Phase' = [kind |-> "StoredAlignAndLen", is_final |-> h.is_final]
        \/ /\ h.type = "fixed"
           /\ Phase' = [kind |-> "SymbolLoop", is_final |-> h.is_final,
                        eob |-> fixed_literal_code_lengths.eob]
        \/ /\ h.type = "dynamic"
           /\ Phase' = [kind |-> "DynamicHeader", is_final |-> h.is_final]
    BY <1>5, PhaseOfNext DEF FixedLiteral, from_code_lengths
  <2>7. Abstract!ReadHeader
    BY <1>2, <2>3, <2>4, <2>5, <2>6 DEF Abstract!ReadHeader, h
  <2> QED BY <2>2, <2>7 DEF Reads, Abstract!Next, Inflates
<1> QED BY <1>3, <1>4, <1>5 DEF StepBlockHeader

(* The end of a block, at reader r.                                        *)
LEMMA EndsBlock ==
  ASSUME NEW r, NEW is_final \in BOOLEAN, EndBlock(r, is_final)
  PROVE  /\ Progress(r) \/ Commit(r)
         /\ state'.kind # "Transient"
         /\ Phase' = Abstract!EndOf(is_final)
<1>1. \/ is_final /\ Commit(r) /\ state' = [kind |-> "Finished"]
      \/ ~ is_final /\ Progress(r) /\ state' = [kind |-> "BlockHeader"]
  BY DEF EndBlock, Finished
<1> QED BY <1>1, PhaseOfNext DEF Abstract!EndOf

(* The byte boundary at or above a bit.                                    *)
LEMMA ByteAbove ==
  ASSUME NEW x \in Int, NEW c \in 0 .. 7
  PROVE  8 * x = 8 * ((8 * x - c + 7) \div 8)
BY SMT

LEMMA StepStoredAlignAndLenInflates ==
  ASSUME IInv, StepFrame, StepStoredAlignAndLen(S)
  PROVE  Inflates
<1> DEFINE aligned == align_to_byte(reader)
           at      == BytePos(unwound(aligned))
           word    == S.lens[at]
           r       == read_bytes(aligned, 4)
<1>1. state.kind = "StoredAlignAndLen"
  BY DEF StepStoredAlignAndLen, InState
<1>2. Phase = state /\ AbstractPos = Pos /\ Abstract!S = S
  BY <1>1, PhaseOf DEF Abstract!S, S
<1>3. CASE NeedMoreBytes
  BY <1>3, LeaveStutters DEF NeedMoreBytes
<1>4. /\ fed \in Nat /\ input \in Nat /\ input <= fed /\ fed <= S.size
      /\ S.size \in Nat /\ GoodReader(reader)
      /\ reader.byte_index \in Nat /\ reader.byte_index <= input
      /\ reader.bit_count \in 0 .. 7
      /\ Pos = 8 * (fed - input + reader.byte_index) - reader.bit_count
  <2>1. reader.bit_count <= 7 /\ reader.bit_count \in Nat
    BY <1>1, CurrentReader, Available DEF IInv, BitsOK, BitLimit
  <2>2. reader.bit_count \in 0 .. 7
    <3> DEFINE c == reader.bit_count
    <3>1. c \in Nat /\ c <= 7
      BY <2>1
    <3> HIDE DEF c
    <3>2. c \in 0 .. 7
      BY <3>1
    <3> QED BY <3>2 DEF c
  <2>3. reader.byte_index \in Nat /\ reader.byte_index <= input
    BY CurrentReader DEF GoodReader, Readers
  <2> QED BY <2>2, <2>3, CurrentReader
<1>5. /\ unwound(aligned) = reader.byte_index
      /\ at = 8 * (fed - input + reader.byte_index)
      /\ r = [byte_index |-> reader.byte_index + 4, bit_count |-> 0]
  BY <1>4 DEF align_to_byte, unwound, read_bytes, BytePos
<1>6. Abstract!Aligned = at
  <2>1. at \in Nat /\ Pos = at - reader.bit_count
    BY <1>4, <1>5
  <2>2. at = 8 * ((Pos + 7) \div 8)
    <3> DEFINE x == fed - input + reader.byte_index
    <3>1. x \in Int /\ at = 8 * x /\ Pos = 8 * x - reader.bit_count
      BY <1>4, <1>5
    <3> HIDE DEF x
    <3> QED BY <1>4, <3>1, ByteAbove
  <2> QED BY <1>2, <2>2 DEF Abstract!Aligned
<1> HIDE DEF aligned, at, r
<1>7. CASE ~ word.ok /\ Error
  <2>1. Abstract!Aligned <= 8 * Abstract!S.size
    BY <1>2, <1>4, <1>5, <1>6
  <2>2. Abstract!Malformed
    BY <1>1, <1>2, <1>6, <1>7, <2>1
       DEF Abstract!Malformed, Abstract!LengthsDisagree
  <2> QED BY <1>7, <2>2, Rejects
<1>8. CASE /\ available_bits(reader) >= (reader.bit_count % 8) + 32
           /\ word.ok
           /\ state' = [kind |-> "StoredBody", is_final |-> state.is_final,
                        remaining |-> word.len]
           /\ Progress(r) /\ UNCHANGED output
  <2>1. reader.byte_index + 4 <= input
    BY <1>4, <1>8 DEF available_bits
  <2>2. GoodReader(r) /\ PosOf(r) = at + 32 /\ PosOf(r) \in Nat
    BY <1>4, <1>5, <2>1 DEF GoodReader, Readers, PosOf, BytePos
  <2>3. Pos' = at + 32 /\ at + 32 <= 8 * S.size
    <3>1. Pos' = PosOf(r) /\ PosOf(r) <= 8 * S.size
      BY <1>8, <2>2, StepPos, PosAvailable
    <3> QED BY <2>2, <3>1
  <2>4. Phase' = [kind |-> "StoredBody", is_final |-> state.is_final,
                  remaining |-> word.len] /\ AbstractPos' = Pos'
    BY <1>8, PhaseOfNext
  <2>5. History' = History
    BY <1>8, HistoryKept
  <2>6. Abstract!ReadStoredLength
    BY <1>1, <1>2, <1>6, <1>8, <2>3, <2>4, <2>5 DEF Abstract!ReadStoredLength
  <2> QED BY <2>6 DEF Abstract!Next, Inflates, StepFrame
<1> QED
  BY <1>3, <1>7, <1>8 DEF StepStoredAlignAndLen, at, aligned, r

LEMMA StepStoredBodyInflates ==
  ASSUME IInv, StepFrame, StepStoredBody(S)
  PROVE  Inflates
<1> DEFINE take == Min2(available_bits(reader) \div 8, state.remaining)
           from == unwound(reader)
           more == [k \in 1 .. take |-> S.byte[BytePos(from + k - 1)]]
           r    == read_bytes(reader, take)
<1>1. /\ state.kind = "StoredBody" /\ state.remaining \in Nat
      /\ state.is_final \in BOOLEAN /\ state \in StoredStates
  <2>1. state.kind = "StoredBody"
    BY DEF StepStoredBody, InState
  <2>2. state \in StoredStates
    BY <2>1, StateFamily DEF IInv, TypeOK
  <2>3. U16_MAX \in Nat
    BY DEF U16_MAX
  <2> QED BY <2>1, <2>2, <2>3 DEF StoredStates
<1>2. Phase = state /\ AbstractPos = Pos /\ Abstract!S = S
  BY <1>1, PhaseOf DEF Abstract!S, S
<1>3. CASE NeedMoreBytes
  BY <1>3, LeaveStutters DEF NeedMoreBytes
<1>4. /\ fed \in Nat /\ input \in Nat /\ input <= fed /\ fed <= S.size
      /\ S.size \in Nat /\ GoodReader(reader)
      /\ reader.byte_index \in Nat /\ reader.byte_index <= input
      /\ reader.bit_count = 0
      /\ Pos = 8 * (fed - input + reader.byte_index)
  BY <1>1, CurrentReader DEF IInv, BitsOK, BitLimit, GoodReader, Readers
<1>5. CASE /\ state.remaining = 0
           /\ EndBlock(reader, state.is_final) /\ UNCHANGED output
  <2>1. /\ Progress(reader) \/ Commit(reader)
        /\ state'.kind # "Transient"
        /\ Phase' = Abstract!EndOf(state.is_final)
    BY <1>1, <1>5, EndsBlock
  <2>2. AbstractPos' = AbstractPos
    BY <1>2, <1>4, <2>1, StepPos, PhaseOfNext DEF Pos
  <2>3. History' = History
    BY <1>5, HistoryKept
  <2>4. Abstract!EndStored
    BY <1>1, <1>2, <1>5, <2>1, <2>2, <2>3 DEF Abstract!EndStored
  <2> QED BY <2>4 DEF Abstract!Next, Inflates, StepFrame
<1>6. CASE /\ take > 0 /\ output' = output \o more
           /\ state' = [state EXCEPT !.remaining = @ - take]
           /\ Progress(r)
  <2>1. /\ available_bits(reader) \in Nat
        /\ available_bits(reader) = 8 * (input - reader.byte_index)
    BY <1>4 DEF available_bits
  <2>2. /\ take \in 1 .. state.remaining
        /\ take <= input - reader.byte_index
    <3>1. available_bits(reader) \div 8 = input - reader.byte_index
      <4> DEFINE x == input - reader.byte_index
      <4>1. x \in Nat /\ available_bits(reader) = 8 * x
        BY <1>4, <2>1
      <4> HIDE DEF x
      <4>2. (8 * x) \div 8 = x
        BY <4>1
      <4> QED BY <4>1, <4>2 DEF x
    <3> QED BY <1>1, <1>4, <1>6, <3>1, SMTT(30) DEF Min2
  <2>3. from = reader.byte_index
        /\ r = [byte_index |-> reader.byte_index + take, bit_count |-> 0]
    BY <1>4, <2>2 DEF unwound, read_bytes
  <2> HIDE DEF take
  <2>4. GoodReader(r) /\ PosOf(r) = Pos + 8 * take /\ 8 * take \in Nat
    BY <1>4, <2>2, <2>3 DEF GoodReader, Readers, PosOf, BytePos
  <2>5. state'.kind = "StoredBody"
        /\ Phase' = [Phase EXCEPT !.remaining = @ - take]
    <3>1. state' = [state EXCEPT !.remaining = state.remaining - take]
      BY <1>6
    <3>2. state'.kind = "StoredBody"
      BY <1>1, <3>1 DEF StoredStates
    <3> QED BY <1>2, <3>1, <3>2, PhaseOfNext
  <2>6. Reads(8 * take)
    BY <1>1, <1>6, <2>4, <2>5, StepReads
  <2>7. more = [k \in 1 .. take |-> S.byte[AbstractPos + 8 * (k - 1)]]
    BY <1>2, <1>4, <2>2, <2>3 DEF BytePos
  <2>8. more \in Seq(Byte)
    <3>1. ASSUME NEW k \in 1 .. take
          PROVE  S.byte[AbstractPos + 8 * (k - 1)] \in Byte
      <4>1. AbstractPos + 8 * (k - 1) \in BitsOf(S.size)
        BY <1>2, <1>4, <2>2 DEF BitsOf
      <4> QED BY <4>1, Lookups
    <3> QED BY <2>2, <2>7, <3>1
  <2>9. History' = History \o more
    BY <1>6, <2>8, HistoryGrows
  <2> HIDE DEF more
  <2>10. Abstract!ReadStoredBytes
    <3>1. /\ Abstract!Read(8 * take)
          /\ History' = History
               \o [k \in 1 .. take |-> Abstract!S.byte[AbstractPos + 8 * (k - 1)]]
          /\ Phase' = [Phase EXCEPT !.remaining = @ - take]
      BY <1>2, <2>5, <2>6, <2>7, <2>9, ReadsRead
    <3>2. Phase.kind = "StoredBody" /\ take \in 1 .. Phase.remaining
      BY <1>1, <1>2, <2>2
    <3> QED BY <3>1, <3>2 DEF Abstract!ReadStoredBytes
  <2> QED BY <2>6, <2>10 DEF Reads, Abstract!Next, Inflates
<1> QED BY <1>3, <1>5, <1>6 DEF StepStoredBody

LEMMA StepDynamicHeaderInflates ==
  ASSUME IInv, StepFrame, StepDynamicHeader(S)
  PROVE  Inflates
<1> DEFINE r == read_bits(reader, 14)
           ok == S.dynamic[Pos].hdist_ok
<1>1. state.kind = "DynamicHeader"
  BY DEF StepDynamicHeader, InState
<1>2. Phase = state /\ AbstractPos = Pos /\ Abstract!S = S
  BY <1>1, PhaseOf DEF Abstract!S, S
<1>3. CASE NeedMoreBytes
  BY <1>3, LeaveStutters DEF NeedMoreBytes
<1>4. CASE ~ ok /\ Error
  <2>1. Abstract!Malformed
    BY <1>1, <1>2, <1>4
       DEF Abstract!Malformed, Abstract!TooManyDistances
  <2> QED BY <1>4, <2>1, Rejects
<1>5. CASE /\ available_bits(reader) >= 14 /\ ok
           /\ state' = [kind |-> "DynamicBitwidthTable",
                        is_final |-> state.is_final,
                        at |-> Pos, order_idx |-> 0]
           /\ Progress(r) /\ UNCHANGED output
  <2>1. GoodReader(r) /\ PosOf(r) = Pos + 14
    <3>1. GoodReader(reader) /\ 14 <= available_bits(reader)
      BY <1>5, CurrentReader, Available
    <3> QED BY <3>1, ReadPos DEF Pos
  <2> HIDE DEF r
  <2>2. Abstract!Read(14) /\ Reads(14)
    BY <1>1, <1>5, <2>1, StepReads, ReadsRead
  <2>3. History' = History
    BY <1>5, HistoryKept
  <2>4. Phase' = [kind |-> "DynamicBitwidthTable", is_final |-> Phase.is_final,
                  at |-> AbstractPos, order_idx |-> 0]
    BY <1>2, <1>5, PhaseOfNext
  <2>5. Abstract!ReadDynamicHeader
    BY <1>1, <1>2, <1>5, <2>2, <2>3, <2>4 DEF Abstract!ReadDynamicHeader
  <2> QED BY <2>2, <2>5 DEF Reads, Abstract!Next, Inflates
<1> QED BY <1>3, <1>4, <1>5 DEF StepDynamicHeader

LEMMA StepDynamicBitwidthTableInflates ==
  ASSUME IInv, StepFrame, StepDynamicBitwidthTable(S)
  PROVE  Inflates
<1> DEFINE dyn == S.dynamic[state.at]
           r   == read_bits(reader, 3)
<1>1. state.kind = "DynamicBitwidthTable" /\ state \in BitwidthStates
  BY StateFamily DEF StepDynamicBitwidthTable, InState, IInv, TypeOK
<1>2. Phase = state /\ AbstractPos = Pos /\ Abstract!S = S
  BY <1>1, PhaseOf DEF Abstract!S, S
<1> HIDE DEF dyn
<1>3. Abstract!S.dynamic[Phase.at] = dyn
  BY <1>2 DEF dyn
<1>4. CASE NeedMoreBytes
  BY <1>4, LeaveStutters DEF NeedMoreBytes
<1>5. CASE state.order_idx = dyn.hclen /\ ~ dyn.bitwidth.ok /\ Error
  <2>1. Abstract!Malformed
    BY <1>1, <1>2, <1>3, <1>5
       DEF Abstract!Malformed, Abstract!NoBitwidthCode
  <2> QED BY <1>5, <2>1, Rejects
<1>6. CASE /\ state.order_idx < dyn.hclen
           /\ available_bits(reader) >= 3
           /\ state' = [state EXCEPT !.order_idx = @ + 1]
           /\ Progress(r) /\ UNCHANGED output
  <2>1. GoodReader(r) /\ PosOf(r) = Pos + 3
    <3>1. GoodReader(reader) /\ 3 <= available_bits(reader)
      BY <1>6, CurrentReader, Available
    <3> QED BY <3>1, ReadPos DEF Pos
  <2> HIDE DEF r
  <2>2. /\ state'.kind = "DynamicBitwidthTable"
        /\ Phase' = [Phase EXCEPT !.order_idx = @ + 1]
    <3>1. state'.kind = "DynamicBitwidthTable"
      BY <1>1, <1>6 DEF BitwidthStates
    <3> QED BY <1>2, <1>6, <3>1, PhaseOfNext
  <2>3. Abstract!Read(3) /\ Reads(3)
    BY <1>1, <1>6, <2>1, <2>2, StepReads, ReadsRead
  <2>4. History' = History
    BY <1>6, HistoryKept
  <2>5. Abstract!ReadBitwidth
    BY <1>1, <1>2, <1>3, <1>6, <2>2, <2>3, <2>4 DEF Abstract!ReadBitwidth
  <2> QED BY <2>3, <2>5 DEF Reads, Abstract!Next, Inflates
<1>7. CASE /\ state.order_idx = dyn.hclen /\ dyn.bitwidth.ok
           /\ state' = [kind |-> "DynamicCodeLengths",
                        is_final |-> state.is_final,
                        at |-> state.at, len |-> 0,
                        bitwidth_decoder |-> from_code_lengths(dyn.bitwidth, 1)]
           /\ Progress(reader) /\ UNCHANGED output
  <2>1. /\ AbstractPos' = AbstractPos
        /\ Phase' = [kind |-> "DynamicCodeLengths", is_final |-> Phase.is_final,
                     at |-> Phase.at, len |-> 0]
    BY <1>2, <1>7, CurrentReader, StepPos, PhaseOfNext DEF Pos
  <2>2. History' = History
    BY <1>7, HistoryKept
  <2>3. Abstract!EndBitwidths
    BY <1>1, <1>2, <1>3, <1>7, <2>1, <2>2 DEF Abstract!EndBitwidths
  <2> QED BY <2>3 DEF StepFrame, Abstract!Next, Inflates
<1> QED
  BY <1>4, <1>5, <1>6, <1>7 DEF StepDynamicBitwidthTable, dyn

LEMMA StepDynamicCodeLengthsInflates ==
  ASSUME IInv, StepFrame, StepDynamicCodeLengths(S)
  PROVE  Inflates
<1> DEFINE dyn   == S.dynamic[state.at]
           e     == S.rle[Pos]
           table == state.bitwidth_decoder
           extra == RleExtraBits(e.code)
           r     == decode(reader, table, e.width)
           q     == read_bits(r, extra)
           short == \/ available_bits(reader) < peeked(table, e.width)
                    \/ e.code # "invalid" /\ available_bits(r) < extra
           bad   == \/ e.code = "invalid"
                    \/ e.code = "previous" /\ state.len = 0
                    \/ state.len + e.repeat > dyn.target_len
<1>1. /\ state.kind = "DynamicCodeLengths" /\ state \in LengthsStates
      /\ table.peek = 1
  BY StateFamily DEF StepDynamicCodeLengths, InState, IInv, TypeOK, TablesOK
<1>2. /\ Phase = [kind |-> "DynamicCodeLengths", is_final |-> state.is_final,
                  at |-> state.at, len |-> state.len]
      /\ AbstractPos = Pos /\ Abstract!S = S
  BY <1>1, PhaseOf DEF Abstract!S, S
<1>3. /\ state.len \in Nat /\ state.at \in BitsOf(S.size)
      /\ dyn.target_len \in Nat
  <2>1. state.len \in 0 .. 318 /\ state.at \in BitsOf(S.size)
    BY <1>1 DEF LengthsStates
  <2>2. dyn.target_len \in 258 .. 318
    BY <2>1, DynamicTables
  <2> HIDE DEF dyn
  <2> QED BY <2>1, <2>2
<1>4. e.width \in 1 .. 15 /\ e.repeat \in 1 .. 138 /\ extra \in Nat
  <2>1. e \in RleElements BY CurrentReader, Lookups
  <2> QED BY <2>1 DEF RleElements, RleExtraBits, MAX_BITS
<1> HIDE DEF dyn, e
<1>5. /\ Abstract!S.dynamic[Phase.at] = dyn /\ Abstract!S.rle[AbstractPos] = e
      /\ Phase.kind = "DynamicCodeLengths" /\ Phase.len = state.len
      /\ Abstract!RleExtraBits(e.code) = extra
  BY <1>2 DEF dyn, e, RleExtraBits, Abstract!RleExtraBits
<1>6. CASE NeedMoreBytes
  BY <1>6, LeaveStutters DEF NeedMoreBytes
<1>7. CASE state.len < dyn.target_len /\ bad /\ Error
  <2>1. Abstract!Malformed
    BY <1>5, <1>7
       DEF Abstract!Malformed, Abstract!InCodeLengths, Abstract!NoElement,
           Abstract!NothingToRepeat, Abstract!TooManyLengths
  <2> QED BY <1>7, <2>1, Rejects
<1>8. CASE /\ state.len = dyn.target_len
           /\ ~ (dyn.literal.ok /\ dyn.distance.ok) /\ Error
  <2>1. Abstract!Malformed
    BY <1>5, <1>8
       DEF Abstract!Malformed, Abstract!NoSymbolCodes
  <2> QED BY <1>8, <2>1, Rejects
<1>9. CASE /\ state.len < dyn.target_len /\ ~ short /\ ~ bad
           /\ state' = [state EXCEPT !.len = @ + e.repeat]
           /\ Progress(q) /\ UNCHANGED output
  <2>0. /\ ~ (available_bits(reader) < peeked(table, e.width))
        /\ ~ (available_bits(r) < extra)
    BY <1>9
  <2> HIDE DEF table
  <2>1. GoodReader(r) /\ PosOf(r) = Pos + e.width
    <3>1. peeked(table, e.width) \in Nat /\ e.width \in Nat /\ table.peek \in Nat
      BY <1>1, <1>4 DEF peeked, Max2
    <3>2. GoodReader(reader) /\ peeked(table, e.width) <= available_bits(reader)
      BY <2>0, <3>1, CurrentReader, Available
    <3> QED BY <3>1, <3>2, DecodePos DEF Pos
  <2> HIDE DEF r, extra
  <2>2. GoodReader(q) /\ PosOf(q) = PosOf(r) + extra
    <3>1. extra <= available_bits(r)
      BY <1>4, <2>0, <2>1, Available
    <3> QED BY <1>4, <2>1, <3>1, ReadPos
  <2> HIDE DEF q
  <2>3. PosOf(q) = Pos + (e.width + extra) /\ e.width + extra \in Nat
    BY <1>4, <2>1, <2>2, CurrentReader DEF BitsOf
  <2>4. /\ state' = [kind |-> "DynamicCodeLengths", is_final |-> state.is_final,
                     at |-> state.at, len |-> state.len + e.repeat,
                     bitwidth_decoder |-> table]
        /\ Progress(q)
    BY <1>1, <1>9 DEF LengthsStates, table
  <2>5. /\ state'.kind = "DynamicCodeLengths"
        /\ Phase' = [Phase EXCEPT !.len = @ + e.repeat]
    BY <1>2, <2>4, PhaseOfNext
  <2>6. Reads(e.width + extra)
    BY <1>1, <2>2, <2>3, <2>4, <2>5, StepReads
  <2>7. History' = History
    BY <1>9, HistoryKept
  <2>8. /\ e.code # "invalid"
        /\ e.code = "previous" => state.len > 0
        /\ state.len + e.repeat <= dyn.target_len
    BY <1>3, <1>4, <1>9
  <2>9. Abstract!Read(e.width + Abstract!RleExtraBits(e.code))
    BY <1>5, <2>6, ReadsRead DEF extra
  <2>10. Abstract!ReadCodeLengths
    BY <1>5, <1>9, <2>5, <2>7, <2>8, <2>9 DEF Abstract!ReadCodeLengths
  <2> QED BY <2>6, <2>10 DEF Reads, Abstract!Next, Inflates
<1>10. CASE /\ state.len = dyn.target_len
            /\ dyn.literal.ok /\ dyn.distance.ok
            /\ state' = [kind |-> "SymbolLoop", is_final |-> state.is_final,
                         literal |-> DynamicLiteral(dyn),
                         distance |-> DynamicDistance(dyn)]
            /\ Progress(reader) /\ UNCHANGED output
  <2>1. DynamicLiteral(dyn).eob = dyn.literal.eob
    BY DEF DynamicLiteral, from_code_lengths
  <2>2. /\ AbstractPos' = AbstractPos
        /\ Phase' = [kind |-> "SymbolLoop", is_final |-> Phase.is_final,
                     eob |-> dyn.literal.eob]
    BY <1>2, <1>10, <2>1, CurrentReader, StepPos, PhaseOfNext DEF Pos
  <2>3. History' = History
    BY <1>10, HistoryKept
  <2>4. Abstract!EndCodeLengths
    BY <1>5, <1>10, <2>2, <2>3 DEF Abstract!EndCodeLengths
  <2> QED BY <2>4 DEF StepFrame, Abstract!Next, Inflates
<1>11. \/ NeedMoreBytes
       \/ state.len < dyn.target_len /\ bad /\ Error
       \/ /\ state.len < dyn.target_len /\ ~ short /\ ~ bad
          /\ state' = [state EXCEPT !.len = @ + e.repeat]
          /\ Progress(q) /\ UNCHANGED output
       \/ /\ state.len = dyn.target_len
          /\ dyn.literal.ok /\ dyn.distance.ok
          /\ state' = [kind |-> "SymbolLoop", is_final |-> state.is_final,
                       literal |-> DynamicLiteral(dyn),
                       distance |-> DynamicDistance(dyn)]
          /\ Progress(reader) /\ UNCHANGED output
       \/ /\ state.len = dyn.target_len
          /\ ~ (dyn.literal.ok /\ dyn.distance.ok) /\ Error
  BY DEF StepDynamicCodeLengths, dyn, e
<1> QED BY <1>6, <1>7, <1>8, <1>9, <1>10, <1>11

LEMMA StepSymbolLoopInflates ==
  ASSUME IInv, IInv', WindowInv, StepFrame, StepSymbolLoop(S)
  PROVE  Inflates
<1> DEFINE lit     == state.literal
           dist    == state.distance
           sym     == S.symbol[Pos]
           width   == IF sym.kind = "endOfBlock" THEN lit.eob ELSE sym.width
           invalid == \/ sym.kind = "invalid"
                      \/ sym.kind = "endOfBlock" /\ lit.eob = 0
           r1      == decode(reader, lit, width)
           r2      == read_bits(r1, sym.extra)
           r3      == decode(r2, dist, sym.dwidth)
           r4      == read_bits(r3, sym.dextra)
           short   == \/ available_bits(reader) < peeked(lit, width)
                      \/ /\ sym.kind = "match"
                         /\ \/ available_bits(r1) < sym.extra
                            \/ available_bits(r2) < peeked(dist, sym.dwidth)
                            \/ /\ sym.dkind = "distance"
                               /\ available_bits(r3) < sym.dextra
           bad     == \/ invalid
                      \/ sym.kind = "forbidden"
                      \/ /\ sym.kind = "match"
                         /\ \/ sym.dkind # "distance"
                            \/ sym.distance > Len(output)
<1>1. /\ state.kind = "SymbolLoop" /\ state \in SymbolStates
      /\ state.is_final \in BOOLEAN
  <2>1. state.kind = "SymbolLoop" /\ state \in SymbolStates
    BY StateFamily DEF StepSymbolLoop, InState, IInv, TypeOK
  <2> QED BY <2>1 DEF SymbolStates
<1>2. /\ Phase = [kind |-> "SymbolLoop", is_final |-> state.is_final,
                  eob |-> lit.eob]
      /\ AbstractPos = Pos /\ Abstract!S = S
  BY <1>1, PhaseOf DEF Abstract!S, S
<1>3. lit.peek \in Nat /\ lit.eob \in Nat /\ dist.peek \in Nat
  <2>1. lit \in HuffmanDecoders /\ dist \in HuffmanDecoders
    BY <1>1 DEF SymbolStates
  <2> QED BY <2>1 DEF HuffmanDecoders, MAX_BITS
<1>4. /\ sym \in Symbols /\ sym.byte \in Byte
      /\ sym.width \in Nat /\ sym.dwidth \in Nat
      /\ sym.extra \in Nat /\ sym.dextra \in Nat
      /\ sym.distance \in 1 .. WINDOW_SIZE /\ sym.length \in Nat
  <2>1. sym \in Symbols
    BY CurrentReader, Lookups
  <2>2. sym.length \in 1 .. MAX_MATCH /\ MAX_MATCH \in Nat
    BY <2>1, StreamsAssumption DEF Symbols
  <2> QED BY <2>1, <2>2 DEF Symbols, MAX_BITS
<1>5. /\ output \in Seq(Byte) /\ Len(output) \in Nat /\ WINDOW_SIZE \in Nat
      /\ History \in Seq(Byte) /\ Len(History) \in Nat
  BY OutputTypes, HistoryType
<1>6. width \in Nat
  BY <1>3, <1>4
<1>7. /\ Abstract!S.symbol[AbstractPos] = sym
      /\ Phase.kind = "SymbolLoop" /\ Phase.eob = lit.eob
      /\ Phase.is_final = state.is_final
  BY <1>2
<1> HIDE DEF sym, lit, dist
<1>8. sym.distance <= Len(History) <=> sym.distance <= Len(output)
  BY <1>4, Reach
<1>9. ASSUME ~ short
      PROVE  GoodReader(r1) /\ PosOf(r1) = Pos + width
  <2>1. ~ (available_bits(reader) < peeked(lit, width))
    BY <1>9
  <2> HIDE DEF width
  <2>2. peeked(lit, width) \in Nat
    BY <1>3, <1>6 DEF peeked, Max2
  <2>3. GoodReader(reader) /\ peeked(lit, width) <= available_bits(reader)
    BY <2>1, <2>2, CurrentReader, Available
  <2> QED BY <1>3, <1>6, <2>3, DecodePos DEF Pos
<1>10. CASE Commit(reader) /\ UNCHANGED <<state, output, finished>>
  BY <1>10, LeaveStutters
<1>11. CASE bad /\ Error
  <2>1. \/ sym.kind \in {"forbidden", "invalid"}
        \/ sym.kind = "endOfBlock" /\ lit.eob = 0
        \/ sym.kind = "match"
             /\ (sym.dkind # "distance" \/ sym.distance > Len(History))
    <3>1. sym.distance > Len(output) <=> sym.distance > Len(History)
      BY <1>4, <1>5, <1>8
    <3> QED BY <1>11, <3>1
  <2>2. Abstract!Malformed
    BY <1>7, <2>1
       DEF Abstract!Malformed, Abstract!NoSymbol, Abstract!ForbiddenSymbol,
           Abstract!InMatch, Abstract!NoDistance, Abstract!TooFar
  <2> QED BY <1>11, <2>2, Rejects
<1>12. state' = state => Phase' = Phase /\ state'.kind # "Transient"
  BY <1>1 DEF Phase
<1>13. CASE /\ ~ short /\ sym.kind = "literal"
            /\ output' = Append(output, sym.byte)
            /\ Progress(r1) /\ UNCHANGED state
  <2>1. GoodReader(r1) /\ PosOf(r1) = Pos + sym.width /\ Progress(r1)
    BY <1>9, <1>13
  <2> HIDE DEF r1
  <2>2. Reads(sym.width)
    BY <1>1, <1>4, <1>12, <1>13, <2>1, StepReads
  <2>3. History' = Append(History, sym.byte)
    <3>1. <<sym.byte>> \in Seq(Byte) /\ output' = output \o <<sym.byte>>
      BY <1>4, <1>5, <1>13, AppendIsConcat
    <3>2. History' = History \o <<sym.byte>>
      BY <3>1, HistoryGrows
    <3> QED BY <1>4, <1>5, <3>2, AppendIsConcat
  <2>4. Abstract!ReadLiteral
    BY <1>7, <1>12, <1>13, <2>2, <2>3, ReadsRead DEF Abstract!ReadLiteral
  <2> QED BY <2>2, <2>4 DEF Reads, Abstract!Next, Inflates
<1>14. CASE /\ ~ short /\ ~ bad /\ sym.kind = "endOfBlock"
            /\ EndBlock(r1, state.is_final) /\ UNCHANGED output
  <2>1. GoodReader(r1) /\ PosOf(r1) = Pos + lit.eob
    BY <1>9, <1>14
  <2>2. lit.eob > 0
    BY <1>3, <1>14
  <2>3. /\ Progress(r1) \/ Commit(r1)
        /\ state'.kind # "Transient"
        /\ Phase' = Abstract!EndOf(state.is_final)
    BY <1>1, <1>14, EndsBlock
  <2> HIDE DEF r1
  <2>4. Reads(lit.eob)
    BY <1>1, <1>3, <2>1, <2>3, StepReads
  <2>5. History' = History
    BY <1>14, HistoryKept
  <2>6. Abstract!ReadEndOfBlock
    BY <1>7, <1>14, <2>2, <2>3, <2>4, <2>5, ReadsRead
       DEF Abstract!ReadEndOfBlock
  <2> QED BY <2>4, <2>6 DEF Reads, Abstract!Next, Inflates
<1>15. CASE /\ ~ short /\ ~ bad /\ sym.kind = "match"
            /\ output' = copy_from_distance(output, sym.distance, sym.length)
            /\ Progress(r4) /\ UNCHANGED state
  <2>0. /\ ~ (available_bits(r1) < sym.extra)
        /\ ~ (available_bits(r2) < peeked(dist, sym.dwidth))
        /\ ~ (available_bits(r3) < sym.dextra)
        /\ ~ (sym.distance > Len(output))
        /\ sym.dkind = "distance"
    BY <1>15
  <2>1. GoodReader(r1) /\ PosOf(r1) = Pos + sym.width
    BY <1>9, <1>15
  <2> HIDE DEF r1
  <2>2. GoodReader(r2) /\ PosOf(r2) = PosOf(r1) + sym.extra
    <3>1. sym.extra <= available_bits(r1)
      BY <1>4, <2>0, <2>1, Available
    <3> QED BY <1>4, <2>1, <3>1, ReadPos
  <2> HIDE DEF r2
  <2>3. GoodReader(r3) /\ PosOf(r3) = PosOf(r2) + sym.dwidth
    <3>1. peeked(dist, sym.dwidth) \in Nat
      BY <1>3, <1>4 DEF peeked, Max2
    <3>2. peeked(dist, sym.dwidth) <= available_bits(r2)
      BY <2>0, <2>2, <3>1, Available
    <3> QED BY <1>3, <1>4, <2>2, <3>2, DecodePos
  <2> HIDE DEF r3
  <2>4. GoodReader(r4) /\ PosOf(r4) = PosOf(r3) + sym.dextra
    <3>1. sym.dextra <= available_bits(r3)
      BY <1>4, <2>0, <2>3, Available
    <3> QED BY <1>4, <2>3, <3>1, ReadPos
  <2>5. Progress(r4)
    BY <1>15
  <2> HIDE DEF r4
  <2> DEFINE n == sym.width + sym.extra + sym.dwidth + sym.dextra
  <2>6. n \in Nat /\ PosOf(r4) = Pos + n
    BY <1>4, <2>1, <2>2, <2>3, <2>4, CurrentReader DEF BitsOf
  <2> HIDE DEF n
  <2>7. Reads(n)
    BY <1>1, <1>12, <1>15, <2>4, <2>5, <2>6, StepReads
  <2>8. sym.distance <= Len(output) /\ sym.distance \in Nat \ {0}
    BY <1>4, <1>5, <2>0
  <2>9. History' = Abstract!copy_from_distance(History, sym.distance, sym.length)
    <3> DEFINE more == Repeated(output, sym.distance, sym.length)
    <3>1. more \in Seq(Byte)
      BY <1>4, <1>5, <2>8, RepeatedBytes
    <3>2. Repeated(History, sym.distance, sym.length) = more
      BY <1>4, <2>8, Reach
    <3>3. output' = output \o more
      BY <1>15 DEF copy_from_distance
    <3>4. Abstract!copy_from_distance(History, sym.distance, sym.length)
            = History \o Repeated(History, sym.distance, sym.length)
      BY DEF Abstract!copy_from_distance, Abstract!Repeated, Repeated
    <3> HIDE DEF more
    <3> QED BY <3>1, <3>2, <3>3, <3>4, HistoryGrows
  <2>10. Abstract!ReadMatch
    BY <1>7, <1>8, <1>12, <1>15, <2>0, <2>7, <2>8, <2>9, ReadsRead
       DEF Abstract!ReadMatch, n
  <2> QED BY <2>7, <2>10 DEF Reads, Abstract!Next, Inflates
<1> HIDE DEF short, bad, r1, r4
<1>16. \/ Commit(reader) /\ UNCHANGED <<state, output, finished>>
       \/ bad /\ Error
       \/ /\ ~ short /\ sym.kind = "literal"
          /\ output' = Append(output, sym.byte)
          /\ Progress(r1) /\ UNCHANGED state
       \/ /\ ~ short /\ ~ bad /\ sym.kind = "endOfBlock"
          /\ EndBlock(r1, state.is_final) /\ UNCHANGED output
       \/ /\ ~ short /\ ~ bad /\ sym.kind = "match"
          /\ output' = copy_from_distance(output, sym.distance, sym.length)
          /\ Progress(r4) /\ UNCHANGED state
  BY DEF StepSymbolLoop, Yield, NeedMoreBytes, short, bad, r1, r4, sym, lit, dist
<1> QED BY <1>10, <1>11, <1>13, <1>14, <1>15, <1>16

LEMMA StepFinishedInflates ==
  ASSUME IInv, StepFrame, StepFinished
  PROVE  Inflates
<1>1. /\ state.kind = "Finished" /\ state' = [kind |-> "Finished"]
      /\ Commit(reader) /\ output' = output
  BY DEF StepFinished, InState, Finished
<1>2. state \in PlainStates
  BY <1>1 DEF IInv, TypeOK, DecodeStates, BeginStates, StoredStates,
              BitwidthStates, LengthsStates, SymbolStates
<1>3. state' = state
  BY <1>1, <1>2 DEF PlainStates
<1>4. Pos' = Pos
  BY <1>1, CurrentReader, StepPos DEF Pos
<1>5. AbstractPos' = AbstractPos /\ Phase' = Phase
  BY <1>3, <1>4 DEF AbstractPos, Phase
<1>6. History' = History
  BY <1>1, HistoryKept
<1> QED BY <1>5, <1>6, Stutters DEF StepFrame

(* A feed appends to the input what it adds to the bytes fed; advance      *)
(* touches neither the input nor the state.                                *)
LEMMA FeedInflates ==
  ASSUME IInv, NEW n \in Nat, Feed(n)
  PROVE  Inflates
<1>1. /\ n \in Nat /\ fed \in Nat /\ input \in Nat
      /\ reader = new_seeded(pending)
      /\ reader.byte_index \in Nat /\ reader.bit_count \in Nat
  BY CurrentReader DEF Feed, IInv, BitsOK, GoodReader, Readers
<1>2. /\ UNCHANGED <<id, delivered, state, output, drained, reader>>
      /\ fed' - input' = fed - input
  BY <1>1 DEF Feed
<1>3. Pos' = Pos
  BY <1>1, <1>2 DEF Pos, PosOf, BytePos
<1>4. AbstractPos' = AbstractPos /\ Phase' = Phase /\ History' = History
  BY <1>2, <1>3 DEF AbstractPos, Phase, History, Unread
<1> QED BY <1>2, <1>4, Stutters

LEMMA AdvanceInflates ==
  ASSUME IInv, NEW n \in 0 .. Len(Unread), Advance(n)
  PROVE  Inflates
<1>1. UNCHANGED <<id, fed, input, state, reader>>
  BY DEF Advance
<1>2. AbstractPos' = AbstractPos /\ Phase' = Phase
  BY <1>1 DEF AbstractPos, Phase, Pos, PosOf, BytePos
<1>3. History' = History
  BY HistoryAdvances
<1> QED BY <1>1, <1>2, <1>3, Stutters

LEMMA MovesInflate == IInv /\ WindowInv /\ Moves => Inflates
<1> SUFFICES ASSUME IInv, WindowInv, Moves PROVE Inflates
  OBVIOUS
<1>1. CASE Step
  <2>1. StepFrame /\ IInv'
    BY <1>1, MovesInv DEF Step, StepFrame, Moves
  <2> QED
    BY <1>1, <2>1, StepBlockHeaderInflates, StepStoredAlignAndLenInflates,
       StepStoredBodyInflates, StepDynamicHeaderInflates,
       StepDynamicBitwidthTableInflates, StepDynamicCodeLengthsInflates,
       StepSymbolLoopInflates, StepFinishedInflates DEF Step
<1>2. CASE \E n \in Nat : Feed(n)
  BY <1>2, FeedInflates
<1>3. CASE \E n \in 0 .. Len(Unread) : Advance(n)
  BY <1>3, AdvanceInflates
<1>4. CASE UNCHANGED vars
  <2>1. AbstractPos' = AbstractPos /\ Phase' = Phase /\ History' = History
        /\ id' = id
    BY <1>4 DEF vars, AbstractPos, Phase, History, Unread, Pos, PosOf, BytePos
  <2> QED BY <2>1, Stutters
<1> QED BY <1>1, <1>2, <1>3, <1>4 DEF Moves

LEMMA InitInflates == Init => Abstract!Init
<1> SUFFICES ASSUME Init PROVE Abstract!Init
  OBVIOUS
<1>1. Phase = [kind |-> "BlockHeader"] /\ AbstractPos = 0
  BY DEF Init, Phase, AbstractPos, Pos, PosOf, BytePos, new_seeded
<1>2. History = << >>
  BY DEF Init, History, Unread
<1> QED BY <1>1, <1>2 DEF Init, Abstract!Init

(* So it does in the hands of any caller.                                  *)
LEMMA MovesDecode ==
  Init /\ [][Moves]_vars => []IInv /\ []WindowInv /\ Abstract!Spec
<1>1. Init => IInv /\ WindowInv /\ Abstract!Init
  BY InitInv, InitInflates DEF Init, WindowInv
<1>2. [Moves]_vars => Moves
  BY DEF Moves
<1> QED
  BY <1>1, <1>2, MovesInv, MovesWindow, MovesInflate, PTL
     DEF Abstract!Spec, Inflates

(* However the stream is cut into feeds and the output drained, what the   *)
(* caller gets is what one uninterrupted decoding gives: the decoder       *)
(* implements Inflate, and refuses a stream only for what is malformed.    *)
THEOREM DecoderImplementsInflate == Spec => ImplementsInflate
BY MovesDecode, NextMoves, PTL DEF Spec, ImplementsInflate
-----------------------------------------------------------------------------
(* The end of a whole stream.  The literal table's look-ahead, the widest, *)
(* is as wide as the END_OF_BLOCK that has to follow, so a decoder that    *)
(* has all of the stream has the bits of its next element at hand.         *)
LEMMA WholeLacksNothing ==
  ASSUME IInv, EndIsRight, HasWholeStream
  PROVE  ~ Lacks(available_bits(reader))
<1> DEFINE bits == available_bits(reader)
           n    == WholeSize[id]
<1>1. /\ bits \in Nat /\ Pos \in Nat /\ Pos + bits = 8 * fed
      /\ fed \in Nat /\ reader.bit_count \in Nat
  BY CurrentReader, PosAvailable, Available DEF Pos
<1>2. n \in Nat /\ n <= fed
  <2>1. n \in 0 .. S.size /\ S.size \in Nat
    BY CurrentReader, WholeSizeAssumption DEF HasWholeStream, S
  <2> HIDE DEF n
  <2> QED BY <1>1, <2>1 DEF HasWholeStream, n
<1>3. Abstract!EndsWithin(n) /\ ~ Abstract!Malformed
  BY DEF EndIsRight, Abstract!EndIsRight, HasWholeStream
<1>4. Abstract!S = S
  BY DEF Abstract!S, S
<1> SUFFICES ASSUME Lacks(bits) PROVE FALSE
  OBVIOUS
<1> HIDE DEF n, bits
<1>5. 8 * n <= Pos + bits
  BY <1>1, <1>2
<1>6. CASE state.kind \in {"BlockHeader", "DynamicHeader"}
  <2>1. AbstractPos = Pos /\ Phase.kind = state.kind
    BY <1>6, PhaseOf
  <2>2. \/ bits < 3 /\ Pos + 3 <= 8 * n
        \/ bits < 14 /\ Pos + 14 <= 8 * n
    BY <1>3, <1>6, <2>1 DEF Lacks, Abstract!EndsWithin
  <2> QED BY <1>1, <1>2, <1>5, <2>2
<1>7. CASE state.kind = "StoredAlignAndLen"
  <2>1. AbstractPos = Pos /\ Phase.kind = state.kind
    BY <1>7, PhaseOf
  <2>2. Abstract!Aligned + 32 <= 8 * n /\ bits < (reader.bit_count % 8) + 32
    BY <1>3, <1>7, <2>1 DEF Lacks, Abstract!EndsWithin
  <2>3. reader.bit_count \in Nat /\ reader.bit_count <= 7
    BY <1>1, <1>7 DEF IInv, BitsOK, BitLimit
  <2> DEFINE x == fed - input + reader.byte_index
             c == reader.bit_count
  <2>4. x \in Int /\ Pos = 8 * x - c
    BY CurrentReader DEF GoodReader, Readers
  <2> HIDE DEF x
  <2>5. c \in 0 .. 7
    <3>1. c \in Nat /\ c <= 7
      BY <2>3
    <3> HIDE DEF c
    <3> QED BY <3>1
  <2>6. Abstract!Aligned = 8 * x
    BY <2>1, <2>4, <2>5, ByteAbove DEF Abstract!Aligned
  <2>7. bits < c + 32
    BY <2>2, <2>5
  <2> HIDE DEF c
  <2> QED BY <1>1, <1>2, <1>5, <2>2, <2>4, <2>5, <2>6, <2>7
<1>8. CASE state.kind = "StoredBody"
  <2>1. AbstractPos = Pos /\ Phase = state
    BY <1>8, PhaseOf
  <2>2. /\ Pos + 8 * state.remaining <= 8 * n
        /\ state.remaining > 0 /\ bits < 8
    BY <1>3, <1>8, <2>1 DEF Lacks, Abstract!EndsWithin
  <2>3. state.remaining \in Nat
    <3>1. state \in StoredStates
      BY <1>8, StateFamily DEF IInv, TypeOK
    <3>2. U16_MAX \in Nat
      BY DEF U16_MAX
    <3> QED BY <3>1, <3>2 DEF StoredStates
  <2> QED BY <1>1, <1>2, <1>5, <2>2, <2>3
<1>9. CASE state.kind = "DynamicBitwidthTable"
  <2>1. AbstractPos = Pos /\ Phase = state
    BY <1>9, PhaseOf
  <2>2. Pos + 3 <= 8 * n /\ bits < 3
    BY <1>3, <1>4, <1>9, <2>1 DEF Lacks, Abstract!EndsWithin
  <2> QED BY <1>1, <1>2, <1>5, <2>2
<1>10. CASE state.kind = "DynamicCodeLengths"
  <2> DEFINE e     == S.rle[Pos]
             extra == RleExtraBits(e.code)
  <2>1. /\ AbstractPos = Pos /\ Phase.kind = "DynamicCodeLengths"
        /\ Phase.at = state.at /\ Phase.len = state.len
    BY <1>10, PhaseOf
  <2>2. e.width \in 1 .. 15 /\ extra \in 0 .. 7
    <3>1. e \in RleElements BY CurrentReader, Lookups
    <3> QED BY <3>1 DEF RleElements, RleExtraBits, MAX_BITS
  <2>3. Abstract!RleExtraBits(e.code) = extra
    BY DEF RleExtraBits, Abstract!RleExtraBits
  <2>4. Pos + e.width + extra <= 8 * n /\ bits < e.width + extra
    BY <1>3, <1>4, <1>10, <2>1, <2>3 DEF Lacks, Abstract!EndsWithin
  <2> HIDE DEF e, extra
  <2> QED BY <1>1, <1>2, <1>5, <2>2, <2>4
<1>11. CASE state.kind = "SymbolLoop"
  <2> DEFINE sym   == S.symbol[Pos]
             lit   == state.literal
             dist  == state.distance
             width == IF sym.kind = "endOfBlock" THEN lit.eob ELSE sym.width
             code  == peeked(lit, width)
             dcode == peeked(dist, sym.dwidth)
             taken == Abstract!SymbolBits
  <2>1. /\ AbstractPos = Pos /\ Phase.kind = "SymbolLoop"
        /\ Phase.eob = lit.eob
    BY <1>11, PhaseOf
  <2>2. /\ sym.width \in Nat /\ sym.dwidth \in Nat
        /\ sym.extra \in Nat /\ sym.dextra \in Nat
    <3>1. sym \in Symbols BY CurrentReader, Lookups
    <3> QED BY <3>1 DEF Symbols, MAX_BITS
  <2>3. lit.eob \in Nat /\ lit.peek \in Nat /\ dist.peek \in Nat
    <3>1. state \in SymbolStates
      BY <1>11, StateFamily DEF IInv, TypeOK
    <3> QED BY <3>1 DEF SymbolStates, HuffmanDecoders, MAX_BITS
  <2>4. lit.eob > 0 /\ Pos + taken + lit.eob <= 8 * n
    BY <1>3, <2>1 DEF Abstract!EndsWithin
  <2>5. lit.peek = lit.eob /\ dist.peek <= lit.eob
    BY <1>11, <2>3, <2>4 DEF IInv, TablesOK
  <2>6. /\ sym.kind = "endOfBlock" => taken = 0 /\ width = lit.eob
        /\ sym.kind = "match" =>
             /\ taken = sym.width + sym.extra + sym.dwidth + sym.dextra
             /\ width = sym.width
        /\ sym.kind \notin {"endOfBlock", "match"} =>
             taken = sym.width /\ width = sym.width
    BY <1>4, <2>1 DEF Abstract!SymbolBits
  <2>7. \/ bits < code
        \/ sym.kind = "match" /\ bits < width + sym.extra + dcode
        \/ /\ sym.kind = "match"
           /\ bits < width + sym.extra + sym.dwidth + sym.dextra
    BY <1>11 DEF Lacks
  <2> HIDE DEF taken, width, lit, dist
  <2>8. width \in Nat
    BY <2>2, <2>3, <2>6
  <2>9. /\ code \in Nat /\ (code = width \/ code = lit.eob)
        /\ dcode \in Nat /\ (dcode = sym.dwidth \/ dcode <= lit.eob)
    BY <2>2, <2>3, <2>5, <2>8 DEF peeked, Max2
  <2> HIDE DEF sym, code, dcode
  <2>10. taken \in Nat
    BY <2>2, <2>6
  <2>11. code <= taken + lit.eob
    BY <2>2, <2>3, <2>6, <2>9, <2>10
  <2>12. sym.kind = "match" =>
           /\ width + sym.extra + dcode <= taken + lit.eob
           /\ width + sym.extra + sym.dwidth + sym.dextra <= taken + lit.eob
    BY <2>2, <2>3, <2>6, <2>9, <2>10
  <2>13. bits < taken + lit.eob
    BY <1>1, <2>2, <2>3, <2>7, <2>8, <2>9, <2>10, <2>11, <2>12
  <2> QED BY <1>1, <1>2, <1>5, <2>3, <2>4, <2>10, <2>13
<1> QED
  BY <1>6, <1>7, <1>8, <1>9, <1>10, <1>11 DEF Lacks

(* A step that returns from a feed without an error.                       *)
LEMMA WholeFinishes ==
  ASSUME IInv, EndIsRight, HasWholeStream, Step, Returns, ~ Yielded
  PROVE  finished'
<1> SUFFICES ASSUME ~ finished' PROVE FALSE
  OBVIOUS
<1>1. StepFrame
  BY DEF Step, StepFrame
<1>2. Lacks(available_bits(reader))
  BY <1>1, StepLacks DEF Step
<1> QED BY <1>2, WholeLacksNothing

(* Of a stream that is whole, whatever sizes the feeds have: the feed that *)
(* gets its last byte, or a later one, leaves the decoder finished, unless *)
(* there is no room for the output.                                        *)
THEOREM WholeStreamsFinish ==
  SizesAreRight => (Spec => CompleteStreamFinishes)
<1>1. ASSUME IInv, EndIsRight, [Next]_vars
      PROVE  [Returns /\ ~ Yielded /\ HasWholeStream => finished']_vars
  <2> SUFFICES ASSUME Returns, ~ Yielded, HasWholeStream, Next
               PROVE  finished'
    BY <1>1
  <2>1. Step
    BY DEF Returns, Next, Feed, Advance
  <2> QED BY <1>1, <2>1, WholeFinishes
<1> QED
  BY <1>1, Invariance, DecoderImplementsInflate, PTL
     DEF SizesAreRight, ImplementsInflate, Spec, CompleteStreamFinishes
-----------------------------------------------------------------------------
(* Compaction is rare, for every stream without stored blocks, all sizes   *)
(* and every order of the caller's calls.                                  *)
(*                                                                         *)
(* The copies are paid for by what they drop.  Len(delivered) - drained    *)
(* bytes have left the buffer so far; a copy is made of a buffer that has  *)
(* reached the threshold, leaves at most Kept bytes, and so drops at least *)
(* COMPACT_THRESHOLD - Kept of them.  That what is unread is below Kept is *)
(* the memory bound of DecoderProofs, and where stored blocks are excluded.*)
PaidInv ==
  /\ copies \in Nat
  /\ HuffmanOnly => copies * (COMPACT_THRESHOLD - Kept) <= Len(delivered) - drained

LEMMA Sizes ==
  /\ COMPACT_THRESHOLD \in Nat /\ Kept \in Nat /\ Kept < COMPACT_THRESHOLD
  /\ WINDOW_SIZE \in Nat /\ WINDOW_SIZE <= Kept
  /\ MAX_INTERNAL_BUFFER \in Nat /\ MAX_MATCH \in Nat
  /\ MAX_INTERNAL_BUFFER + MAX_MATCH <= Kept
<1>1. /\ COMPACT_THRESHOLD \in Nat /\ MAX_INTERNAL_BUFFER \in Nat
      /\ MAX_MATCH \in Nat /\ WINDOW_SIZE \in Nat
  BY StreamsAssumption, DecoderAssumption
<1> QED BY <1>1, CompactionCostAssumption DEF Kept, Max2

(* One more of the same factor.                                            *)
LEMMA OneMore ==
  ASSUME NEW c \in Nat, NEW s \in Nat
  PROVE  /\ (c + 1) * s = c * s + s
         /\ c * s \in Nat
OBVIOUS

(* A counted step is a step of the decoder.                                *)
LEMMA CostStep == [CostNext]_costvars => [Next]_vars
BY DEF CostNext, CountedAdvance, costvars, Next

LEMMA SameStream ==
  ASSUME [Next]_vars
  PROVE  HuffmanOnly' => HuffmanOnly
<1>1. id' = id
  BY DEF Next, Step, Feed, Advance, vars
<1> QED BY <1>1 DEF HuffmanOnly, S

(* A copy drops at least what lies between Kept and the threshold.         *)
LEMMA CopyDrops ==
  ASSUME IInv, MemInv, HuffmanOnly, NEW n \in 0 .. Len(Unread), Advance(n),
         keep_from(Len(output), drained + n) > 0
  PROVE  COMPACT_THRESHOLD - Kept <= keep_from(Len(output), drained + n)
<1> DEFINE keep == keep_from(Len(output), drained + n)
<1>1. /\ n \in Nat /\ drained + n <= Len(output)
      /\ keep \in Nat /\ COMPACT_THRESHOLD <= Len(output)
      /\ \/ keep = drained + n
         \/ keep = Len(output) - WINDOW_SIZE
  BY AdvanceOutput
<1> HIDE DEF keep
<1>2. Len(output) - drained < MAX_INTERNAL_BUFFER + MAX_MATCH
  BY DEF MemInv
<1>3. COMPACT_THRESHOLD - Kept <= keep
  BY <1>1, <1>2, Sizes, OutputNumbers
<1> QED BY <1>3 DEF keep

LEMMA AdvancePaid ==
  ASSUME IInv, MemInv, PaidInv, NEW n \in 0 .. Len(Unread), CountedAdvance(n)
  PROVE  PaidInv'
<1>1. Advance(n)
  BY DEF CountedAdvance
<1> DEFINE keep  == keep_from(Len(output), drained + n)
           spare == COMPACT_THRESHOLD - Kept
           freed == Len(delivered) - drained
           freed2 == Len(delivered') - drained'
<1>2. /\ n \in Nat /\ keep \in Nat
      /\ drained' = drained + n - keep
      /\ Len(delivered') = Len(delivered) + n
  BY <1>1, AdvanceOutput, AdvanceDelivered
<1>3. freed2 = freed + keep /\ freed \in Int /\ keep \in Nat
  <2> HIDE DEF keep
  <2> QED BY <1>2, OutputNumbers
<1>4. spare \in Nat
  BY Sizes
<1>5. copies' = IF keep > 0 THEN copies + 1 ELSE copies
  BY DEF CountedAdvance
<1>6. HuffmanOnly /\ keep > 0 => spare <= keep
  BY <1>1, CopyDrops
<1>7. copies \in Nat /\ (HuffmanOnly => copies * spare <= freed)
  BY DEF PaidInv
<1>8. PaidInv' = (/\ copies' \in Nat
                  /\ HuffmanOnly' => copies' * spare <= freed2)
  BY DEF PaidInv, Kept, Max2
<1>9. HuffmanOnly' => HuffmanOnly
  BY <1>1, SameStream DEF Next
<1> HIDE DEF keep, spare, freed, freed2
<1>10. copies' \in Nat
  BY <1>5, <1>7
<1>11. ASSUME HuffmanOnly
       PROVE  copies' * spare <= freed2
  <2> DEFINE paid == copies * spare
  <2>1. (copies + 1) * spare = paid + spare /\ paid \in Nat
    BY <1>4, <1>7, OneMore
  <2>2. paid <= freed
    BY <1>7, <1>11
  <2>3. CASE keep > 0
    <3>1. spare <= keep /\ copies' * spare = paid + spare
      BY <1>5, <1>6, <1>11, <2>1, <2>3
    <3> HIDE DEF paid
    <3> QED BY <1>3, <1>4, <2>1, <2>2, <3>1
  <2>4. CASE ~ (keep > 0)
    <3>1. copies' * spare = paid
      BY <1>5, <2>4
    <3> HIDE DEF paid
    <3> QED BY <1>3, <2>1, <2>2, <3>1
  <2> QED BY <2>3, <2>4
<1> QED BY <1>8, <1>9, <1>10, <1>11

LEMMA PaidNext == IInv /\ MemInv /\ PaidInv /\ [CostNext]_costvars => PaidInv'
<1> SUFFICES ASSUME IInv, MemInv, PaidInv, [CostNext]_costvars
             PROVE  PaidInv'
  OBVIOUS
<1>1. CASE \E n \in 0 .. Len(Unread) : CountedAdvance(n)
  BY <1>1, AdvancePaid
<1>2. CASE UNCHANGED <<copies, delivered, drained>>
  <2>1. HuffmanOnly' => HuffmanOnly
    BY CostStep, SameStream
  <2> QED BY <1>2, <2>1 DEF PaidInv, Kept, Max2
<1>3. CASE (Step \/ \E n \in FeedSizes : Feed(n)) /\ UNCHANGED copies
  BY <1>2, <1>3 DEF Step, Feed
<1>4. CASE UNCHANGED costvars
  BY <1>2, <1>4 DEF costvars, vars
<1> QED BY <1>1, <1>3, <1>4 DEF CostNext

LEMMA PaidInit == CostInit => IInv /\ MemInv /\ PaidInv
<1> SUFFICES ASSUME CostInit PROVE IInv /\ MemInv /\ PaidInv
  OBVIOUS
<1>1. IInv
  BY InitInv DEF CostInit
<1>2. MemInv
  <2>1. /\ MAX_INTERNAL_BUFFER \in Nat \ {0} /\ MAX_MATCH \in Nat \ {0}
        /\ COMPACT_THRESHOLD \in Nat /\ 0 < COMPACT_THRESHOLD
    BY Sizes, StreamsAssumption, DecoderAssumption
  <2> QED BY <2>1 DEF CostInit, Init, MemInv
<1>3. PaidInv
  <2>1. copies = 0 /\ Len(delivered) - drained = 0
    BY DEF CostInit, Init
  <2>2. 0 * (COMPACT_THRESHOLD - Kept) = 0
    BY Sizes
  <2> QED BY <2>1, <2>2 DEF PaidInv
<1> QED BY <1>1, <1>2, <1>3

(* Whoever drains the decoder, and in pieces of whatever size: on a stream *)
(* without stored blocks maybe_compact copies the buffer at most once per  *)
(* COMPACT_THRESHOLD - Kept bytes decoded.                                 *)
THEOREM CompactionIsAmortized == CostSpec => []CopiesAreRare
<1>1. IInv /\ MemInv /\ PaidInv => CopiesAreRare
  <2> SUFFICES ASSUME IInv, MemInv, PaidInv, HuffmanOnly
               PROVE  copies * (COMPACT_THRESHOLD - Kept) <= Len(History)
    BY DEF HuffmanOnly, CopiesAreRare, CopiesAreAmortized
  <2> DEFINE paid == copies * (COMPACT_THRESHOLD - Kept)
  <2>1. Len(History) = Len(delivered) + Len(Unread) /\ Len(Unread) \in Nat
    BY OutputTypes, UnreadType, ConcatProperties DEF History
  <2>2. paid <= Len(delivered) - drained /\ paid \in Int
    BY Sizes DEF PaidInv
  <2> HIDE DEF paid
  <2>3. paid <= Len(History)
    BY <2>1, <2>2, OutputNumbers
  <2> QED BY <2>3 DEF paid
<1> QED BY <1>1, PaidInit, NextInv, MemNext, PaidNext, CostStep, PTL DEF CostSpec
=============================================================================
