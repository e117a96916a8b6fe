------------------------- MODULE DecoderProperties -------------------------
(***************************************************************************)
(* What the streaming decoder promises.                                    *)
(***************************************************************************)
EXTENDS Decoder

(* Everything decoded so far: what the caller has taken, then what it has  *)
(* not.                                                                    *)
History == delivered \o Unread

PlainStates     == [kind : {"BlockHeader", "Finished", "Transient"}]
BeginStates     == [kind : {"StoredAlignAndLen", "DynamicHeader"},
                    is_final : BOOLEAN]
StoredStates    == [kind : {"StoredBody"}, is_final : BOOLEAN,
                    remaining : 0 .. U16_MAX]
BitwidthStates  == [kind : {"DynamicBitwidthTable"}, is_final : BOOLEAN,
                    at : BitsOf(S.size), order_idx : 0 .. 19]
LengthsStates   == [kind : {"DynamicCodeLengths"}, is_final : BOOLEAN,
                    at : BitsOf(S.size), len : 0 .. 318,
                    bitwidth_decoder : HuffmanDecoders]
SymbolStates    == [kind : {"SymbolLoop"}, is_final : BOOLEAN,
                    literal : HuffmanDecoders, distance : HuffmanDecoders]
DecodeStates == PlainStates \cup BeginStates \cup StoredStates
                \cup BitwidthStates \cup LengthsStates \cup SymbolStates

(* The variables keep their types.  Every peek is of 15 bits at most, so   *)
(* the bit buffer of 64 never holds more than 22 (bit.rs peek_bits shifts  *)
(* the byte it loads by the bits already there).                           *)
TypeOK ==
  /\ id \in StreamIds
  /\ fed \in 0 .. S.size
  /\ delivered \in Seq(Byte)
  /\ input \in 0 .. fed
  /\ pending \in 0 .. 22
  /\ state \in DecodeStates
  /\ output \in Seq(Byte)
  /\ drained \in 0 .. Len(output)
  /\ finished \in BOOLEAN
  /\ reader \in [byte_index : 0 .. input, bit_count : 0 .. 22]
  /\ pc \in {"idle", "drive", "panic"}
  /\ result \in {"ok", "err"}
-----------------------------------------------------------------------------
(* The decoder is an implementation of Inflate.  The cutting of the input  *)
(* into feeds, the look-ahead and rollback of the bit reader, the yields,  *)
(* the draining and the compaction leave no trace in what is decoded.      *)
Phase ==
  IF state.kind = "Transient" THEN [kind |-> "Failed"]
  ELSE IF state.kind = "DynamicCodeLengths" THEN
         [kind |-> "DynamicCodeLengths", is_final |-> state.is_final,
          at |-> state.at, len |-> state.len]
  ELSE IF state.kind = "SymbolLoop" THEN
         [kind |-> "SymbolLoop", is_final |-> state.is_final,
          eob |-> state.literal.eob]
  ELSE state

AbstractPos == IF state.kind = "Transient" THEN 0 ELSE Pos

Abstract == INSTANCE Inflate
  WITH pos <- AbstractPos, phase <- Phase, out <- History

(* In whatever pieces the caller feeds and drains (feed, advance), the     *)
(* bytes it gets are those of one uninterrupted decoding of the stream,    *)
(* and a stream is refused only for what is malformed in it.               *)
ImplementsInflate == Abstract!Spec

(* What is decoded to its end is a whole stream, ends in the byte that the *)
(* stream ends in, and gives its data.                                     *)
EndIsRight == Abstract!EndIsRight

(* WholeSize and WholeData tell the truth of the streams: Inflate reads a  *)
(* whole one to its end, which is in its last byte, and no other.          *)
SizesAreRight == Abstract!Spec => []EndIsRight

(* maybe_compact keeps what back-references need: the buffer is a suffix   *)
(* of everything decoded, and it still holds the last WINDOW_SIZE bytes.   *)
WindowKept ==
  LET n == Len(History) - Len(output) IN
  /\ n >= 0
  /\ output = SubSeq(History, n + 1, Len(History))
  /\ Len(output) >= Min2(Len(History), WINDOW_SIZE)

(* step_symbol_loop looks ahead by the width of END_OF_BLOCK only.  So     *)
(* when the stream ends, remaining_input() starts at the first byte after  *)
(* the one the final block ends in: the container's trailer is intact.     *)
TrailerKept == finished => fed - input = (Pos + 7) \div 8

(* read_bytes unwinds the buffered bytes with an unsigned subtraction that *)
(* must not pass the start of the slice, and it drops buffered bits that   *)
(* must not be a fraction of a byte (its debug_assert).                    *)
NoUnderflow ==
  /\ state.kind = "StoredAlignAndLen" => unwound(reader) >= 0
  /\ state.kind = "StoredBody" => /\ unwound(reader) >= 0
                                  /\ reader.bit_count % 8 = 0

(* A stream without stored blocks cannot make the output buffer grow       *)
(* beyond the threshold at which it is compacted, the cap on unread bytes  *)
(* and one match, however long it is and however the caller drains it.     *)
MemoryBounded ==
  (\A p \in BitsOf(S.size) : S.header[p].type # "stored")
    => Len(output) < COMPACT_THRESHOLD + MAX_INTERNAL_BUFFER + MAX_MATCH
-----------------------------------------------------------------------------
Returns == pc = "drive" /\ pc' = "idle" /\ result' = "ok"
Yielded == Len(output') - drained' >= MAX_INTERNAL_BUFFER

(* A feed that returns for want of input, rather than for want of room,    *)
(* has decoded all but an incomplete element: 48 bits at most are held     *)
(* back, the longest match, so the input buffer stays small.               *)
HoldsBackLittle ==
  [][Returns /\ ~ Yielded /\ ~ finished'
       => 8 * input' + pending' < 48]_vars

(* A feed that has the whole of a well-formed stream at hand and room for  *)
(* what is left of it finishes it: no bit after END_OF_BLOCK is awaited.   *)
CompleteStreamFinishes ==
  [][Returns /\ ~ Yielded /\ HasWholeStream => finished']_vars

(* Every feed returns (or has panicked): drive never loops for ever.       *)
FeedReturns == pc = "drive" ~> pc # "drive"
-----------------------------------------------------------------------------
(* decode.rs on the placeholder state: "Never left in this state between   *)
(* step calls."                                                            *)
NeverLeftTransient == pc = "idle" => state.kind # "Transient"

(* decode.rs on MAX_INTERNAL_BUFFER: "Once the unread output reaches this  *)
(* threshold the decoder stops and returns", overshooting "by up to one    *)
(* LZ77 match".                                                            *)
UnreadCapped == Len(Unread) < MAX_INTERNAL_BUFFER + MAX_MATCH
=============================================================================
