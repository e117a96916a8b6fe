------------------------------ MODULE Encoder ------------------------------
(***************************************************************************)
(* The streaming DEFLATE encoder of src/encode.rs over the bit writer of   *)
(* src/bit.rs.                                                             *)
(*                                                                         *)
(* The caller feeds bytes, flushes, finishes and takes compressed bytes    *)
(* off the output, in any order.  A call runs to its end before the next;  *)
(* here each block it emits, and each element of a block, is an action,    *)
(* so that `pc' is "idle" just between two calls.                          *)
(*                                                                         *)
(* Compressed data is abstracted to the elements it consists of, each with *)
(* its position and its width in bits: what matters is that a reader which *)
(* has read one element finds the next where it stopped.  Which matches    *)
(* the match finder chooses (Lz77) and how wide the codes of a block are   *)
(* (Huffman) is left open: any match that is one, any width in Coding.     *)
(***************************************************************************)
EXTENDS BackReference, Integers

CONSTANTS
  Byte,
  Kinds,             \* the block kinds a caller may choose
  Limits,            \* values of max_block_input_bytes; 0 stands for None
  MAX_STORED_BLOCK,  \* 65535: what LEN can say
  MIN_MATCH, MAX_MATCH, WINDOW_SIZE,
  COMPACT_THRESHOLD, \* drop a consumed prefix of this length
  Coding,            \* widths in bits, by the kind of block
  Pieces,            \* what a caller may feed at once
  Advances,          \* how many bytes it may take at once, besides all
  ResetsMidway,      \* may it reset the history with input buffered?
  MaxFed, MaxElements  \* bounds: bytes fed, elements in a stream to flush

BlockKinds == {"stored", "fixed", "dynamic"}
Widths == [table : SUBSET Nat, literal : SUBSET Nat, match : SUBSET Nat,
           end : SUBSET Nat]

ASSUME EncoderAssumption ==
  /\ Kinds \subseteq BlockKinds
  /\ Limits \subseteq Nat
  /\ MAX_STORED_BLOCK \in Nat \ {0}
  /\ MIN_MATCH \in Nat \ {0} /\ MAX_MATCH \in Nat /\ WINDOW_SIZE \in Nat
  /\ COMPACT_THRESHOLD \in Nat \ {0}
  /\ Coding \in [Kinds \ {"stored"} -> Widths]
  /\ Pieces \subseteq Seq(Byte)
  /\ Advances \subseteq Nat
  /\ ResetsMidway \in BOOLEAN
  /\ MaxFed \in Nat /\ MaxElements \in Nat

VARIABLES
  kind, limit,  \* options
  input,        \* bytes fed and not yet given to a block
  output,       \* how many bytes the output buffer holds, consumed ones too
  drained,      \* how many of them are consumed
  bit_count,    \* bits of an incomplete byte kept between two blocks
  finishing,
  fed,          \* the caller: all it has fed,
  taken,        \* how many bytes it has taken off the output,
  call,         \* its last call and
  answer,       \* what that returned
  pc,           \* where the call under way is
  after,        \* where it goes behind the block under way
  chunk,        \* the bytes of that block,
  cursor,       \* how many of them are written,
  is_final,     \* and whether it is the final one
  writer,       \* bit_count of the BitWriter of the block under way
  written,      \* every element written so far,
  meaning,      \* what a decoder makes of them,
  reset_at      \* and how much had been fed at the last reset_history

options == <<kind, limit>>
block   == <<after, chunk, is_final>>
caller  == <<fed, call, answer>>
history == <<written, meaning>>
outer   == <<options, drained, finishing, caller, taken, reset_at>>
evars == <<outer, input, output, bit_count, pc, block, cursor, writer, history>>

(* The position of the bit that follows b bits behind the output.          *)
Position(b) == 8 * (taken - drained + output) + b
-----------------------------------------------------------------------------
(* BitWriter: n bits behind the `from' bits that are not a byte yet.  An   *)
(* element says `what' it is: a tuple of its name and its values.          *)

write_bits(from, n, what) ==
  /\ written' = Append(written,
                       [at |-> Position(from), width |-> n, what |-> what])
  /\ output' = output + (from + n) \div 8
  /\ writer' = (from + n) % 8

align_to_byte ==
  /\ written' = Append(written, [at |-> Position(writer),
                                 width |-> (8 - writer) % 8,
                                 what |-> <<"pad">>])
  /\ output' = output + IF writer > 0 THEN 1 ELSE 0
  /\ writer' = 0
-----------------------------------------------------------------------------
EInit == /\ kind \in Kinds /\ limit \in Limits
         /\ input = << >> /\ output = 0 /\ drained = 0 /\ bit_count = 0
         /\ finishing = FALSE
         /\ fed = << >> /\ taken = 0 /\ call = "new" /\ answer = "ok"
         /\ pc = "idle" /\ after = "idle"
         /\ chunk = << >> /\ cursor = 0 /\ is_final = FALSE /\ writer = 0
         /\ written = << >> /\ meaning = << >> /\ reset_at = 0

(* The public operations begin.                                            *)

Call(name, place) == /\ pc = "idle"
                     /\ pc' = place
                     /\ call' = name
                     /\ answer' = "ok"

(* A chunk is handed to emit_block_chunk.                                  *)
emit_block_chunk(bytes, final, next) == /\ chunk' = bytes
                                        /\ is_final' = final
                                        /\ after' = next

Feed(data) == /\ ~ finishing
              /\ Len(fed) + Len(data) <= MaxFed
              /\ Call("feed", "feed")
              /\ fed' = fed \o data
              /\ input' = input \o data
              /\ UNCHANGED <<options, output, drained, bit_count, finishing,
                             taken, block, cursor, writer, history, reset_at>>

Full == limit > 0 /\ Len(input) >= limit

(* A bug the runs catch: the loop goes on, and a full buffer stays as it is*)
(* unless there is more than a block in it.                                *)
FeedLoop_spins ==
  /\ pc = "feed"
  /\ IF Full /\ Len(input) > limit
       THEN /\ emit_block_chunk(SubSeq(input, 1, limit), FALSE, "feed")
            /\ input' = SubSeq(input, limit + 1, Len(input))
            /\ pc' = "emit"
       ELSE pc' = (IF Full THEN "feed" ELSE "idle") /\ UNCHANGED <<input, block>>
  /\ UNCHANGED <<outer, output, bit_count, cursor, writer, history>>

(* The loop of feed: block after block while the buffer is full.           *)
FeedLoop ==
  /\ pc = "feed"
  /\ IF Full
       THEN /\ emit_block_chunk(SubSeq(input, 1, limit), FALSE, "feed")
            /\ input' = SubSeq(input, limit + 1, Len(input))
            /\ pc' = "emit"
       ELSE pc' = "idle" /\ UNCHANGED <<input, block>>
  /\ UNCHANGED <<outer, output, bit_count, cursor, writer, history>>

Finish == /\ ~ finishing
          /\ Call("finish", "emit")
          /\ finishing' = TRUE
          /\ emit_block_chunk(input, TRUE, "idle")
          /\ input' = << >>
          /\ UNCHANGED <<options, output, drained, bit_count, fed, taken,
                         cursor, writer, history, reset_at>>

(* A flush, and behind it the marker: an empty stored block.               *)
SyncFlush == /\ ~ finishing
             /\ Len(written) <= MaxElements
             /\ IF input # << >>
                  THEN /\ Call("sync_flush", "emit")
                       /\ emit_block_chunk(input, FALSE, "marker")
                  ELSE Call("sync_flush", "marker") /\ UNCHANGED block
             /\ input' = << >>
             /\ UNCHANGED <<options, output, drained, bit_count, finishing,
                            fed, taken, cursor, writer, history, reset_at>>

(* A bug the runs catch: the marker of a flush claims to be the last block.*)
Marker_final == /\ pc = "marker"
                /\ emit_block_chunk(<< >>, TRUE, "idle")
                /\ pc' = "stored"
                /\ UNCHANGED <<outer, input, output, bit_count, cursor, writer,
                               history>>

Marker == /\ pc = "marker"
          /\ emit_block_chunk(<< >>, FALSE, "idle")
          /\ pc' = "stored"
          /\ UNCHANGED <<outer, input, output, bit_count, cursor, writer,
                         history>>

(* After finish, a second finish does nothing and the others are refused.  *)
AfterFinish(name, a) == /\ finishing /\ pc = "idle"
                        /\ call' = name /\ answer' = a
                        /\ UNCHANGED <<options, input, output, drained,
                                       bit_count, finishing, fed, taken, pc,
                                       block, cursor, writer, history,
                                       reset_at>>

Refused == \/ AfterFinish("feed", "err")
           \/ AfterFinish("sync_flush", "err")
           \/ AfterFinish("finish", "ok")

(* The matcher's tables are new.  What it finds in a chunk never depended  *)
(* on the old ones, see Lz77, so that nothing else changes.                *)
ResetHistory == /\ pc = "idle"
                /\ ResetsMidway \/ input = << >>
                /\ reset_at' = Len(fed)
                /\ UNCHANGED <<options, input, output, drained, bit_count,
                               finishing, caller, taken, pc, block, cursor,
                               writer, history>>

Compact(d) == IF d >= COMPACT_THRESHOLD
                THEN output' = output - d /\ drained' = 0
                ELSE output' = output /\ drained' = d

Advance(n) == /\ pc = "idle"
              /\ n <= output - drained
              /\ taken' = taken + n
              /\ Compact(drained + n)
              /\ UNCHANGED <<options, input, bit_count, finishing, caller, pc,
                             block, cursor, writer, history, reset_at>>
-----------------------------------------------------------------------------
(* Stored blocks.                                                          *)

EmitStored == /\ pc = "emit" /\ kind = "stored"
              /\ pc' = "stored"
              /\ UNCHANGED <<outer, input, output, bit_count, block, cursor,
                             writer, history>>

(* A bug the runs catch: each of a chunk's stored blocks is as final as    *)
(* the chunk.                                                              *)
FinalFlag_each == is_final

sub_len == Min2(MAX_STORED_BLOCK, Len(chunk) - cursor)

(* A bug the runs catch: a last byte alone gets no block.                  *)
is_last_early == cursor + sub_len >= Len(chunk) - 1
is_last == cursor + sub_len = Len(chunk)
FinalFlag == is_final /\ is_last

StoredHeader ==
  /\ pc = "stored"
  /\ write_bits(bit_count, 3, <<"header", FinalFlag, "stored">>)
  /\ pc' = "align"
  /\ UNCHANGED <<outer, input, bit_count, block, cursor, meaning>>

StoredAlign ==
  /\ pc = "align"
  /\ align_to_byte
  /\ bit_count' = 0
  /\ pc' = "bytes"
  /\ UNCHANGED <<outer, input, block, cursor, meaning>>

(* LEN, NLEN and the bytes, straight into the output; then the next block  *)
(* or, after the last (or only, empty) one, the end of the chunk.          *)
StoredBytes ==
  LET bytes == SubSeq(chunk, cursor + 1, cursor + sub_len) IN
  /\ pc = "bytes"
  /\ written' = Append(written, [at |-> Position(0),
                                 width |-> 32 + 8 * sub_len,
                                 what |-> <<"bytes", bytes>>])
  /\ output' = output + 4 + sub_len
  /\ meaning' = meaning \o bytes
  /\ IF is_last THEN /\ pc' = after
                     /\ cursor' = 0 /\ chunk' = << >>
                ELSE /\ pc' = "stored"
                     /\ cursor' = cursor + sub_len /\ UNCHANGED chunk
  /\ UNCHANGED <<outer, input, bit_count, after, is_final, writer>>
-----------------------------------------------------------------------------
(* Fixed and dynamic blocks.                                               *)

(* The header, and in a dynamic block the description of its codes.        *)
EmitHuffman ==
  /\ pc = "emit" /\ kind # "stored"
  /\ \E t \in Coding[kind].table :
       write_bits(bit_count, 3 + t, <<"header", is_final, kind>>)
  /\ pc' = "symbols"
  /\ UNCHANGED <<outer, input, bit_count, block, cursor, meaning>>

WriteLiteral ==
  /\ pc = "symbols" /\ cursor < Len(chunk)
  /\ \E w \in Coding[kind].literal :
       write_bits(writer, w, <<"literal", chunk[cursor + 1]>>)
  /\ meaning' = Append(meaning, chunk[cursor + 1])
  /\ cursor' = cursor + 1
  /\ UNCHANGED <<outer, input, bit_count, pc, block>>

(* A bug the runs catch: the match finder remembers earlier blocks.        *)
Seen_earlier_blocks == meaning

(* What the match finder may refer to: the chunk it was given, so far.     *)
Seen == SubSeq(chunk, 1, cursor)
Reach == Min2(Len(Seen), WINDOW_SIZE)

(* The chunk goes on with a match of this length and distance.             *)
IsMatch(length, distance) ==
  /\ cursor + length <= Len(chunk)
  /\ SubSeq(chunk, cursor + 1, cursor + length)
       = Repeated(Seen, distance, length)

WriteMatch ==
  /\ pc = "symbols"
  /\ \E length \in MIN_MATCH .. MAX_MATCH, distance \in 1 .. Reach :
       /\ IsMatch(length, distance)
       /\ \E w \in Coding[kind].match :
            write_bits(writer, w, <<"match", length, distance>>)
       /\ meaning' = copy_from_distance(meaning, distance, length)
       /\ cursor' = cursor + length
  /\ UNCHANGED <<outer, input, bit_count, pc, block>>

WriteEnd ==
  /\ pc = "symbols" /\ cursor = Len(chunk)
  /\ \E w \in Coding[kind].end : write_bits(writer, w, <<"end">>)
  /\ pc' = "close"
  /\ UNCHANGED <<outer, input, bit_count, block, cursor, meaning>>

(* A bug the runs catch: the bits behind the last whole byte are dropped.  *)
KeepBits_forgets == bit_count' = 0
KeepBits == bit_count' = writer

(* The final block is padded; behind any other its last bits wait for the  *)
(* next block.                                                             *)
CloseBlock ==
  /\ pc = "close"
  /\ IF is_final THEN align_to_byte /\ bit_count' = 0
                 ELSE KeepBits /\ writer' = 0 /\ UNCHANGED <<output, written>>
  /\ pc' = after
  /\ cursor' = 0 /\ chunk' = << >>
  /\ UNCHANGED <<outer, input, after, is_final, meaning>>
-----------------------------------------------------------------------------
(* The rest of a call, once it has begun.                                  *)
EStep == \/ FeedLoop \/ Marker
         \/ EmitStored \/ StoredHeader \/ StoredAlign \/ StoredBytes
         \/ EmitHuffman \/ WriteLiteral \/ WriteMatch \/ WriteEnd
         \/ CloseBlock

ENext == \/ \E data \in Pieces : Feed(data)
         \/ Finish \/ SyncFlush \/ Refused \/ ResetHistory
         \/ \E n \in Advances \cup {output - drained} : Advance(n)
         \/ EStep

ESpec == EInit /\ [][ENext]_evars /\ WF_evars(EStep)
=============================================================================
