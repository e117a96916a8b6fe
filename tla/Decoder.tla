------------------------------ MODULE Decoder ------------------------------
(***************************************************************************)
(* The streaming DEFLATE decoder of src/decode.rs over the bit reader of   *)
(* src/bit.rs.                                                             *)
(*                                                                         *)
(* The caller hands over compressed bytes with feed, looks at output and   *)
(* takes bytes off it with advance, in any order and in pieces of any      *)
(* size.  A feed runs drive, a loop of step calls; here each step, and     *)
(* each iteration of a loop inside a step, is an action, so that `pc' is   *)
(* "drive" from the call of feed to its return.  The caller runs only      *)
(* while `pc' is "idle".                                                   *)
(*                                                                         *)
(* The state between two iterations is what the step would store if it ran *)
(* out of input there.  Bits are counted, not stored: the bit reader is    *)
(* its byte_index and its bit_count, from which Pos tells the position in  *)
(* the stream of the next bit it delivers, and what that bit and those     *)
(* after it mean is looked up in the stream.                               *)
(***************************************************************************)
EXTENDS DeflateStream, Integers

CONSTANTS
  COMPACT_THRESHOLD,     \* compact an output buffer of this length
  MAX_INTERNAL_BUFFER,   \* unread bytes at which the symbol loop yields
  FeedSizes              \* how many bytes a caller passes to one feed

ASSUME DecoderAssumption ==
  /\ COMPACT_THRESHOLD \in Nat /\ MAX_INTERNAL_BUFFER \in Nat \ {0}
  /\ WINDOW_SIZE < COMPACT_THRESHOLD
  /\ FeedSizes \subseteq Nat

VARIABLES
  id,         \* the stream the caller holds
  fed,        \* how many of its bytes feed has accepted
  delivered,  \* the bytes the caller has taken off the output, in order
  input,      \* Buf: how many bytes it holds
  pending,    \* pending_bit_count
  state,      \* DecodeState
  output,     \* the output buffer, consumed bytes included
  drained,    \* how many bytes of it are consumed
  finished,
  reader,     \* the BitReader of the drive under way (or of the next one)
  pc,         \* "idle", "drive", or "panic": unreachable!() was reached
  result      \* what the last feed returned

vars == <<id, fed, delivered, input, pending, state, output, drained,
          finished, reader, pc, result>>

S == Streams[id]
Unread == SubSeq(output, drained + 1, Len(output))
-----------------------------------------------------------------------------
(* BitReader.  A byte moves from the input to the buffer when a peek needs *)
(* it, and never back but in read_bytes.                                   *)

new_seeded(bit_count) == [byte_index |-> 0, bit_count |-> bit_count]

available_bits(r) == r.bit_count + 8 * (input - r.byte_index)

(* How many bytes take a buffer of c bits to n bits or more.               *)
bytes_for(c, n) == IF c < n THEN (n - c + 7) \div 8 ELSE 0

(* A bug the runs catch: the loop's condition is <= and not <.             *)
peek_bits_one_more(r, n) ==
  [r EXCEPT !.byte_index = @ + bytes_for(r.bit_count, n + 1),
            !.bit_count  = @ + 8 * bytes_for(@, n + 1)]

(* The reader after a peek of n available bits.                            *)
peek_bits(r, n) ==
  [r EXCEPT !.byte_index = @ + bytes_for(r.bit_count, n),
            !.bit_count  = @ + 8 * bytes_for(@, n)]

(* Every skip follows a peek of as many bits or more, so loads nothing.    *)
skip_bits(r, n) == [r EXCEPT !.bit_count = @ - n]

read_bits(r, n) == skip_bits(peek_bits(r, n), n)

align_to_byte(r) == [byte_index |-> r.byte_index,
                     bit_count  |-> r.bit_count - (r.bit_count % 8)]

(* The input index read_bytes starts at: buffered whole bytes are unwound. *)
unwound(r) == r.byte_index - r.bit_count \div 8

read_bytes(r, n) == [byte_index |-> unwound(r) + n, bit_count |-> 0]

(* Position in the stream of input[k], and of the next bit of reader r.    *)
BytePos(k) == 8 * (fed - input + k)
PosOf(r) == BytePos(r.byte_index) - r.bit_count
Pos == PosOf(reader)

(* HuffmanDecoder::decode of a code of the given width: it peeks at        *)
(* table.peek bits, or more if the code turns out longer, then skips it.   *)
(* An unassigned code is noticed after the same peek.                      *)
peeked_max(table, width) == table.max   \* a bug the runs catch
peeked(table, width) == Max2(table.peek, width)

decode(r, table, width) ==
  skip_bits(peek_bits(r, peeked(table, width)), width)
-----------------------------------------------------------------------------
(* The outcomes of a step, as drive treats them.                           *)

(* A bug the runs catch: buffered bits are lost.                           *)
Commit_loses_bits(r) == /\ input' = input - r.byte_index
                        /\ pending' = 0
                        /\ reader' = new_seeded(0)
                        /\ pc' = "idle"
                        /\ result' = "ok"

(* The reader is dropped; what it consumed leaves the input buffer and the *)
(* bits it had loaded but not delivered are kept for the next one.         *)
Commit(r) == /\ input' = input - r.byte_index
             /\ pending' = r.bit_count
             /\ reader' = new_seeded(r.bit_count)
             /\ pc' = "idle"
             /\ result' = "ok"

Progress(r) == /\ reader' = r
               /\ UNCHANGED <<input, pending, pc, result, finished>>

(* A bug the runs catch: waiting for bytes is reported as progress.        *)
NeedMoreBytes_spins == /\ Progress(reader)
                       /\ UNCHANGED <<state, output>>

(* The reader goes back to the snapshot and the state keeps its place.     *)
NeedMoreBytes == /\ Commit(reader)
                 /\ UNCHANGED <<state, output, finished>>

Yield == /\ Commit(reader)
         /\ UNCHANGED <<state, output, finished>>

Finished(r) == /\ Commit(r)
               /\ state' = [kind |-> "Finished"]
               /\ finished' = TRUE

(* The error leaves drive before anything is committed, and the state is   *)
(* the placeholder that step put in its place.                             *)
Error == /\ state' = [kind |-> "Transient"]
         /\ reader' = new_seeded(pending)
         /\ pc' = "idle"
         /\ result' = "err"
         /\ UNCHANGED <<input, pending, output, finished>>

(* The block ends here, and the stream with it if the block is final.      *)
EndBlock(r, is_final) ==
  \/ /\ is_final
     /\ Finished(r)
  \/ /\ ~ is_final
     /\ state' = [kind |-> "BlockHeader"]
     /\ Progress(r)
-----------------------------------------------------------------------------
(* The steps of a drive.  Each reads at its reader's position what the     *)
(* stream s says there, if enough bits are available.                      *)

InState(kind) == pc = "drive" /\ state.kind = kind

StepBlockHeader(s) ==
  LET h == s.header[Pos]
      r == read_bits(reader, 3)
  IN
  /\ InState("BlockHeader")
  /\ \/ /\ available_bits(reader) < 3
        /\ NeedMoreBytes
     \/ /\ available_bits(reader) >= 3
        /\ \/ /\ h.type = "stored"
              /\ state' = [kind |-> "StoredAlignAndLen",
                           is_final |-> h.is_final]
              /\ Progress(r) /\ UNCHANGED output
           \/ /\ h.type = "fixed"
              /\ state' = [kind |-> "SymbolLoop", is_final |-> h.is_final,
                           literal |-> FixedLiteral,
                           distance |-> FixedDistance]
              /\ Progress(r) /\ UNCHANGED output
           \/ /\ h.type = "dynamic"
              /\ state' = [kind |-> "DynamicHeader",
                           is_final |-> h.is_final]
              /\ Progress(r) /\ UNCHANGED output
           \/ h.type = "reserved" /\ Error

StepStoredAlignAndLen(s) ==
  LET aligned == align_to_byte(reader)
      word    == s.lens[BytePos(unwound(aligned))]
  IN
  /\ InState("StoredAlignAndLen")
  /\ \/ /\ available_bits(reader) < (reader.bit_count % 8) + 32
        /\ NeedMoreBytes
     \/ /\ available_bits(reader) >= (reader.bit_count % 8) + 32
        /\ \/ /\ word.ok
              /\ state' = [kind |-> "StoredBody",
                           is_final |-> state.is_final,
                           remaining |-> word.len]
              /\ Progress(read_bytes(aligned, 4))
              /\ UNCHANGED output
           \/ ~ word.ok /\ Error

StepStoredBody(s) ==
  LET take == Min2(available_bits(reader) \div 8, state.remaining)
      from == unwound(reader)
  IN
  /\ InState("StoredBody")
  /\ \/ /\ state.remaining = 0
        /\ EndBlock(reader, state.is_final)
        /\ UNCHANGED output
     \/ /\ state.remaining > 0
        /\ available_bits(reader) \div 8 = 0
        /\ NeedMoreBytes
     \/ /\ take > 0
        /\ output' = output \o [k \in 1 .. take |-> s.byte[BytePos(from + k - 1)]]
        /\ state' = [state EXCEPT !.remaining = @ - take]
        /\ Progress(read_bytes(reader, take))

(* In the states below `at' is the position of the dynamic header: with    *)
(* order_idx or len it stands for hlit, hdist, hclen, target_len and the   *)
(* code lengths read so far.                                               *)
StepDynamicHeader(s) ==
  /\ InState("DynamicHeader")
  /\ \/ /\ available_bits(reader) < 14
        /\ NeedMoreBytes
     \/ /\ available_bits(reader) >= 14
        /\ \/ /\ s.dynamic[Pos].hdist_ok
              /\ state' = [kind |-> "DynamicBitwidthTable",
                           is_final |-> state.is_final,
                           at |-> Pos, order_idx |-> 0]
              /\ Progress(read_bits(reader, 14))
              /\ UNCHANGED output
           \/ ~ s.dynamic[Pos].hdist_ok /\ Error

StepDynamicBitwidthTable(s) ==
  LET dyn == s.dynamic[state.at] IN
  /\ InState("DynamicBitwidthTable")
  /\ \/ /\ state.order_idx < dyn.hclen
        /\ \/ /\ available_bits(reader) < 3
              /\ NeedMoreBytes
           \/ /\ available_bits(reader) >= 3
              /\ state' = [state EXCEPT !.order_idx = @ + 1]
              /\ Progress(read_bits(reader, 3))
              /\ UNCHANGED output
     \/ /\ state.order_idx = dyn.hclen
        /\ \/ /\ dyn.bitwidth.ok
              /\ state' = [kind |-> "DynamicCodeLengths",
                           is_final |-> state.is_final,
                           at |-> state.at, len |-> 0,
                           bitwidth_decoder |->
                             from_code_lengths(dyn.bitwidth, 1)]
              /\ Progress(reader)
              /\ UNCHANGED output
           \/ ~ dyn.bitwidth.ok /\ Error

StepDynamicCodeLengths(s) ==
  LET dyn   == s.dynamic[state.at]
      e     == s.rle[Pos]
      extra == RleExtraBits(e.code)
      r     == decode(reader, state.bitwidth_decoder, e.width)
      short == \/ available_bits(reader)
                    < peeked(state.bitwidth_decoder, e.width)
               \/ e.code # "invalid" /\ available_bits(r) < extra
      bad   == \/ e.code = "invalid"
               \/ e.code = "previous" /\ state.len = 0
               \/ state.len + e.repeat > dyn.target_len
  IN
  /\ InState("DynamicCodeLengths")
  /\ \/ /\ state.len < dyn.target_len
        /\ \/ short /\ NeedMoreBytes
           \/ ~ short /\ bad /\ Error
           \/ /\ ~ short /\ ~ bad
              /\ state' = [state EXCEPT !.len = @ + e.repeat]
              /\ Progress(read_bits(r, extra))
              /\ UNCHANGED output
     \/ /\ state.len = dyn.target_len
        /\ \/ /\ dyn.literal.ok /\ dyn.distance.ok
              /\ state' = [kind |-> "SymbolLoop",
                           is_final |-> state.is_final,
                           literal |-> DynamicLiteral(dyn),
                           distance |-> DynamicDistance(dyn)]
              /\ Progress(reader)
              /\ UNCHANGED output
           \/ ~ (dyn.literal.ok /\ dyn.distance.ok) /\ Error

(* A bug the runs catch: consumed bytes count as long as they are kept.    *)
OutputFull_of_consumed == Len(output) >= MAX_INTERNAL_BUFFER

OutputFull == Len(output) - drained >= MAX_INTERNAL_BUFFER

(* One symbol: a literal, a match or the end of the block.                 *)
StepSymbolLoop(s) ==
  LET lit     == state.literal
      sym     == s.symbol[Pos]
      width   == IF sym.kind = "endOfBlock" THEN lit.eob ELSE sym.width
      invalid == \/ sym.kind = "invalid"
                 \/ sym.kind = "endOfBlock" /\ lit.eob = 0
      r1      == decode(reader, lit, width)
      r2      == read_bits(r1, sym.extra)
      r3      == decode(r2, state.distance, sym.dwidth)
      short   == \/ available_bits(reader) < peeked(lit, width)
                 \/ /\ sym.kind = "match"
                    /\ \/ available_bits(r1) < sym.extra
                       \/ available_bits(r2)
                            < peeked(state.distance, sym.dwidth)
                       \/ /\ sym.dkind = "distance"
                          /\ available_bits(r3) < sym.dextra
      bad     == \/ invalid
                 \/ sym.kind = "forbidden"
                 \/ /\ sym.kind = "match"
                    /\ \/ sym.dkind # "distance"
                       \/ sym.distance > Len(output)
  IN
  /\ InState("SymbolLoop")
  /\ \/ OutputFull /\ Yield
     \/ /\ ~ OutputFull
        /\ \/ short /\ NeedMoreBytes
           \/ ~ short /\ bad /\ Error
           \/ /\ ~ short /\ sym.kind = "literal"
              /\ output' = Append(output, sym.byte)
              /\ Progress(r1)
              /\ UNCHANGED state
           \/ /\ ~ short /\ ~ bad /\ sym.kind = "endOfBlock"
              /\ EndBlock(r1, state.is_final)
              /\ UNCHANGED output
           \/ /\ ~ short /\ ~ bad /\ sym.kind = "match"
              /\ output' = copy_from_distance(output, sym.distance, sym.length)
              /\ Progress(read_bits(r3, sym.dextra))
              /\ UNCHANGED state

(* drive of a finished decoder: nothing is read.                           *)
StepFinished == /\ InState("Finished")
                /\ Finished(reader)
                /\ UNCHANGED output

Step ==
  /\ \E s \in {S} : \/ StepBlockHeader(s)
                    \/ StepStoredAlignAndLen(s)
                    \/ StepStoredBody(s)
                    \/ StepDynamicHeader(s)
                    \/ StepDynamicBitwidthTable(s)
                    \/ StepDynamicCodeLengths(s)
                    \/ StepSymbolLoop(s)
                    \/ StepFinished
  /\ UNCHANGED <<id, fed, delivered, drained>>
-----------------------------------------------------------------------------
(* The caller's operations.                                                *)

(* feed of the next n bytes of the stream.  Once finished, bytes are       *)
(* refused; an empty feed is not.  step panics in the placeholder state.   *)
Feed(n) ==
  /\ pc = "idle"
  /\ n <= S.size - fed
  /\ \/ /\ finished /\ n > 0
        /\ result' = "err"
        /\ UNCHANGED <<fed, input, reader, pc>>
     \/ /\ ~ (finished /\ n > 0)
        /\ fed' = fed + n
        /\ input' = input + n
        /\ reader' = new_seeded(pending)
        /\ pc' = IF state.kind = "Transient" THEN "panic" ELSE "drive"
        /\ UNCHANGED result
  /\ UNCHANGED <<id, delivered, pending, state, output, drained, finished>>

(* Bugs the runs catch: the window is dropped, or nothing is, or whatever  *)
(* can be is each time.                                                    *)
keep_from_drops_window(len, d) == IF len < COMPACT_THRESHOLD THEN 0 ELSE d
keep_from_never(len, d) == 0
keep_from_each_time(len, d) == Min2(d, Max2(0, len - WINDOW_SIZE))

(* How much maybe_compact drops off a buffer of len bytes, d of them       *)
(* consumed: no unread byte and none of the last WINDOW_SIZE.              *)
keep_from(len, d) ==
  IF len < COMPACT_THRESHOLD THEN 0 ELSE Min2(d, Max2(0, len - WINDOW_SIZE))

(* advance(n) by a caller that has taken a copy of output()[..n].          *)
Advance(n) ==
  LET d    == drained + n
      keep == keep_from(Len(output), d)
  IN
  /\ pc = "idle"
  /\ n <= Len(Unread)
  /\ delivered' = delivered \o SubSeq(Unread, 1, n)
  /\ output' = SubSeq(output, keep + 1, Len(output))
  /\ drained' = d - keep
  /\ UNCHANGED <<id, fed, input, pending, state, finished, reader, pc,
                 result>>

Init == /\ id \in StreamIds
        /\ fed = 0
        /\ delivered = << >>
        /\ input = 0
        /\ pending = 0
        /\ state = [kind |-> "BlockHeader"]
        /\ output = << >>
        /\ drained = 0
        /\ finished = FALSE
        /\ reader = new_seeded(0)
        /\ pc = "idle"
        /\ result = "ok"

Next == \/ Step
        \/ \E n \in FeedSizes : Feed(n)
        \/ \E n \in 0 .. Len(Unread) : Advance(n)

(* A drive runs without giving up the processor: it is never left midway.  *)
Spec == Init /\ [][Next]_vars /\ WF_vars(Step)
-----------------------------------------------------------------------------
(* The caller has fed all of a well-formed stream.                         *)
HasWholeStream == id \in DOMAIN WholeSize /\ fed >= WholeSize[id]
=============================================================================
