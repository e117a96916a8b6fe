# Verification of noflate

`noflate` is a `no_std` Rust library that compresses and decompresses DEFLATE,
zlib and gzip data in a streaming way: the caller feeds bytes in pieces of any
size, looks at the bytes produced so far and takes them off when it likes.
Nothing in it runs concurrently. What makes it hard is the *protocol*: a decoder
suspended in the middle of a symbol, of a header or of a yield has to go on as
if nothing had happened, at every one of the positions where input can run out,
while buffers are drained and compacted under it.

## Inventory

Paths are relative to the repository.

| Component | State | Operations | Promises |
|---|---|---|---|
| Streaming decoder, `src/decode.rs` | `input: Buf`, `output`, `drained`, `state: DecodeState`, `pending_bit_buffer/count`, `finished` | `new`, `feed` (runs `drive`, a loop of `step`), `output`, `advance` (with `maybe_compact`), `is_finished`, `remaining_input` | the bytes that come out do not depend on how the stream is cut and drained; the window is kept; memory is bounded; the trailer of a container is left alone |
| Bit reader, `src/bit.rs` | `byte_index`, `bit_buffer`, `bit_count` over a borrowed slice | `peek_bits`, `skip_bits`, `read_bits`, `align_to_byte`, `read_bytes`, `snapshot`/`restore` | no bit is lost or read twice across two drives; no underflow when buffered bytes are unwound |
| Huffman tables, `src/huffman.rs` | decoding table, `safely_peek_bits`, `max_bits`; encoder codes | `from_code_lengths`, `decode`; `length_limited_code_lengths` (package-merge) | decoding never asks for bits after END_OF_BLOCK; widths form a usable code within the limit |
| Symbol tables, `src/symbol.rs` | none | `length_to_symbol`, `distance_to_symbol`, fixed tables | tables are inverse to each other |
| Streaming encoder, `src/encode.rs` | `input`, `output`, `drained`, `matcher`, `symbols`, `finishing`, `bit_buffer/count` | `feed`, `finish`, `sync_flush`, `reset_history`, `output`, `advance` | what it emits decodes to what it was fed; blocks join at any bit; a flush ends on a byte |
| Match finder, `src/lz77.rs` | `head`, `prev`, `head_dirty` | `fill_symbols` | tokens expand to the input; distances stay in the window |
| Containers, `src/gzip.rs`, `src/zlib.rs` | header and trailer state, checksum, inner decoder or encoder, `output: Buf` | `feed`, `finish`, `output`, `advance` | header and trailer may be cut anywhere; only a matching trailer finishes |
| One-shot functions, `src/deflate.rs` | none | `compress`, `decompress` | the drain loop ends, with all the bytes or an error |
| `Buf`, `src/buf.rs` | `bytes`, `offset` | `feed`, `get`, `advance` | a queue |
| Checksums, `src/adler32.rs`, `src/crc32.rs` | accumulators | `update`, `value` | no overflow between two reductions; the tables compute the CRC |
| `src/lib.rs`, `src/error.rs` | none | `Format::detect` | what the decoders accept and the encoders write is taken for what it is |
| `std::io` adapters, `examples/io_bridge.rs` | a decoder or an encoder, the inner reader or writer | `read`, `write`, `finish` | the end is reported at the end; all that is written reaches the sink |
| other `examples/`, `tests/` | - | callers of the above | - |

The container decoders own a DEFLATE decoder: they hand it the bytes after the
header, drain it after every feed, resume it with empty feeds while it yields,
and take `remaining_input` as the start of the trailer. The decoder owns a `Buf`
and makes a `BitReader` over it for each `drive`. The encoder owns a match
finder and makes a `BitWriter` for each block; the container encoders own an
encoder, and move what it produces into their own output behind a header.


### What is hard here

- **Interruption.** Input may end after any bit of an element and output may
  reach its cap after any symbol. The bit reader loads bytes ahead, goes back to
  a snapshot when an element is not all there, and is thrown away and rebuilt
  between two feeds.
- **Interleaving by the caller.** `feed`, `feed(&[])` and `advance` come in any
  order; buffers are compacted in `advance`, in between.
- **The same answer for different reasons.** `feed` returns `Ok(())` when it
  needs input, when it is at its output cap and when it is finished, and every
  caller has to tell these apart.
- **Who owns a byte.** The bytes behind the final block belong to the container;
  a decoder that looks too far ahead takes them, or waits for bytes that do not
  exist.
- **What is left after an error.** An error leaves a step half done.

No component is concurrent, nothing is persisted and nothing is sent, so there
are no hazards of threads, crashes or lost messages. The full list of hazards,
each with its line, is in `PROJECT.json`.

## Modules

```
BackReference ─┬─ DeflateStream ─┬─ Inflate (abstract)
               │                 └─ Decoder ─┬─ DecoderProperties ── CompactionCost ── DecoderProofs
               │                             ├─ IoReader ────────────────┬─ MCCallers ────────┐
               │                             └─ DrainLoop ─┬─ Decompress ┘                    ├─ DecoderCallersProofs
               │                                           └─ Container ─┬─ Gzip ┬─ Containers┘
               │                                                         └─ Zlib ┘
               ├─ Encoder ─┬─ EncoderProperties ── IoWriter ─┬─ MCEncoderCallers ── EncoderProofs
               │           └─ ContainerEncoder ──────────────┘
               ├─ Lz77 ── Lz77Properties ── Lz77Proofs
               └─ CopyMatch ─┐
Adler32  Crc32  Format  Buf ─┴─ PartsProofs          ByteQueue (abstract) ◄─ Buf
Huffman   DynamicHeader   SymbolTables ── MCCodes ── CodesProofs ── CodeLengthsProofs
DataLemmas: facts on sequences, division, least elements and recursive functions
SampleStreams: the compressed streams of the MC modules
```

A line to the right means that the module on the right EXTENDS the one on the
left. `MCCallers` and `MCEncoderCallers` compose the callers of the decoder and of the
encoder, `Containers` the two container decoders, and `MCCodes` the three modules about
codes, for their runs and for the proofs; `DecoderCallersProofs` EXTENDS `DecoderProofs`
as well. `DecoderProperties` instantiates `Inflate`, and `Buf` instantiates
`ByteQueue`, under a refinement mapping.

### `DeflateStream`: compressed data

The content of a compressed stream is a constant. For every bit position it says
what a reader would make of the bits from there on, in each reading context: a
block header, a stored length word, a byte, the header of a dynamic block, a
run-length element, a symbol. All these functions are total, so a decoder that
lost a bit would read something else, as the program would. What is abstracted is
the Huffman code itself: a symbol has the width of its code, and a table is what
`from_code_lengths` makes of the code lengths that the control flow depends on:
the longest code (`max`), the look-ahead (`peek`, the code's
`safely_peek_bits`), and the width of END_OF_BLOCK (`eob`). `WholeSize` says which
streams are well-formed and whole, and how many bytes each is long, `WholeData` what
each of these decodes to.

### `Decoder`: `src/decode.rs` over `src/bit.rs`

| Variable | Code |
|---|---|
| `id`, `fed`, `delivered` | the caller: its stream, the bytes it has fed, the bytes it has taken |
| `input` | `input: Buf`, by its length: its bytes are those of the stream before `fed` |
| `pending` | `pending_bit_count` (the buffered bits are those of the stream before `input`) |
| `state` | `state: DecodeState`, with the fields of each variant; the code lengths read so far are represented by their number and the position of their header |
| `output`, `drained`, `finished` | the fields of the same names |
| `reader` | the `BitReader` of the drive under way: `byte_index`, `bit_count` |
| `pc`, `result` | is a drive under way, and what the last `feed` returned; `"panic"` is `unreachable!()` |

Each call of `step`, and each iteration of the loops inside a step, is one action
(`StepBlockHeader` to `StepSymbolLoop`): the state between two iterations is the
one the code stores when input runs out there. `NeedMoreBytes`, `Yield`,
`Finished` and `Error` are the ways out of `drive`, with its commit of the
reader's progress. `Feed` and `Advance` are the public operations; `Advance`
includes the compaction it ends with. `CompactionCost` adds a counter of the
times `advance` has moved the buffer.

### `Inflate`: what decoding means

The whole stream at hand, a position, a phase, and everything decoded so far.
There are no buffers, limits or look-ahead. `EndIsRight` compares `WholeSize` and
`WholeData` with it: a stream finishes only if it is whole, and then in its last byte
and with all its data, and a whole one is never found malformed. `DecoderProperties` maps the
decoder's state to it: the position is that of the next bit of the reader, the
output is what the caller has taken followed by what it has not.

### `CopyMatch`: the loop of `copy_from_distance`

`BackReference` says what a match appends. `CopyMatch` has the code's loop, which
copies an overlapping match from a tail that doubles with every piece.

### `DrainLoop`, `Decompress`: `src/deflate.rs`

`decompress`, `gzip::Decoder::feed` and `zlib::Decoder::feed` contain the same
loop: take the output, feed nothing, look whether that made progress. Each call
of the inner decoder is an action; `at` is the caller's place in the loop.
`Decompress` is the one-shot function on every prefix of every stream.

### `Container`, `Gzip`, `Zlib`, `Containers`: the decoders of `src/gzip.rs`, `src/zlib.rs`

These contain a whole `Decoder` and run it step by step. `stage` is the code's
`state`, `filled` the header bytes with `header_filled`, `trailer` the trailer
bytes with `trailer_filled`, `done` is `finished`, `got` and `rest` stand for the
slice of the call under way. `Gzip` adds the fields of its header; `isize` is the
code's `size`. Header bytes are real bytes. `delivered`, of the inner decoder, is
both the container's output and the argument of its checksum. A file says whether
its caller gives up at an error or `insists`.

`Containers` has both decoders side by side and says what a file is, without regard
to any decoder (`FilesAssumption`): its header is cut off where its flags, lengths and
zeros say that it ends, a whole stream ends where the tail begins, and it is
`WellFormed` just if its header is acceptable, its stream is whole and its tail begins
with the checksum and the size of the stream's data. The properties of the containers
compare the decoders with that.

A checksum is symbolic here: the bytes of the checksum of a value are different
from those of any other value. This is what a checksum is for, and all that a
decoder relies on; that two contents can have the same one is not modelled.

### `IoReader` and `IoWriter`: `examples/io_bridge.rs`

`IoReader` is `DeflateReader` with a source that hands out pieces of any size and
a caller that reads to the end. The source may fail (`SourceFails`): `read` returns the
error with nothing changed, and the caller repeats an interrupted read, as `read_to_end`
does. After any other error of the source the caller gives up, which is a caller that
stops and needs no action. `IoWriter` is `DeflateWriter` over a sink that may
fail after it has taken any part of what it was given; it records the positions of
the bytes in the sink. Its caller gives up after an error: the adapter advances
the encoder only behind the whole write, so that one that went on would write
again what the sink has already got.

### `Encoder`: `src/encode.rs` over the writer of `src/bit.rs`

| Variable | Code |
|---|---|
| `kind`, `limit` | `EncodeOptions`; a limit of 0 is `None` |
| `input`, `drained`, `finishing`, `bit_count` | the fields of the same names |
| `output` | `output`, by its length: its bytes are those of the elements in `written` |
| `writer` | the `BitWriter` of the block under way, by its bit count |
| `written` | every element written so far, with its position and width in bits |
| `meaning` | what a decoder makes of them |
| `fed`, `taken` | what the caller has fed, how many bytes it has taken |
| `reset_at` | how much had been fed at the last `reset_history` |
| `pc`, `after`, `chunk`, `cursor` | the call under way, and the block it is in |

A block is written element by element: header, padding, length and bytes of each
piece of a stored one; code tables, literals, matches and the end of a Huffman
one. Compressed data is abstracted to these elements: what matters is that a
reader that has read one finds the next where it stopped. Which matches are chosen
is left to `Lz77`, how wide codes are to `Huffman`: here any match that is one,
and any width in `Coding`.

`ContainerEncoder` is the gzip or the zlib encoder around it, `format` says which;
its output is a sequence of header, body and trailer bytes, each of which knows
its place and, in the trailer, what it was computed from.

### `Lz77`: `src/lz77.rs`

`fill_symbols` candidate by candidate and position by position, with `head` and
`prev` that outlive a call. `hash3` is a constant, any function at all. Two history
variables say who wrote a slot of `prev` (`writer_of`) and which candidates a
search has considered (`visited`). `TokensAreTrue` states a match by the operator
that `Encoder` takes a match to be.

The tables keep positions in 32 bits (`as_u32`), and the largest number stands for no
position (`NIL`). `buffer_all_input` and `max_block_input_bytes` allow a chunk that is
longer. There a position beyond `NIL` is kept as an earlier one, too far back for the
window, and position `NIL` as none: a search that comes upon one ends early. Such a
chunk loses matches, which `ChainIsExact` states as its one exception, and its tokens
are true all the same.

### `Huffman`, `DynamicHeader`, `SymbolTables`

`Huffman` has the code lengths (package-merge, with the limit or the width of an
ordinary tree, whichever is less), the loop that gives the encoder its codes and the
loop that fills the decoder's table, each with its own numbering and entry by entry,
and `decode` peek by peek on bits that may end anywhere. `DynamicHeader` is the
description of a dynamic block's codes: the encoder's loop over runs, the counts it
trims, and the decoder's reading of them. `SymbolTables` turns a length and a
distance into codes and back; symbols beyond the decoder's tables are refused, which
`MatchReadsBack` says never happens to those of the encoder. The last two are at full
size.

### `Adler32`, `Crc32`

`Adler32` has the chunks, the unrolled loop and the reduction, with bytes as any
numbers up to `MAX_BYTE`. It keeps the two sums and, as a history, the exact ones.
`Crc32` keeps a word as the set of its one bits: the tables, the loop over
slices, and the loop over the bytes behind them, beside a register that shifts
bit by bit.

### `Buf`, `ByteQueue`

`ByteQueue` is a queue of bytes; `Buf` is `src/buf.rs`, which moves its bytes to
the front of its vector now and then and is to implement it.

### `Format`

`Format::detect` beside the conditions under which the decoders accept the first
two bytes and what the encoders write there.

## Runs

| Run | Asks | Answer |
|---|---|---|
| `decoder` | Does the decoder implement `Inflate` however it is fed and drained? Is the window kept, the trailer intact, the reader's arithmetic safe, memory bounded, compaction rare? Is little held back, is a whole stream always finished, does every feed return? | yes |
| `callers` | Does `decompress` of any prefix return, with all the data and without error just when the stream is whole? Does the reading adapter report the end only at the end, and does reading end? | yes |
| `containers` | Does the body get exactly the bytes behind the header? Is a file finished just when it is right, as soon as its last byte is there, with nothing held back, and never a wrong one, even if the caller insists? Does every feed return, for a caller that stops at an error? | yes |
| `encoder` | Has every bit and every byte one place? Is one block final, and none behind it? Does a flush end on a byte? Is the history gone after a reset with nothing buffered? Does every call return? | yes |
| `encoder_callers` | Is what comes out of a container encoder one header, the stream, one trailer of all that was fed? Is what the sink has got the beginning of the stream, and all of it after a `finish` that succeeds? Is no state without a way on? | yes |
| `lz77` | Are the chains exact whatever an earlier call left behind? Is the longest match found, in spite of the shortcuts? Is every token true? | yes |
| `codes` | Are the code lengths those of an optimal code within the limit? Are just those refused that are none? Does `decode` find the symbol, on bits cut off anywhere? Is what the encoder says of its codes and of a match read back? | yes |
| `parts` | Does the copying loop append the match? Are the checksums right, cut into updates anywhere? Is `Buf` a queue that does not hoard? Is each format found? Do the loops end? | yes |
| `transient` | Is `Transient` "never left in this state between step calls"? | no: an error leaves it, and the next `feed` panics |
| `uncapped` | Does the decoder stop at its output cap plus one match? | no: stored blocks are copied whole |
| `io_truncated` | Does the adapter read every whole stream to its end? | no: it does not resume a decoder that stopped at its cap when the source ended |
| `reset_history` | Does no block after `reset_history` refer to what was fed before it? | no: what is still buffered is encoded with what is fed later |

The four violated properties state what a comment, or the README of the crate,
says of the code. They are the entries of `findings`.

`callers`, `encoder_callers`, `codes` and `parts` each ask one question of several
modules that share no state, or that are alternative users of the same decoder or
encoder. A behaviour chooses one of them at the start; the others wait in an
initial state, so that the states of the run are the sum, not the product, of
theirs.

A property is also checked against a deliberately broken definition; these
definitions stand in the modules next to the right one, as "a bug the runs
catch".

### What no property claims

After an error no comment promises anything. A failed DEFLATE decoder panics at
the next feed, and so does a container decoder whose body failed. A zlib decoder
whose checksum did not match reports the mismatch again. A gzip decoder whose
trailer did not match never returns from the next feed that has a byte: its
trailer is full, its state still `Trailer`, and the loop neither consumes the byte
nor leaves (`EveryFeedReturns` fails if it is stated of callers that insist, too).

The comment on the decoder's `COMPACT_THRESHOLD` speaks of one move of the buffer
per threshold of decoded bytes. `CopiesAreRare` bounds the moves, without stored
blocks, by one per threshold *less what a move leaves behind*. With a stored block
longer than the threshold, drained byte by byte, every `advance` moves the whole
buffer: its unread bytes alone keep it above the threshold.

### Bounds

| Constant | Code | Runs | Why it is enough |
|---|---|---|---|
| `WINDOW_SIZE` (decoder) | 32768 | 5 | matches reach back 1 to 5, within and across blocks, beyond what is still unread |
| `MAX_MATCH` (decoder) | 258 | 4 | matches of 3 and 4, overlapping and not |
| `COMPACT_THRESHOLD` (decoder) | 1 MiB | 12, and 8 around it | more than the window and than the cap with a match, less than the longest stream decodes to, so that compaction happens, twice in a stream, with and without unread output |
| `MAX_INTERNAL_BUFFER` | 64 KiB | 3 | less than a match, so that one symbol overshoots, and a stream yields several times |
| `FeedSizes` | any | 0, 1, 2, 3, 5, 9 | single bytes reach every cut of every element; the others cross several |
| streams | any | 26 | 8 whole ones, all block types, codes of 1 to 15 bits, END_OF_BLOCK the shortest and the longest code, a stored block above the cap and an empty one, bytes behind the end; 14 with a fault each; 4 cut off |
| `BufferSize`, `OutSizes` | 4096, any | 4; 1, 4 | source pieces of 1 to 4 bytes; reads shorter and longer than what is unread |
| `PieceSizes` | any | 1, 2, 3, 7, 12, the rest | cut each header part at each byte, and body and trailer together |
| `SIZE_MOD`, `SIZE_WRAP` | 2^32 | 4 | contents are longer, so that the size wraps |
| files | any | 37 | 13 good, 11 bad for one reason each, and the 13 that meet an error again with a caller that insists |
| `Limits` (encoder) | any | none and 3, or 2 | blocks of less, of just and of more than was fed at once |
| `MAX_STORED_BLOCK` | 65535 | 3 | chunks of less, of just and of more than one piece |
| `MaxFed`, `MaxElements` | - | 5 (4); 4 | several blocks, one of them unfinished when a flush, a reset or `finish` comes; `MaxElements` bounds the flushes of nothing |
| `Coding` | any | fixed: 8, 12, 7 bits; dynamic: 26, 3, 5, 2 | blocks end on every number of left-over bits |
| `NIL` (Lz77) | 2^32 - 1 | 7 | positions 0 to 9: those below `NIL`, `NIL` itself, and two beyond it that are kept as 0 and 1 |
| Lz77: inputs, hashes, window, chain | any, 2^15, 32768, 32 | up to 12 bytes of two values, 2, 4, 3 | slots of `prev` wrap three times, chains are cut by the window, by their length and by a match that cannot be beaten; the second call finds tables of a longer or shorter first |
| `MIN_MATCH`, `MAX_MATCH` (Lz77) | 3, 258 | 3, 5 | matches of every length, longer than the window, and cut by the end |
| Huffman: `N`, `Limits` | 286, 15 | 5; 3 and 4 | the deepest tree of five symbols is of depth 4, so that 3 cuts it and 4 does not |
| `BASE`, `NMAX`, `WORD` | 65521, 5552, 2^32 | 5, 5, 71 | the sums of a chunk reach 69 at most and with one byte more would not fit; updates of up to 7 bytes reach a second chunk |
| `UNROLL` | 16 | 2 | chunks with and without a rest |
| CRC: word, byte, slice | 32, 8 bits, 16 | 4, 2 bits, 4 | slices longer than the word, as in the code; every message of up to 6 bytes |
| `Buf`: threshold, unread | 1 MiB, any | 3, 5 | compaction with more, as much and less unread than consumed |
| CopyMatch: buffer, lengths | any, 258 | 6, 1 to 20 | up to five doublings and every remainder of the last piece |

Byte values of decoded data are 0 to 3, all different in the buffers of
`CopyMatch`. Code widths, extra bits and code length counts of `DeflateStream`,
the descriptions of `DynamicHeader`, all lengths and distances, the headers of
files and all pairs of first bytes are those of the format, not scaled down.

Deadlock checking is off where the modelled program can stop: a decoder that is
finished or has panicked and whose stream is used up (`decoder` and the runs
around it), a caller that has its answer, a match that is copied, a symbol that
is decoded. In `encoder`, `encoder_callers` and `lz77` it is on.

### Fairness

Everything is synchronous code that never waits: once a call has begun, its loop
runs until it returns. `Spec` has weak fairness on the steps of a drive only,
`FilesSpec` on those of a container's feed, `ESpec` and `UsersSpec` on those of an
encoder's calls, `ASpec` on those of `update`; none has fairness on the caller,
who may stop at any time. In `Decompress`, `IoReader` and `CopyMatch` the caller
is part of the modelled program (or, for the reader, a loop that reads to the
end), so the fairness is on its whole next-state relation. That cannot keep a source
from failing for ever, so `SourceFails` has a bound in its guard: once interrupted, the
source does not fail again before the caller has got some bytes. An inner decoder that
panics stays in `"panic"` and its caller never ends, so the liveness properties
also say that there is no panic. `Lz77` and the others have none: no liveness is
claimed of them.

## Proofs

All theorems are of the specifications with every value of the constants that
satisfies the named assumptions, which TLC evaluates for the values of the runs.

`DecoderProofs`: `TypeCorrect`, `TrailerIsKept`, `NeverUnderflows`,
`WindowIsKept`, `MemoryIsBounded`, `LittleIsHeldBack`. `TypeOK` is not inductive:
that the reader holds few bits depends on how far the decoding tables let it look
ahead. The inductive invariant `IInv` is `TypeOK` with

- `TablesOK`: the distance table looks ahead no further than the literal table,
  and the literal table no further than its END_OF_BLOCK is wide, if it has one;
- `BitsOK`: less than a byte of loaded and undelivered bits at every boundary of
  elements (`BitLimit`), none inside a stored body, and up to seven more than the
  look-ahead between two symbols.

The one step that has to leave the last case again is END_OF_BLOCK, and it skips
as many bits as the look-ahead was wide. That is the argument for `TrailerKept`
too: fewer than eight bits are left when the decoder finishes, so
`remaining_input` starts at the next byte. `WindowIsKept` adds `WindowInv` (the
consumed part of the buffer is the end of what was delivered, and is cut only
while the window remains) and the lemma that a step only appends to the output.
`MemoryIsBounded` adds `MemInv` (less than a threshold of consumed bytes remains
after each `advance`; without stored blocks, less than the cap and one match is
unread). `LittleIsHeldBack` follows a symbol through its code, its extra bits, its
distance and the extra bits of that: wherever the input ends, fewer than 48 bits
of it were there.

Also in `DecoderProofs`: `DecoderImplementsInflate`, the refinement. It rests on two facts.
A reader has a place in the stream, the bytes fed less the bits it has left
(`PosAvailable`), and reading, decoding, unwinding and committing move the place by
exactly the bits they deliver; it does not depend on how many are loaded. And
`WindowInv` makes the output buffer as good as all that was ever decoded: a
back-reference, which reaches no further than the window, finds the same bytes in
both and is too far for both or for neither (`Reach`). With these, each of the
decoder's steps is shown to be the step of `Inflate` with its name, an error its
`Reject`, and every return, feed and advance a stutter. It is shown for feeds of any
size (`Moves`), not only those of `FeedSizes`.

Also there: `WholeStreamsFinish`. A step that asks for more input lacks something of
the element it is at (`Lacks`), and the code that could wait for bits it does not need
is that of a symbol: it looks ahead, and never further than END_OF_BLOCK is wide. So
when all bytes of a whole stream are there nothing is lacking, and the decoder finishes
or is at its cap. The theorem has `SizesAreRight` for a hypothesis: `Inflate` ends each
stream in the last byte of its `WholeSize` with `WholeData` for its output, and fails on
none of these. That is a statement on the streams and on `Inflate`, not on the decoder;
TLC checks it for the streams of the runs, as `EndIsRight`.

`DecoderCallersProofs`: `EndsAreTold`, under the same hypothesis. `decompress` and the
reading adapter only make `Moves`, so that all that is proved of the decoder holds in
their hands. `DecompressInv` says what a feed that has returned without finishing means:
its output is full, or the stream is not whole. A loop that has emptied the output and
fed nothing may therefore take it that the stream is not whole. `ReaderInv` says that
where the end is reported the decoder is finished and all its output has been read. A
finished decoder is, by the refinement, a finished `Inflate`, so that this output is
all the data.

Also there, of the containers: `BodiesAreCutRight`, without a hypothesis, and
`FilesAreJudgedRight`, under that of `EndsAreTold`. Their feeds, too, are `Moves` of the
decoder they own. `ContainerInv` carries the first: `HeadInv` says in each stage what
the rest of the header has to be (`Ahead`, by `Expects`), so that the next part the
decoder enters is the next one there is (`Entered`), whatever parts are left out,
and that behind the header what was consumed is the header and what the decoder was
fed. `TellsInv` carries the second:

- `TailInv`: behind the body the trailer bytes are those of the tail, and they are
  complete just when they have been found right or wrong. The first of them come out of
  the decoder; that these are the first behind the body is `TrailerKept`, which is what
  that property is for (`TailTaken`). The size is counted piece by piece modulo
  `SIZE_MOD`, and is that of the whole (`RemainderOfSum`).
- `LoopTells`: what the drain loop concludes from a feed without progress, as for
  `decompress`.
- `AnswerInv`: what a caller that gives up after an error has been told.

What the header says, the stream holds and the trailer has are then each right or
wrong as `WellFormed` says (`AcceptedIsRight`, `RightIsAccepted`, `RefusedIsWrong`).

And `CompactionIsAmortized`, by `PaidInv`: the bytes that have left
the buffer so far pay for the moves, each of which drops at least the threshold
less the most that it leaves. That this is less than the threshold is
`CompactionCostAssumption`, and needs the bounds of `DecoderProofs`.

`EncoderProofs`: `EncoderTypes`, `EveryBitOnce`, `EveryByteOnce`,
`EncoderBufferBounded`, `EncoderEndsTheStream`, `FlushIsAtAByte`,
`HistoryStaysDropped`. The inductive invariant is `EncTypeOK` with `Phases` (what
holds in each place of a call, such as that a stored block's bytes are copied with
no bits waiting) and `SymbolsInv` (what a block has written so far is the end of
what the stream means, so that a match in the chunk is one in the stream). The
other theorems add one invariant each: `InputInv`; `FinalInv` (a final header only
in or behind the last block of `finish`); `HistoryInv` (between a reset and the
block behind it nothing was buffered, so that no chunk begins before the reset);
`FlushInv` and `BytesInv` (what the last elements of a flush are, step by step).

Also there, of the callers: `ContainersAreWhole`, `SinksHoldTheStream`. Every step of
these is a step of the encoder or leaves it alone, so its invariant holds
inside them. `FileInv` adds where the two stand to each other (`Calls`), that the
checksum and the size are those of what was fed, and that what was sent and what
is left to send are together the header, as much of the body as was taken from the
encoder, and the trailer. `SinkInv` says that as long as nothing failed the sink
has all that the encoder is rid of, and, failure or not, nothing else.

`CodesProofs`: `CodesAreReadBack`, and the steps of the table and of `decode`.
`CodeLengthsProofs`, which EXTENDS it: `RefusesWhatIsNoCode`, `DecodesWhatIsWritten`,
`EncodersCodesAreCodes`, `EncodersCodesAreOptimal`, `EncodersCodesAreAccepted`.

- The table. Codes are written with their first bit first, so that an index of the
  table is a code turned round with anything behind it. Turned back, the indices of one
  code are a range that begins with the code followed by zeros, and the codes of the
  loop lie side by side, in the order they are given (`LoopInv`, with `Done`, the symbols
  that have a code, and `Space`, the room these take). A place is taken already just
  when the room of all symbols exceeds the table, so that a conflict means that there is
  no such code, and none that there is one. `TableInv` says that each entry of the table is
  the one symbol whose code the index begins with, or that there is none; that the
  decoder's loop numbers as the encoder's did is part of it.
- `decode`. `DecodeInv` says that as many bits were looked at as may be without harm, or
  as many as the code is wide that an index of fewer bits had found. Such a code is no
  wider than the one that comes next (`NoneShorter`), and an entry whose code is no wider
  than what was looked at is the right one.
- The description of a dynamic block. `HeaderInv` says that the elements written so far
  lead from the beginning of the widths to where the encoder's loop is (`Path`), and
  those read, from there to where the decoder is, so that at the end all are read.
  `MatchInv` is the same for a match.
- The code lengths the encoder makes. `Contents` counts how often a list of nodes has
  each symbol. Sorting, packing in pairs and merging keep these counts or lower them, so
  that in each round a symbol is in the list once more at the most, and not at all if it
  does not occur. There is a round for each bit of the limit, or of the ordinary code's
  width if that is less. Each beginning of a list has
  the lightest symbols of each round, and of a round never more than of a later one
  (`Grown`, `Levelled`, `Round`). What a code of these lengths spares of the places
  that codes of no bits would take (`Spared`) then adds up, in the last list, to all but
  one table, so that the code fills the table and no more. That each symbol
  is in the last list at all needs the limit to leave a code for each: the ordinary
  width does because the heap's trees, whose widths are those of their leaves, hold all
  symbols (`Bears`), and the limit does by what `HInit` requires of it.
- That no code is shorter. Of the choices of some symbols in each round that spare as
  many places, a beginning of a list is the one that weighs least (`Cheapest`): each
  symbol of a choice is taken once from the round's own symbols, of which the lightest
  come first in the source (`FirstAreLightest`), and the rest are pairs of the round
  before, for which the same holds (`PackageCheapest`, `MergeCheapest`). A code is such a choice:
  a symbol of width `k` is taken in the last `k` rounds, and the code has its places
  in the table just when it spares the others (`TakenAndSpared`). So no code as wide as
  there are rounds costs less than the one that is made (`PackageMergeIsLeast`). But the
  rounds are fewer than the limit when the ordinary code is narrower; then codes that are
  wider have to cost no less (`OrdinaryFits`). Any code can be changed, at no
  cost, so that two of the longest are those of the two lightest symbols (`TwoDeepest`,
  `Siblings`). Joined to one, as the trees of the heap are, these cost as much less as
  they weigh (`Halved`). So from a code for the trees that are left, which costs no more
  than any other and leaves below each tree the bits it is deep (`Fitted`), one for the
  trees before is made, up to the symbols themselves (`Rooted`). That the heap takes the
  deeper of two trees as light first is not needed for it.

`Lz77Proofs`: `Lz77Types`, `SlotsAreFresh`, `ChainsAreExact`, `TokensTellTheInput`,
`MatchIsLongest`. `ChainInv` says that for each position the window still reaches,
the slot of `prev` was written by that position and holds the one before it with
the same hash, and that `head` holds the last. It is about the positions inserted
so far (`Frontier`), so that it survives both the wrapping of the table and what an
earlier call has left. `MatchInv` and `SearchInv` say what is known of a search half
done. An entry of the tables is the position as 32 bits keep it: `LastOrCut` shows that
one that leads on within the window is exact, as the window is no wider than the
numbers go, and that any other hides nothing or a position that is not kept (`Cut`).
`BestInv` adds that the best match so far is the longest of the candidates
visited. Two facts keep it: a candidate that fails the test of one byte agrees with
the input for no more than the best length; and candidates come nearest first, so
that a later one of equal length may be passed over.

`PartsProofs`, for the small ones:

- `MatchIsCopied`. That each byte equals the one `distance` before it is not
  inductive, because a piece is copied from the start of the tail, which is further
  back; `TailRepeats` connects the two: before each piece the buffer ends in the
  same `distance` bytes that the tail begins with. That what is appended is then
  the repetition `BackReference` defines is a fact on periods (`Period`).
- `ChecksumTypes`, `AdditionsNeverWrap`, `ChecksumIsExact`: inside a chunk the sums
  are at most those of as many largest bytes as were added. The bound is stated as
  the assumption on `BASE`, `NMAX` and `WORD`; `NMAXIsTheMaximum` shows that the
  constants of the source satisfy it, and that 5553 would not.
- `BufMemoryFollowsUnread`, and the refinement `BufImplementsQueue`.
- `FormatsAreTold`, by cases on the first byte.
- `CrcIsTheRegister`. A step of the register is linear in the word (`ShiftedOfXor`),
  and so are the tables. A byte can therefore be looked up and joined with the bits
  that are shifted past it (`AfterByteProperties`), and what the register makes of
  the bytes of a slice one after the other is what the lookups of all, each in the
  table of its distance from the end of the slice, make together (`SliceByBytes`);
  of the old register nothing is left, as a slice is at least a word long. That is
  the whole of what the code has to get right in the order of its 16 tables.

`DataLemmas` has what these need of data. The prover cannot instantiate the
library's induction theorems, so an induction is the step from a least
counterexample to the one before it (`LeastOf`), done anew in each lemma that needs
it; that a function defined by recursion exists and is unique, on which nothing
about `byte_table`, `make_table` or `Register` could be said without it, is shown
once (`RecursionExists`, `RecursionUnique`) for any step from a number to the next.
Where what is shown can be said as a set of numbers, `UpTo` is the induction: a set
that has 0, and with each number below a bound the next, has all up to the bound.

Proved and not run: `EncTypeOK`, `InputBounded`, `LTypeOK`, `NoStaleRead`,
`ATypeOK`, `NeverWraps`, `CodesAreMade`, `NoneRefused`.

Only model-checked:

- `EndIsRight`: which streams are whole is a constant, and that it is right is a fact
  on each of the streams of the runs, which takes `Inflate` many steps to establish.
- All liveness properties, and that no state is without a way on.

## Not modelled

- The composition of encoder and decoder. A stream is a constant of `Decoder`, so
  the output of an `Encoder` cannot be put in its place; `meaning` plays the part
  of a decoder there, and what a description, a code and a match mean is read back
  in `codes`.
- The bits of a code in `DeflateStream` and `Encoder`, where an element has a width
  and no bits. `Huffman` has them, for one code at a time.
- `compress` and the one-shot functions of the containers: they feed all, finish
  and take all of the output, which are calls of `Encoder` and `ContainerEncoder`,
  and for decoding the loop of `DrainLoop`.
- Two contents with the same checksum; what `Vec` does when memory runs out.
- Error messages and the error type, benchmarks and tests: no state.

## What could follow

- `Encoder` with a stream as `DeflateStream` describes them for an output, beside a
  decoder that reads it.
