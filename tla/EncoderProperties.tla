------------------------- MODULE EncoderProperties -------------------------
(***************************************************************************)
(* What the streaming encoder of Encoder promises.                         *)
(***************************************************************************)
EXTENDS Encoder

Places == {"idle", "feed", "emit", "marker", "stored", "align", "bytes",
           "symbols", "close"}

(* An element has a place, a width and a content of a known form.          *)
Contents == ({"header"} \X BOOLEAN \X BlockKinds) \cup {<<"pad">>, <<"end">>}
              \cup ({"bytes"} \X Seq(Byte)) \cup ({"literal"} \X Byte)
              \cup ({"match"} \X Nat \X Nat)
Element  == [at : Nat, width : Nat, what : Contents]

(* Types.  Fewer than eight bits wait for the next block, and the consumed *)
(* part of the output buffer is smaller than the threshold.                *)
EncTypeOK ==
  /\ kind \in Kinds /\ limit \in Limits
  /\ input \in Seq(Byte)
  /\ output \in Nat
  /\ drained \in 0 .. COMPACT_THRESHOLD - 1 /\ drained <= output
  /\ bit_count \in 0 .. 7 /\ writer \in 0 .. 7
  /\ finishing \in BOOLEAN /\ is_final \in BOOLEAN
  /\ fed \in Seq(Byte) /\ meaning \in Seq(Byte)
  /\ taken \in Nat /\ drained <= taken
  /\ pc \in Places /\ after \in {"idle", "feed", "marker"}
  /\ chunk \in Seq(Byte)
  /\ cursor \in 0 .. Len(chunk)
  /\ written \in Seq(Element)
  /\ reset_at \in 0 .. Len(fed)
-----------------------------------------------------------------------------
(* How many bits follow the bytes of the output: those of the writer while *)
(* a block is under way, else those the encoder keeps.                     *)
BitsBehind == IF pc \in {"symbols", "close", "align"} THEN writer
                                                      ELSE bit_count

(* Every bit of the stream is written once: the elements follow each other *)
(* without a gap, and the next goes where the last one ended, also across  *)
(* blocks, flushes and compactions of the output.                          *)
BitsTile ==
  /\ written # << >> => written[1].at = 0
  /\ \A i \in 1 .. Len(written) - 1 :
       written[i + 1].at = written[i].at + written[i].width
  /\ Position(BitsBehind)
       = IF written = << >> THEN 0
         ELSE written[Len(written)].at + written[Len(written)].width

(* Every byte fed is encoded once and in order: what the blocks so far     *)
(* decode to, what is left of the chunk under way and what is buffered     *)
(* make up what was fed.                                                   *)
NothingLost ==
  fed = meaning \o SubSeq(chunk, cursor + 1, Len(chunk)) \o input

IsHeader(e)      == e.what[1] = "header"
IsFinalHeader(e) == IsHeader(e) /\ e.what[2]

(* Only finish writes a block that says it is the last, no block follows   *)
(* it, and once finish has returned there is one and no bit is left over.  *)
OneFinalBlock ==
  /\ \A i \in DOMAIN written : IsFinalHeader(written[i]) =>
       /\ finishing
       /\ \A j \in i + 1 .. Len(written) : ~ IsHeader(written[j])
  /\ (finishing /\ pc = "idle") =>
       /\ \E i \in DOMAIN written : IsFinalHeader(written[i])
       /\ bit_count = 0
       /\ meaning = fed

(* sync_flush: "the stream ends on a byte boundary with the 4-byte trailer *)
(* (an empty stored block with BFINAL=0)", and all that was fed is before  *)
(* it.  A stored block's bytes begin at a byte, and LEN can say how many.  *)
FlushEndsOnByte ==
  /\ (pc = "idle" /\ call = "sync_flush" /\ answer = "ok") =>
       /\ bit_count = 0 /\ meaning = fed
       /\ Len(written) >= 3
       /\ written[Len(written)].what = <<"bytes", << >> >>
       /\ written[Len(written) - 2].what = <<"header", FALSE, "stored">>
  /\ \A i \in DOMAIN written : written[i].what[1] = "bytes" =>
       /\ written[i].at % 8 = 0
       /\ Len(written[i].what[2]) <= MAX_STORED_BLOCK

(* Memory: between two calls less than a block is buffered.                *)
InputBounded == (pc = "idle" /\ limit > 0) => Len(input) < limit

(* A caller that resets the history with nothing buffered: no later match  *)
(* refers to what was fed before.  encode.rs promises it of every caller:  *)
(* "Drop the LZ77 sliding window so subsequent blocks encode no            *)
(* back-references into input fed before this call."                       *)
HistoryIsDropped ==
  [][\A i \in Len(written) + 1 .. Len(written') :
       written'[i].what[1] = "match" =>
         Len(meaning) - written'[i].what[3] >= reset_at]_evars

(* Every call returns.                                                     *)
CallReturns == pc # "idle" ~> pc = "idle"
=============================================================================
