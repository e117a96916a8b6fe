-------------------------- MODULE ContainerEncoder --------------------------
(***************************************************************************)
(* The encoders of src/gzip.rs and src/zlib.rs: a header in front of the   *)
(* output of a DEFLATE encoder and a trailer behind it, in an output       *)
(* buffer of their own.                                                    *)
(*                                                                         *)
(* A byte of the file is <<"header", k>>, <<"body", k>> or                 *)
(* <<"trailer", k, v>>: the k-th byte, from 0, of that part, which for a   *)
(* trailer is made from the value v.                                       *)
(***************************************************************************)
EXTENDS Encoder

CONSTANT SIZE_WRAP  \* 2^32

ASSUME ContainerEncoderAssumption == SIZE_WRAP \in Nat \ {0}

VARIABLES
  format,            \* "gzip" or "zlib"
  out, out_drained,  \* the output buffer and how much of it is consumed
  sent,              \* what the caller has taken
  header_emitted,
  checksum,          \* what the checksum has been updated with
  size,              \* of gzip: the bytes fed, in 32 bits
  ended,             \* finishing, of the container
  at                 \* "idle", or the call that the DEFLATE encoder is in

own   == <<format, out, out_drained, sent, header_emitted, checksum, size,
           ended, at>>
kvars == <<evars, own>>

(* gzip: ten bytes without flags; zlib: CMF and FLG.                       *)
Header ==
  [i \in 1 .. (IF format = "gzip" THEN 10 ELSE 2) |-> <<"header", i - 1>>]

(* The trailer of a checksum and, in gzip, a size, of 4 bytes each.        *)
Trailer(sum, n) ==
  [i \in 1 .. (IF format = "gzip" THEN 8 ELSE 4) |->
     <<"trailer", i - 1, IF i <= 4 THEN sum ELSE n>>]

KInit == /\ EInit
         /\ format \in {"gzip", "zlib"}
         /\ out = << >> /\ out_drained = 0 /\ sent = << >>
         /\ header_emitted = FALSE /\ checksum = << >> /\ size = 0
         /\ ended = FALSE /\ at = "idle"

ensure_header ==
  IF header_emitted THEN UNCHANGED <<out, header_emitted>>
                    ELSE out' = out \o Header /\ header_emitted' = TRUE

(* A bug the runs catch: the size is that of the last feed.                *)
Size_of_last(data) == Len(data)

Size(data) == (size + Len(data)) % SIZE_WRAP

KFeed(data) == /\ at = "idle" /\ ~ ended
               /\ ensure_header
               /\ checksum' = checksum \o data
               /\ size' = IF format = "gzip" THEN Size(data) ELSE size
               /\ Feed(data)
               /\ at' = "feed"
               /\ UNCHANGED <<format, out_drained, sent, ended>>

KFinish == /\ at = "idle" /\ ~ ended
           /\ ensure_header
           /\ Finish
           /\ at' = "finish"
           /\ UNCHANGED <<format, out_drained, sent, checksum, size, ended>>

(* feed after finish is refused, a second finish does nothing.             *)
KRefused == at = "idle" /\ ended /\ UNCHANGED kvars

InnerStep == EStep /\ UNCHANGED own

(* What the DEFLATE encoder has produced, which it is rid of then.         *)
Produced == [i \in 1 .. output - drained |-> <<"body", taken + i - 1>>]

KFeedReturns ==
  /\ at = "feed" /\ pc = "idle"
  /\ out' = out \o Produced
  /\ Advance(output - drained)
  /\ at' = "idle"
  /\ UNCHANGED <<format, out_drained, sent, header_emitted, checksum, size,
                 ended>>

(* And behind the last of it, the trailer.                                 *)
KFinishReturns ==
  /\ at = "finish" /\ pc = "idle"
  /\ out' = out \o Produced \o Trailer(checksum, size)
  /\ Advance(output - drained)
  /\ ended' = TRUE
  /\ at' = "idle"
  /\ UNCHANGED <<format, out_drained, sent, header_emitted, checksum, size>>

Emptied(d) == IF d >= COMPACT_THRESHOLD
                THEN out' = SubSeq(out, d + 1, Len(out)) /\ out_drained' = 0
                ELSE out_drained' = d /\ UNCHANGED out

KAdvance(n) == /\ at = "idle"
               /\ n <= Len(out) - out_drained
               /\ sent' = sent \o SubSeq(out, out_drained + 1, out_drained + n)
               /\ Emptied(out_drained + n)
               /\ UNCHANGED <<evars, format, header_emitted, checksum, size,
                              ended, at>>

KStep == InnerStep \/ KFeedReturns \/ KFinishReturns

KNext == \/ \E data \in Pieces : KFeed(data)
         \/ KFinish \/ KRefused
         \/ \E n \in Advances \cup {Len(out) - out_drained} : KAdvance(n)
         \/ KStep

KSpec == KInit /\ [][KNext]_kvars /\ WF_kvars(KStep)
-----------------------------------------------------------------------------
(* The file so far: one header, the bytes of the DEFLATE stream in order,  *)
(* and, once finish has returned, the trailer of all that was fed.  The    *)
(* caller has taken the first bytes of it and finds the rest in the        *)
(* output; between two calls the DEFLATE encoder holds nothing back.       *)
FileIsWhole ==
  at = "idle" =>
    /\ sent \o SubSeq(out, out_drained + 1, Len(out))
         = (IF call # "new" THEN Header ELSE << >>)
             \o [i \in 1 .. taken |-> <<"body", i - 1>>]
             \o (IF ended THEN Trailer(fed, Len(fed) % SIZE_WRAP) ELSE << >>)
    /\ output = drained
    /\ ended => meaning = fed /\ bit_count = 0
=============================================================================
