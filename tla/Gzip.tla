-------------------------------- MODULE Gzip --------------------------------
(***************************************************************************)
(* The gzip decoder of src/gzip.rs.  The header is of ten bytes and of     *)
(* parts that the flags announce, each of which feed may cut.              *)
(***************************************************************************)
EXTENDS Container

CONSTANT SIZE_MOD    \* 2^32: the trailer holds the size modulo this

ASSUME GzipAssumption == SIZE_MOD \in Nat \ {0}

VARIABLES
  flags,
  extra_len,                \* two bytes
  extra_len_bytes_filled,   \* of these, or of the header's CRC
  extra_remaining,
  isize                     \* size in the code

evars == <<flags, extra_len, extra_len_bytes_filled, extra_remaining>>
gvars == <<cvars, evars, isize>>

(* The bits of flags.                                                      *)
FHCRC    == 2
FEXTRA   == 4
FNAME    == 8
FCOMMENT == 16

Flagged(f, bit) == (f \div bit) % 2 = 1

(* What follows each part of a header with flags f.                        *)
past_comment(f) == IF Flagged(f, FHCRC) THEN "Hcrc" ELSE "Body"
past_name(f)    == IF Flagged(f, FCOMMENT) THEN "Comment" ELSE past_comment(f)
past_extra(f)   == IF Flagged(f, FNAME) THEN "Name" ELSE past_name(f)
next_header_state(f) == IF Flagged(f, FEXTRA) THEN "Extra" ELSE past_extra(f)

(* A bug the runs catch: the count is not reset for its second use.        *)
CountIn_reset_once(s, count) == IF s = "Extra" THEN 0 ELSE count

(* extra_len_bytes_filled when a state is entered.                         *)
CountIn(s, count) == IF s \in {"Extra", "Hcrc"} THEN 0 ELSE count

Enter(s) == /\ stage' = s
            /\ extra_len_bytes_filled' = CountIn(s, extra_len_bytes_filled)

HeadPiece(n) == SubSeq(File.head, Here + 1, Here + n)

FieldsInit == /\ flags = 0
              /\ extra_len = [j \in 1 .. 2 |-> 0]
              /\ extra_len_bytes_filled = 0
              /\ extra_remaining = 0
              /\ isize = 0

GInit == /\ CInit /\ FieldsInit
         /\ File.format = "gzip"
         /\ stage = "FixedHeader"

HeaderFrame == UNCHANGED <<vars, before, got, trailer, done, isize>>

(* Magic bytes 1F 8B and method 8.                                         *)
parse_ok(h) == SubSeq(h, 1, 3) = <<31, 139, 8>>

FixedHeader ==
  LET take == Min2(10 - Len(filled), rest)
      h    == filled \o HeadPiece(take)
  IN
  /\ InStage("FixedHeader")
  /\ filled' = h
  /\ \/ /\ Len(h) < 10
        /\ Consume(take)
        /\ UNCHANGED <<stage, evars>>
     \/ /\ Len(h) = 10 /\ parse_ok(h)
        /\ Consume(take)
        /\ flags' = h[4]
        /\ Enter(next_header_state(h[4]))
        /\ UNCHANGED <<extra_len, extra_remaining>>
     \/ /\ Len(h) = 10 /\ ~ parse_ok(h)
        /\ Return("err")
        /\ UNCHANGED <<stage, evars>>
  /\ HeaderFrame

(* The state is left as soon as the length is there.                       *)
Extra ==
  LET n    == extra_len_bytes_filled
      take == Min2(2 - n, rest)
  IN
  /\ InStage("Extra")
  /\ extra_len' = [j \in 1 .. 2 |-> IF j \in n + 1 .. n + take
                                    THEN File.head[Here + j - n]
                                    ELSE extra_len[j]]
  /\ extra_len_bytes_filled' = n + take
  /\ IF n + take = 2
       THEN /\ extra_remaining' = extra_len'[1] + 256 * extra_len'[2]
            /\ stage' = "ExtraLen"
       ELSE UNCHANGED <<extra_remaining, stage>>
  /\ Consume(take)
  /\ UNCHANGED <<filled, flags>>
  /\ HeaderFrame

ExtraLen ==
  LET take == Min2(extra_remaining, rest) IN
  /\ InStage("ExtraLen")
  /\ extra_remaining' = extra_remaining - take
  /\ IF take = extra_remaining
       THEN Enter(past_extra(flags))
       ELSE UNCHANGED <<stage, extra_len_bytes_filled>>
  /\ Consume(take)
  /\ UNCHANGED <<filled, flags, extra_len>>
  /\ HeaderFrame

(* A name or a comment is skipped through the zero byte that ends it.      *)
SkipText(past) ==
  LET zeros == {j \in 1 .. rest : /\ Here + j <= Len(File.head)
                                  /\ File.head[Here + j] = 0}
  IN
  /\ \/ /\ zeros = {}
        /\ Consume(rest)
        /\ UNCHANGED <<stage, extra_len_bytes_filled>>
     \/ \E k \in zeros :
          /\ \A j \in zeros : k <= j
          /\ Consume(k)
          /\ Enter(past)
  /\ UNCHANGED <<filled, flags, extra_len, extra_remaining>>
  /\ HeaderFrame

Name    == InStage("Name") /\ SkipText(past_name(flags))
Comment == InStage("Comment") /\ SkipText(past_comment(flags))

Hcrc ==
  LET skip == Min2(2 - extra_len_bytes_filled, rest)
      n    == extra_len_bytes_filled + skip
  IN
  /\ InStage("Hcrc")
  /\ IF n = 2 THEN /\ stage' = "Body"
                   /\ extra_len_bytes_filled' = 0
              ELSE /\ extra_len_bytes_filled' = n
                   /\ UNCHANGED stage
  /\ Consume(skip)
  /\ UNCHANGED <<filled, flags, extra_len, extra_remaining>>
  /\ HeaderFrame
-----------------------------------------------------------------------------
(* A bug the runs catch: the size is compared in full.                     *)
AddSize_in_full(n) == isize + n

AddSize(n) == (isize + n) % SIZE_MOD

(* The bytes taken off the DEFLATE decoder go to the output, the checksum, *)
(* which is that of `delivered', and the size.                             *)
GzipDrain == /\ Drain
             /\ isize' = AddSize(Len(Unread))
             /\ LoopFrame

SizeBytes(n) == [k \in 1 .. 4 |-> [of |-> "size", value |-> <<n>>, k |-> k]]

GzipMatches(t) == t = Checksum(delivered) \o SizeBytes(isize)

GzipTail == consume_deflate_tail(GzipMatches(LeftOver)) /\ UNCHANGED isize

(* feed_trailer_byte for the bytes the trailer lacks.  Once a trailer that *)
(* does not match is full, the loop neither consumes nor returns.          *)
GzipTrailer ==
  LET take == Min2(TRAILER - Len(trailer), rest)
      t    == Filled(take)
  IN
  /\ InStage("Trailer")
  /\ trailer' = t
  /\ \/ /\ take > 0 /\ Len(t) = TRAILER
        /\ EndTrailer(take, GzipMatches(t))
     \/ /\ ~ (take > 0 /\ Len(t) = TRAILER)
        /\ Consume(take)
        /\ UNCHANGED <<stage, done>>
  /\ UNCHANGED <<vars, before, got, filled, isize>>

GNext == \/ FixedHeader \/ Extra \/ ExtraLen \/ Name \/ Comment \/ Hcrc
         \/ GzipDrain /\ UNCHANGED evars
         \/ GzipTail /\ UNCHANGED evars
         \/ GzipTrailer /\ UNCHANGED evars
         \/ CommonNext /\ UNCHANGED <<evars, isize>>

GWork == at # "idle" /\ GNext

(* A call of feed runs without giving up the processor.                    *)
GSpec == GInit /\ [][GNext]_gvars /\ WF_gvars(GWork)
=============================================================================
