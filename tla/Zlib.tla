-------------------------------- MODULE Zlib --------------------------------
(***************************************************************************)
(* The zlib decoder of src/zlib.rs: a header of two bytes, the body, and   *)
(* an Adler-32 checksum.                                                   *)
(***************************************************************************)
EXTENDS Container

ZInit == CInit /\ File.format = "zlib" /\ stage = "Header"

(* Method 8, a window of 32 KiB or less, no preset dictionary, and a       *)
(* multiple of 31.                                                         *)
validate_zlib_header(h) ==
  /\ h[1] % 16 = 8
  /\ h[1] \div 16 <= 7
  /\ (h[2] \div 32) % 2 = 0
  /\ (256 * h[1] + h[2]) % 31 = 0

ReadHeader ==
  LET take == Min2(2 - Len(filled), rest)
      h    == filled \o SubSeq(File.head, Here + 1, Here + take)
  IN
  /\ InStage("Header")
  /\ filled' = h
  /\ \/ /\ Len(h) < 2
        /\ Consume(take)
        /\ UNCHANGED stage
     \/ /\ Len(h) = 2 /\ validate_zlib_header(h)
        /\ Consume(take)
        /\ stage' = "Body"
     \/ /\ Len(h) = 2 /\ ~ validate_zlib_header(h)
        /\ Return("err")
        /\ UNCHANGED stage
  /\ UNCHANGED <<vars, before, got, trailer, done>>

(* The bytes taken off the DEFLATE decoder go to the output and to the     *)
(* checksum, which is that of `delivered'.                                 *)
ZlibDrain == Drain /\ LoopFrame

ZlibMatches(t) == t = Checksum(delivered)

ZlibTail == consume_deflate_tail(ZlibMatches(LeftOver))

(* A trailer that does not match is found wrong again by the next feed.    *)
ZlibTrailer ==
  LET take == Min2(TRAILER - Len(trailer), rest)
      t    == Filled(take)
  IN
  /\ InStage("Trailer")
  /\ trailer' = t
  /\ \/ /\ Len(t) = TRAILER
        /\ EndTrailer(take, ZlibMatches(t))
     \/ /\ Len(t) < TRAILER
        /\ Consume(take)
        /\ UNCHANGED <<stage, done>>
  /\ UNCHANGED <<vars, before, got, filled>>

ZNext == ReadHeader \/ ZlibDrain \/ ZlibTail \/ ZlibTrailer \/ CommonNext

ZWork == at # "idle" /\ ZNext

(* A call of feed runs without giving up the processor.                    *)
ZSpec == ZInit /\ [][ZNext]_cvars /\ WF_cvars(ZWork)
=============================================================================
