----------------------------- MODULE Container -----------------------------
(***************************************************************************)
(* What the gzip and zlib decoders have in common: the call of feed, the   *)
(* body, in which they own a DEFLATE decoder and empty it after each feed  *)
(* with the loop of DrainLoop, and the trailer, whose first bytes may have *)
(* been given to the DEFLATE decoder already.  Gzip and Zlib add their     *)
(* headers and how a trailer that does not match is treated.               *)
(*                                                                         *)
(* A file is a header, byte by byte, a DEFLATE stream, and the bytes       *)
(* behind it.  Of the bytes behind it a decoder uses only whether they are *)
(* those of the checksum and of the size it has computed, so such a byte   *)
(* is the k-th byte of the checksum or size of a value.                    *)
(***************************************************************************)
EXTENDS DrainLoop

CONSTANTS
  Files,       \* Files[i]: what is around the DEFLATE stream i, and whether
               \* its caller insists: goes on feeding after an error
  PieceSizes,  \* a caller feeds so many bytes at once, or all that is left
  WellFormed   \* the files that are

TailBytes == [of : {"data", "checksum", "size"}, value : Seq(Nat), k : Nat]

ASSUME ContainerAssumption ==
  /\ PieceSizes \subseteq Nat
  /\ WellFormed \subseteq StreamIds
  /\ \A i \in StreamIds :
       /\ Files[i].format \in {"gzip", "zlib"}
       /\ Files[i].insists \in BOOLEAN
       /\ Files[i].head \in Seq(0 .. 255)
       /\ Files[i].tail \in Seq(TailBytes)
       /\ Len(Files[i].tail) <= Streams[i].size

VARIABLES
  got,       \* how many bytes of the file feed has been given
  rest,      \* how many of them the call under way has not consumed
  stage,     \* State
  filled,    \* header_filled, with the header bytes
  trailer,   \* the first trailer_filled bytes of trailer
  done,      \* finished
  answer     \* what the last feed returned

(* at is "idle" between two calls of feed, "feed" at the top of its loop   *)
(* and "body" while the DEFLATE decoder runs on what it was just given.    *)
cvars == <<vars, at, before, got, rest, stage, filled, trailer, done, answer>>

File == Files[id]

(* The size of the trailer array.                                          *)
TRAILER == IF File.format = "gzip" THEN 8 ELSE 4

FileSize == Len(File.head) + S.size

(* The byte of the DEFLATE stream, or behind it, with index k from 0; its  *)
(* own bytes are nobody's checksum.                                        *)
TailByte(k) ==
  LET body == S.size - Len(File.tail)
  IN IF k < body THEN [of |-> "data", value |-> << >>, k |-> 0]
                 ELSE File.tail[k - body + 1]

(* The first n bytes from index k on.                                      *)
TailPiece(k, n) == [j \in 1 .. n |-> TailByte(k + j - 1)]

(* The index in the file of the next byte of the call.                     *)
Here == got - rest

CInit == /\ Init
         /\ at = "idle" /\ before = 0
         /\ got = 0 /\ rest = 0
         /\ filled = << >>
         /\ trailer = << >> /\ done = FALSE
         /\ answer = "ok"

FeedPiece(n) == /\ at = "idle"
                /\ answer = "ok" \/ File.insists
                /\ got + n <= FileSize
                /\ got' = got + n
                /\ rest' = n
                /\ at' = "feed"
                /\ UNCHANGED <<vars, before, stage, filled, trailer, done,
                               answer>>

Return(a) == /\ at' = "idle"
             /\ answer' = a
             /\ rest' = 0

FeedReturns_ok == /\ at = "feed" /\ rest = 0
                  /\ Return("ok")
                  /\ UNCHANGED <<vars, before, got, stage, filled, trailer,
                                 done>>

(* In the loop of feed, with bytes to consume.                             *)
InStage(s) == at = "feed" /\ rest > 0 /\ stage = s

(* k bytes are consumed and the loop goes on.                              *)
Consume(k) == /\ rest' = rest - k
              /\ UNCHANGED <<at, answer>>
-----------------------------------------------------------------------------
(* The body: all the bytes at hand go to the DEFLATE decoder.              *)

FeedBody == /\ InStage("Body")
            /\ Feed(rest)
            /\ rest' = 0
            /\ at' = "body"
            /\ UNCHANGED <<before, got, stage, filled, trailer, done, answer>>

BodyFed == /\ at = "body" /\ pc = "idle"
           /\ at' = IF result = "err" THEN "failed" ELSE "drain"
           /\ UNCHANGED <<vars, before, got, rest, stage, filled, trailer,
                          done, answer>>

(* An error of the DEFLATE decoder leaves feed; wanting input ends the     *)
(* loop.                                                                   *)
LoopFailed == /\ at = "failed"
              /\ Return("err")
              /\ UNCHANGED <<vars, before, got, stage, filled, trailer, done>>

LoopStarved == /\ at = "starved"
               /\ at' = "feed"
               /\ UNCHANGED <<vars, before, got, rest, stage, filled, trailer,
                              done, answer>>
-----------------------------------------------------------------------------
(* The trailer.                                                            *)

(* The bytes of the checksum of the data, by what they are the checksum    *)
(* of: different data may be taken to have different ones.  Adler32 and    *)
(* Crc32 model how it is computed.                                         *)
Checksum(data) ==
  [k \in 1 .. 4 |-> [of |-> "checksum", value |-> data, k |-> k]]

(* What the DEFLATE decoder left of its input, as far as it is trailer.    *)
LeftOver == TailPiece(fed - input, Min2(input, TRAILER))

(* A bug the runs catch: a whole trailer in the tail is not looked at.     *)
consume_deflate_tail_unchecked(matches) ==
  /\ at = "ended"
  /\ trailer' = LeftOver
  /\ done' = (Len(LeftOver) = TRAILER)
  /\ stage' = IF done' THEN "Done" ELSE "Trailer"
  /\ at' = "feed"
  /\ UNCHANGED <<vars, before, got, rest, filled, answer>>

(* The DEFLATE decoder is finished: the bytes it was given too many are    *)
(* the first of the trailer, and there must be no more of them.            *)
consume_deflate_tail(matches) ==
  LET full == Len(LeftOver) = TRAILER IN
  /\ at = "ended"
  /\ trailer' = LeftOver
  /\ done' = (full /\ matches)
  /\ stage' = IF done' THEN "Done" ELSE "Trailer"
  /\ IF full /\ (~ matches \/ input > TRAILER)
       THEN Return("err")
       ELSE at' = "feed" /\ UNCHANGED <<rest, answer>>
  /\ UNCHANGED <<vars, before, got, filled>>

(* The trailer with the next bytes of the call.                            *)
Filled(take) == trailer \o TailPiece(Here - Len(File.head), take)

(* A trailer has its last byte, and matches what was decoded or does not.  *)
EndTrailer(take, matches) ==
  \/ /\ matches
     /\ stage' = "Done" /\ done' = TRUE
     /\ Consume(take)
  \/ /\ ~ matches
     /\ Return("err")
     /\ UNCHANGED <<stage, done>>

FeedDone == /\ InStage("Done")
            /\ Return("err")
            /\ UNCHANGED <<vars, before, got, stage, filled, trailer, done>>

DecoderStep ==
  /\ Step
  /\ UNCHANGED <<at, before, got, rest, stage, filled, trailer, done, answer>>

(* The loop of DrainLoop, but for what is done with the bytes it takes.    *)
LoopFrame == UNCHANGED <<got, rest, stage, filled, trailer, done, answer>>

CommonNext ==
  \/ \E n \in PieceSizes \cup {FileSize - got} : FeedPiece(n)
  \/ FeedReturns_ok \/ FeedBody \/ BodyFed \/ LoopFailed \/ LoopStarved
  \/ FeedDone \/ DecoderStep
  \/ Resume /\ LoopFrame
  \/ Check /\ LoopFrame
-----------------------------------------------------------------------------
(* How many bytes of a file belong to it.                                  *)
FileEnd == Len(File.head) + (S.size - Len(File.tail)) + TRAILER

(* The DEFLATE decoder gets all the bytes behind the header and no byte of *)
(* it, wherever the header is cut.                                         *)
BodyAfterHeader ==
  stage = "Body" => /\ fed = Here - Len(File.head)
                    /\ fed >= 0

(* A file is accepted only if it is well-formed, its trailer matches, and  *)
(* the caller has given its last byte; all its bytes have been decoded.    *)
FinishedIsRight ==
  done => /\ id \in WellFormed
          /\ delivered = WholeData[id]
          /\ got >= FileEnd
          /\ trailer = SubSeq(File.tail, 1, TRAILER)

(* To a caller that gives up after an error:                               *)
(*                                                                         *)
(* When a feed returns, nothing that can be decoded is held back: no byte  *)
(* is left in the DEFLATE decoder, and a well-formed file is finished as   *)
(* soon as the last byte of its trailer has been fed.                      *)
NothingHeldBack ==
  (at = "idle" /\ answer = "ok" /\ ~ File.insists) =>
    /\ Unread = << >>
    /\ (id \in WellFormed /\ got = FileEnd) => done

(* A well-formed file is not refused, and bytes behind it are.             *)
Refusal ==
  (at = "idle" /\ id \in WellFormed /\ ~ File.insists) =>
    (answer = "err" <=> got > FileEnd)

(* Every feed returns.                                                     *)
EveryFeedReturns ==
  (at # "idle" /\ ~ File.insists) ~> (at = "idle" \/ File.insists)
=============================================================================
