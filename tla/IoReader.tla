------------------------------ MODULE IoReader ------------------------------
(***************************************************************************)
(* The std::io::Read adapter of examples/io_bridge.rs, DeflateReader, and  *)
(* a caller that reads it to the end: it reads until it gets no byte or an *)
(* error.  The source hands out the bytes of the stream, in pieces of any  *)
(* size up to that of the adapter's buffer, then nothing.  It may fail: an *)
(* interrupted read is repeated by the caller, as read_to_end does, and    *)
(* the source does not fail again before that has got it some bytes.       *)
(***************************************************************************)
EXTENDS Decoder

CONSTANTS
  BufferSize,  \* of the adapter's buffer: 4096 in the code
  OutSizes     \* how large the slices are that the caller reads into

ASSUME IoReaderAssumption ==
  /\ BufferSize \in Nat \ {0}
  /\ OutSizes \subseteq Nat \ {0}

VARIABLES
  place,   \* "idle": the caller's turn; "read": top of the loop of read;
           \* "feed": feed is running
  want,    \* out.len()
  eof,
  reply    \* what the last read returned: "bytes", "end", "interrupted" or
           \* "error"

rvars == <<vars, place, want, eof, reply>>

(* What the caller reads on after.                                         *)
GoesOn == {"bytes", "interrupted"}

RInit == /\ Init
         /\ place = "idle" /\ want = 0 /\ eof = FALSE /\ reply = "bytes"

Read == /\ place = "idle" /\ reply \in GoesOn
        /\ want' \in OutSizes
        /\ place' = "read"
        /\ UNCHANGED <<vars, eof, reply>>

Reply(a) == /\ place' = "idle"
            /\ reply' = a

TakeOutput == /\ place = "read" /\ Unread # << >>
              /\ Advance(Min2(want, Len(Unread)))
              /\ Reply("bytes")
              /\ UNCHANGED <<want, eof>>

(* A bug the runs catch: no output is taken for the end of the stream.     *)
NothingMore_without_output == fed > 0

NothingMore == finished

ReturnEnd == /\ place = "read" /\ Unread = << >> /\ NothingMore
             /\ Reply("end")
             /\ UNCHANGED <<vars, want, eof>>

(* "deflate stream ended before the final block"                           *)
ReturnEof == /\ place = "read" /\ Unread = << >> /\ ~ NothingMore /\ eof
             /\ Reply("error")
             /\ UNCHANGED <<vars, want, eof>>

TopUp == place = "read" /\ Unread = << >> /\ ~ NothingMore /\ ~ eof

(* A bug the runs catch: the end of the source is not remembered.          *)
SourceEnds_forgets == /\ TopUp /\ fed = S.size
                      /\ UNCHANGED <<vars, place, want, eof, reply>>

SourceEnds == /\ TopUp /\ fed = S.size
              /\ eof' = TRUE
              /\ UNCHANGED <<vars, place, want, reply>>

(* The error of the source goes to the caller, and nothing has changed.    *)
SourceFails == /\ TopUp /\ reply # "interrupted"
               /\ Reply("interrupted")
               /\ UNCHANGED <<vars, want, eof>>

FeedMore == /\ TopUp /\ fed < S.size
            /\ \E n \in 1 .. Min2(BufferSize, S.size - fed) : Feed(n)
            /\ place' = "feed"
            /\ UNCHANGED <<want, eof, reply>>

FeedReturned == /\ place = "feed" /\ pc = "idle"
                /\ IF result = "err" THEN Reply("error")
                                     ELSE place' = "read" /\ UNCHANGED reply
                /\ UNCHANGED <<vars, want, eof>>

FeedStep == Step /\ UNCHANGED <<place, want, eof, reply>>

RNext == \/ Read \/ TakeOutput \/ ReturnEnd \/ ReturnEof
         \/ SourceEnds \/ SourceFails \/ FeedMore \/ FeedReturned \/ FeedStep

(* Sequential code and a caller that goes on reading.                      *)
RSpec == RInit /\ [][RNext]_rvars /\ WF_rvars(RNext)
-----------------------------------------------------------------------------
(* The adapter reports the end of a stream only when the decoder has read  *)
(* all of a well-formed one and the caller has every byte of it.           *)
EndIsReached ==
  reply = "end" => HasWholeStream /\ delivered = WholeData[id]

(* Reading to the end comes to an end, also on a stream that is cut off or *)
(* from a source that is interrupted now and then.                         *)
ReadsToEnd == <>(reply \notin GoesOn)

(* README.md on this adapter: Read::read "pulls from output and tops up    *)
(* the decoder via feed from the inner source".  A whole, well-formed      *)
(* stream should then be readable to its end.                              *)
WholeStreamIsRead == reply = "error" => id \notin DOMAIN WholeSize
=============================================================================
