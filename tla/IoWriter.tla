------------------------------ MODULE IoWriter ------------------------------
(***************************************************************************)
(* The std::io::Write adapter of examples/io_bridge.rs, DeflateWriter,     *)
(* over a sink whose write_all may fail after it has taken any part of     *)
(* what it was given.  `sink' is what it took: the positions of the bytes  *)
(* in the compressed stream, from 0.  The caller gives up after an error:  *)
(* there is no telling how much of the output the sink has got.            *)
(***************************************************************************)
EXTENDS EncoderProperties

VARIABLES
  place,   \* "idle": the caller's turn; "write", "finish": the call under way
  sink,
  outcome  \* what the last call returned

wvars == <<evars, place, sink, outcome>>

WInit == EInit /\ place = "idle" /\ sink = << >> /\ outcome = "ok"

MayCall == place = "idle" /\ outcome = "ok"

Write(buf) == /\ MayCall
              /\ Feed(buf)
              /\ place' = "write"
              /\ UNCHANGED <<sink, outcome>>

(* finish takes the writer: there is no other call after it.               *)
WFinish == /\ MayCall
           /\ Finish
           /\ place' = "finish"
           /\ UNCHANGED <<sink, outcome>>

EncoderStep == EStep /\ UNCHANGED <<place, sink, outcome>>

Taken(n) == [i \in 1 .. n |-> taken + i - 1]

(* A bug the runs catch: what is produced is passed over whether or not    *)
(* the sink has taken all of it, and it is not an error if it has not.     *)
Drain_partial ==
  \E n \in 0 .. output - drained :
    /\ sink' = sink \o Taken(n)
    /\ Advance(output - drained)
    /\ outcome' = "ok"

(* All that is produced goes to the sink, or an error comes back and the   *)
(* encoder keeps all of it, also what the sink has taken.                  *)
Drain ==
  LET produced == output - drained IN
  \/ /\ sink' = sink \o Taken(produced)
     /\ Advance(produced)
     /\ outcome' = "ok"
  \/ \E n \in 0 .. produced - 1 :
       /\ sink' = sink \o Taken(n)
       /\ outcome' = "err"
       /\ UNCHANGED evars

Drained == /\ place # "idle" /\ pc = "idle"
           /\ Drain
           /\ place' = "idle"

WStep == EncoderStep \/ Drained

(* Nothing more is called.                                                 *)
Dropped == place = "idle" /\ UNCHANGED wvars

WNext == (\E buf \in Pieces : Write(buf)) \/ WFinish \/ WStep \/ Dropped

WSpec == WInit /\ [][WNext]_wvars /\ WF_wvars(WStep)

(* The sink holds the beginning of the compressed stream, each byte once;  *)
(* after a call that succeeds, all that was produced, and after a finish   *)
(* that does, the stream of all that was written, to its last bit.         *)
SinkIsStream ==
  /\ sink = [i \in 1 .. Len(sink) |-> i - 1]
  /\ (place = "idle" /\ outcome = "ok") =>
       /\ 8 * Len(sink) = Position(0)
       /\ finishing => /\ OneFinalBlock
                       /\ Position(0) = written[Len(written)].at
                                          + written[Len(written)].width
=============================================================================
