----------------------------- MODULE DrainLoop -----------------------------
(***************************************************************************)
(* The loop that takes everything out of a DEFLATE decoder.                *)
(*                                                                         *)
(* A feed returns early when the decoder holds as many unread bytes as it  *)
(* may, and it returns alike when it needs more input.  Whoever wants all  *)
(* the bytes has to tell the two apart: it takes the output, feeds nothing *)
(* and looks whether that got the decoder anywhere.  decompress of         *)
(* src/deflate.rs, and feed of src/gzip.rs and src/zlib.rs, contain this   *)
(* loop in the same words.                                                 *)
(*                                                                         *)
(* A call of the decoder is an action; `at' is the caller's place between  *)
(* two of them.                                                            *)
(***************************************************************************)
EXTENDS Decoder

VARIABLES
  at,       \* where the caller is
  before    \* before_remaining

LoopPlaces == {"drain", "resume", "check"}

(* How the loop ends: with the decoder finished, in want of more input, or *)
(* with an error of the decoder.                                           *)
LoopEnds == {"ended", "starved", "failed"}

(* The output is copied and passed over.                                   *)
Drain == /\ at = "drain"
         /\ Advance(Len(Unread))
         /\ at' = IF finished THEN "ended" ELSE "resume"
         /\ UNCHANGED before

Resume == /\ at = "resume"
          /\ before' = input
          /\ Feed(0)
          /\ at' = "check"

(* A bug the runs catch: no output is taken for no progress.               *)
NoProgress_without_output == Unread = << >>

(* Another: input left in the decoder is taken for a sign of progress.     *)
NoProgress_without_input == Unread = << >> /\ input = 0

NoProgress == Unread = << >> /\ input = before /\ ~ finished

(* The empty feed has returned.                                            *)
Check == /\ at = "check" /\ pc = "idle"
         /\ at' = IF result = "err" THEN "failed"
                  ELSE IF NoProgress THEN "starved" ELSE "drain"
         /\ UNCHANGED <<vars, before>>
=============================================================================
