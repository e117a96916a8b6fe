----------------------------- MODULE CopyMatch -----------------------------
(***************************************************************************)
(* copy_from_distance of src/decode.rs: a match that overlaps what it      *)
(* appends is copied in pieces, each of which doubles the tail it is       *)
(* copied from.                                                            *)
(***************************************************************************)
EXTENDS BackReference

CONSTANTS
  Byte,
  Buffers,    \* output buffers a call may find
  Lengths     \* lengths of a match: 3 to 258 in the symbol tables

ASSUME CopyMatchAssumption == /\ Buffers \subseteq Seq(Byte)
                              /\ Lengths \subseteq Nat \ {0}

VARIABLES
  given,      \* the output buffer at the call
  distance,
  length,
  output,
  emitted,
  at          \* "start", "loop", "ok" or "err"

mvars == <<given, distance, length, output, emitted, at>>

(* No distance is excluded by the type: usize.                             *)
MInit == /\ given \in Buffers
         /\ distance \in 0 .. Len(given) + 1
         /\ length \in Lengths
         /\ output = given
         /\ emitted = 0
         /\ at = "start"

InRange == distance \in 1 .. Len(output)

Refuse == /\ at = "start" /\ ~ InRange
          /\ at' = "err"
          /\ UNCHANGED <<given, distance, length, output, emitted>>

(* The bytes at the k indices from `first' on, from 0.                     *)
extend_from_within(first, k) == output \o SubSeq(output, first + 1, first + k)

CopyApart ==
  /\ at = "start" /\ InRange /\ distance >= length
  /\ output' = extend_from_within(Len(output) - distance, length)
  /\ at' = "ok"
  /\ UNCHANGED <<given, distance, length, emitted>>

StartLoop == /\ at = "start" /\ InRange /\ distance < length
             /\ at' = "loop"
             /\ UNCHANGED <<given, distance, length, output, emitted>>

(* A bug the runs catch: the tail starts a byte late.                      *)
tail_len_one_less == distance + emitted - 1

tail_len == distance + emitted

take == Min2(tail_len, length - emitted)

Iterate == /\ at = "loop" /\ emitted < length
           /\ output' = extend_from_within(Len(output) - tail_len, take)
           /\ emitted' = emitted + take
           /\ UNCHANGED <<given, distance, length, at>>

EndLoop == /\ at = "loop" /\ emitted >= length
           /\ at' = "ok"
           /\ UNCHANGED <<given, distance, length, output, emitted>>

MNext == Refuse \/ CopyApart \/ StartLoop \/ Iterate \/ EndLoop

(* Sequential code: what it can do next, it does.                          *)
MSpec == MInit /\ [][MNext]_mvars /\ WF_mvars(MNext)
-----------------------------------------------------------------------------
(* However its pieces fall, the copy leaves the buffer as it was, appends  *)
(* as many bytes as the match is long, and each is the byte `distance'     *)
(* before it.                                                              *)
EachByteRepeats ==
  at = "ok" =>
    /\ Len(output) = Len(given) + length
    /\ \A i \in 1 .. Len(given) : output[i] = given[i]
    /\ \A i \in Len(given) + 1 .. Len(output) :
         output[i] = output[i - distance]

(* And this is the copy all other modules use; a distance that is out of   *)
(* range leaves the buffer alone.                                          *)
CopiesTheMatch ==
  /\ EachByteRepeats
  /\ at = "ok"  => output = copy_from_distance(given, distance, length)
  /\ at = "err" => output = given /\ distance \notin 1 .. Len(given)

(* The loop ends.                                                          *)
CopyReturns == <>(at \in {"ok", "err"})
=============================================================================
