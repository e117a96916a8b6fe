----------------------------- MODULE MCCallers -----------------------------
(***************************************************************************)
(* The two loops of callers around the decoder, decompress and the reading *)
(* adapter, on the streams of SampleStreams.  A behaviour has one of them  *)
(* and the other does not move.                                            *)
(***************************************************************************)
EXTENDS Decompress, IoReader, SampleStreams

VARIABLE caller  \* who has the decoder

callervars == <<dvars, rvars, caller>>

CallersInit == /\ DInit /\ RInit
               /\ caller \in {"decompress", "reader"}

Decompressing == /\ caller = "decompress"
                 /\ DNext
                 /\ UNCHANGED <<place, want, eof, reply, caller>>

Reading == /\ caller = "reader"
           /\ RNext
           /\ UNCHANGED <<at, before, caller>>

CallersNext == Decompressing \/ Reading

(* Sequential code: what it can do next, it does, and the caller of the    *)
(* adapter goes on reading.                                                *)
CallersSpec ==
  CallersInit /\ [][CallersNext]_callervars /\ WF_callervars(CallersNext)

(* Each tells its caller that the stream has ended when it has, and only   *)
(* then.                                                                   *)
EndIsTold == /\ caller = "decompress" => TellsTheEnd
             /\ caller = "reader"     => EndIsReached

(* Whatever the data, decompress returns; whatever the source, whole or    *)
(* cut off, reading to the end comes to an end.                            *)
CallersReturn == /\ caller = "decompress" => DecompressReturns
                 /\ caller = "reader"     => ReadsToEnd
-----------------------------------------------------------------------------
(* TLC evaluates a definition of its own once, a constant's at every use.  *)
Laid      == LaidOut(Whole \cup Faulty)
Indexed   == Named(Laid)
MCStreams == Indexed

MCWholeSize == BytesOf(Whole)
MCWholeData == DataOf(Whole)
MCStreamIds == {p.id : p \in Whole \cup Faulty}
=============================================================================
