----------------------------- MODULE MCDecoder -----------------------------
(***************************************************************************)
(* The decoder on the streams of SampleStreams.                            *)
(***************************************************************************)
EXTENDS CompactionCost, SampleStreams

(* TLC evaluates a definition of its own once, a constant's at every use.  *)
Laid      == LaidOut(Whole \cup Faulty)
Indexed   == Named(Laid)
MCStreams == Indexed

MCWholeSize == BytesOf(Whole)
MCWholeData == DataOf(Whole)
MCStreamIds == {p.id : p \in Whole \cup Faulty}
=============================================================================
