----------------------------- MODULE Decompress -----------------------------
(***************************************************************************)
(* The one-shot decompress of src/deflate.rs, of a stream cut off at any   *)
(* byte: all the data in one feed, then the loop of DrainLoop.  It returns *)
(* `delivered' from "ended", and an error from "starved" and "failed".     *)
(***************************************************************************)
EXTENDS DrainLoop

dvars == <<vars, at, before>>

DInit == /\ Init
         /\ at = "start"
         /\ before = 0

FeedAll == /\ at = "start"
           /\ \E n \in 0 .. S.size : Feed(n)
           /\ at' = "fed"
           /\ UNCHANGED before

(* feed(data)? has returned.                                               *)
Fed == /\ at = "fed" /\ pc = "idle"
       /\ at' = IF result = "err" THEN "failed" ELSE "drain"
       /\ UNCHANGED <<vars, before>>

Decoding == Step /\ UNCHANGED <<at, before>>

DNext == Decoding \/ FeedAll \/ Fed \/ Drain \/ Resume \/ Check

(* Sequential code: what it can do next, it does.                          *)
DSpec == DInit /\ [][DNext]_dvars /\ WF_dvars(DNext)
-----------------------------------------------------------------------------
(* The end of the data is told from a full output buffer: data that holds  *)
(* a whole stream decodes to all the stream stands for and is never        *)
(* reported as an error, and anything else always is, however much of it   *)
(* decodes.                                                                *)
TellsTheEnd ==
  /\ at = "ended" => HasWholeStream /\ delivered = WholeData[id]
  /\ at \in {"starved", "failed"} => ~ HasWholeStream

(* Whatever the data, decompress returns, and without a panic.             *)
DecompressReturns == <>(at \in LoopEnds)
=============================================================================
