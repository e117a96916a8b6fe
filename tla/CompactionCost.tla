--------------------------- MODULE CompactionCost ---------------------------
(***************************************************************************)
(* What the compaction of the decoder's output costs: how often advance    *)
(* moves the bytes that are left to the front of the buffer.               *)
(***************************************************************************)
EXTENDS DecoderProperties

VARIABLE copies  \* how often it has

costvars == <<vars, copies>>

(* What a copy leaves in the buffer at most: the window, or what is unread.*)
Kept == Max2(WINDOW_SIZE, MAX_INTERNAL_BUFFER + MAX_MATCH)

ASSUME CompactionCostAssumption == Kept < COMPACT_THRESHOLD

CostInit == Init /\ copies = 0

CountedAdvance(n) ==
  /\ Advance(n)
  /\ copies' = IF keep_from(Len(output), drained + n) > 0 THEN copies + 1
                                                          ELSE copies

CostNext == \/ (Step \/ \E n \in FeedSizes : Feed(n)) /\ UNCHANGED copies
            \/ \E n \in 0 .. Len(Unread) : CountedAdvance(n)

CostSpec == CostInit /\ [][CostNext]_costvars /\ WF_vars(Step)
-----------------------------------------------------------------------------
(* decode.rs on COMPACT_THRESHOLD: "Amortized cost is one `copy_within` of *)
(* at most `WINDOW_SIZE` + unconsumed bytes per `COMPACT_THRESHOLD` bytes  *)
(* decoded", less those that the copy before has left.                     *)
CopiesAreAmortized ==
  copies * (COMPACT_THRESHOLD - Kept) <= Len(History)

(* It holds of a stream without stored blocks, however the caller of       *)
(* advance cuts up the output: once the buffer is compacted, a whole       *)
(* threshold has to be decoded again before it is the next time.           *)
CopiesAreRare ==
  (\A p \in BitsOf(S.size) : S.header[p].type # "stored")
    => CopiesAreAmortized
=============================================================================
