-------------------------------- MODULE Buf --------------------------------
(***************************************************************************)
(* The output buffer of the gzip and zlib decoders, src/buf.rs.            *)
(***************************************************************************)
EXTENDS Naturals, Sequences

CONSTANTS
  Octet,              \* what is in it
  Pieces,             \* what may be fed at once
  COMPACT_THRESHOLD,  \* 1024 * 1024
  MaxUnread           \* a bound: bytes unread

ASSUME BufAssumption ==
  /\ Pieces \subseteq Seq(Octet)
  /\ COMPACT_THRESHOLD \in Nat /\ MaxUnread \in Nat

VARIABLES
  bytes, offset,
  most,  \* the most bytes that ever were unread at once
  last   \* the last operation and its argument

bvars == <<bytes, offset, most, last>>

BInit == bytes = << >> /\ offset = 0 /\ most = 0 /\ last = <<"new", 0>>

get == SubSeq(bytes, offset + 1, Len(bytes))

(* A bug the runs catch: the bytes move and the offset does not.           *)
maybe_compact_stale(b) ==
  IF Len(b) > COMPACT_THRESHOLD /\ offset > 0
    THEN bytes' = SubSeq(b, offset + 1, Len(b)) /\ UNCHANGED offset
    ELSE bytes' = b /\ UNCHANGED offset

(* A bug the runs catch: only when there is nothing to drop.               *)
maybe_compact_never(b) == bytes' = b /\ UNCHANGED offset

maybe_compact(b) ==
  IF Len(b) > COMPACT_THRESHOLD /\ offset > 0
    THEN bytes' = SubSeq(b, offset + 1, Len(b)) /\ offset' = 0
    ELSE bytes' = b /\ UNCHANGED offset

Unread(b) == Len(b) - offset

feed(buf) == /\ Len(get) + Len(buf) <= MaxUnread
             /\ maybe_compact(bytes \o buf)
             /\ most' = IF Unread(bytes \o buf) > most
                          THEN Unread(bytes \o buf) ELSE most
             /\ last' = <<"put", buf>>

(* Past the end it panics.                                                 *)
advance(n) == /\ offset + n <= Len(bytes)
              /\ IF offset + n = Len(bytes)
                   THEN offset' = 0 /\ bytes' = << >>
                   ELSE offset' = offset + n /\ UNCHANGED bytes
              /\ last' = <<"take", n>>
              /\ UNCHANGED most

BNext == \/ \E buf \in Pieces : feed(buf)
         \/ \E n \in 0 .. MaxUnread : advance(n)

BSpec == BInit /\ [][BNext]_bvars
-----------------------------------------------------------------------------
BTypeOK == /\ bytes \in Seq(Octet) /\ offset \in 0 .. Len(bytes)
           /\ most \in Nat /\ Len(bytes) - offset <= most

(* "To keep memory bounded when readers lag behind writers, the buffer     *)
(* compacts": what is already read takes no room beyond the threshold or   *)
(* beyond what was needed for the unread anyway.                           *)
MemoryFollowsUnread ==
  Len(bytes) <= COMPACT_THRESHOLD \/ Len(bytes) <= most

Queue == INSTANCE ByteQueue WITH queue <- get

(* What get returns is a queue that feed puts bytes in and advance takes   *)
(* them from: every byte once and in order, whenever the buffer compacts.  *)
ImplementsQueue == Queue!QSpec
=============================================================================
