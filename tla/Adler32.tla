------------------------------ MODULE Adler32 ------------------------------
(***************************************************************************)
(* The Adler-32 checksum of src/adler32.rs: two sums in words that wrap,   *)
(* reduced modulo BASE once per NMAX bytes, with a loop unrolled 16 times. *)
(*                                                                         *)
(* The caller's bytes are chosen as they are read: each is read once.      *)
(***************************************************************************)
EXTENDS Naturals

CONSTANTS
  BASE,      \* 65521
  NMAX,      \* 5552
  WORD,      \* 2^32
  MAX_BYTE,  \* 255
  UNROLL,    \* 16
  Updates,   \* of the data of an update
  MaxSum     \* a bound: no update once the second sum has come to this

(* NMAX is small enough for NMAX of the largest bytes behind the largest   *)
(* sums that a reduction leaves (twice the second sum, to spare a half).   *)
ASSUME Adler32Assumption ==
  /\ BASE \in Nat \ {0, 1} /\ NMAX \in Nat \ {0} /\ WORD \in Nat
  /\ MAX_BYTE \in Nat /\ UNROLL \in Nat \ {0}
  /\ Updates \subseteq Nat /\ MaxSum \in Nat
  /\ 2 * ((BASE - 1) * (NMAX + 1)) + MAX_BYTE * (NMAX * (NMAX + 1)) < 2 * WORD

VARIABLES
  a, b,    \* the sums
  left,    \* how many bytes of the data are not in a chunk yet
  chunk,   \* the length of the chunk under way,
  i,       \* how far the loops over it have come
  j,       \* and how far the unrolled body has
  pc,
  sum_a, sum_b  \* what the sums would be if nothing was ever reduced

avars == <<a, b, left, chunk, i, j, pc, sum_a, sum_b>>

AInit == /\ a = 1 /\ b = 0 /\ sum_a = 1 /\ sum_b = 0
         /\ left = 0 /\ chunk = 0 /\ i = 0 /\ j = 0
         /\ pc = "idle"

Update(n) == /\ pc = "idle" /\ sum_b < MaxSum
             /\ left' = n
             /\ pc' = "outer"
             /\ UNCHANGED <<a, b, chunk, i, j, sum_a, sum_b>>

(* A bug the runs catch: the last bytes are left for a whole body.         *)
chunk_len_rounded == IF left <= NMAX THEN left - (left % UNROLL) ELSE NMAX

chunk_len == IF left <= NMAX THEN left ELSE NMAX

NextChunk == /\ pc = "outer" /\ left > 0
             /\ chunk' = chunk_len
             /\ left' = left - chunk_len
             /\ i' = 0
             /\ pc' = "unrolled"
             /\ UNCHANGED <<a, b, j, sum_a, sum_b>>

UpdateReturns == /\ pc = "outer" /\ left = 0
                 /\ pc' = "idle"
                 /\ UNCHANGED <<a, b, left, chunk, i, j, sum_a, sum_b>>

Add(byte) == /\ a' = (a + byte) % WORD
             /\ b' = (b + a') % WORD
             /\ sum_a' = sum_a + byte
             /\ sum_b' = sum_b + sum_a'

(* The unrolled body, byte by byte: it is left only at its end.            *)
AddUnrolled(byte) ==
  /\ pc = "unrolled" /\ i + UNROLL <= chunk
  /\ Add(byte)
  /\ IF j + 1 = UNROLL THEN i' = i + UNROLL /\ j' = 0
                       ELSE j' = j + 1 /\ UNCHANGED i
  /\ UNCHANGED <<left, chunk, pc>>

LeaveUnrolled == /\ pc = "unrolled" /\ i + UNROLL > chunk
                 /\ pc' = "rest"
                 /\ UNCHANGED <<a, b, left, chunk, i, j, sum_a, sum_b>>

AddRest(byte) == /\ pc = "rest" /\ i < chunk
                 /\ Add(byte)
                 /\ i' = i + 1
                 /\ UNCHANGED <<left, chunk, j, pc>>

(* A bug the runs catch: only the sum that grows fast is reduced.          *)
Reduce_second == /\ pc = "rest" /\ i >= chunk
                 /\ b' = b % BASE
                 /\ pc' = "outer"
                 /\ UNCHANGED <<a, left, chunk, i, j, sum_a, sum_b>>

Reduce == /\ pc = "rest" /\ i >= chunk
          /\ a' = a % BASE /\ b' = b % BASE
          /\ pc' = "outer"
          /\ UNCHANGED <<left, chunk, i, j, sum_a, sum_b>>

AStep == \/ NextChunk \/ UpdateReturns
         \/ \E byte \in 0 .. MAX_BYTE : AddUnrolled(byte) \/ AddRest(byte)
         \/ LeaveUnrolled \/ Reduce

(* After the last update, value is called.                                 *)
Value == pc = "idle" /\ UNCHANGED avars

ANext == (\E n \in Updates : Update(n)) \/ Value \/ AStep

ASpec == AInit /\ [][ANext]_avars /\ WF_avars(AStep)
-----------------------------------------------------------------------------
(* Types, and where the loops are: all but the rest of a chunk is a whole  *)
(* number of unrolled bodies.                                              *)
ATypeOK ==
  /\ a \in 0 .. WORD - 1 /\ b \in 0 .. WORD - 1
  /\ left \in Nat /\ chunk \in 0 .. NMAX
  /\ i \in 0 .. chunk /\ j \in 0 .. UNROLL - 1
  /\ j > 0 => i + UNROLL <= chunk /\ pc = "unrolled"
  /\ pc \in {"idle", "outer", "unrolled", "rest"}
  /\ sum_a \in Nat /\ sum_b \in Nat

(* No addition wraps, whatever the bytes are: the sums that would come out *)
(* of the next byte fit the word.  "the maximum n for which both           *)
(* accumulators are guaranteed not to overflow a u32"                      *)
NeverWraps ==
  (pc = "unrolled" /\ i + UNROLL <= chunk) \/ (pc = "rest" /\ i < chunk) =>
    /\ a + MAX_BYTE < WORD
    /\ b + a + MAX_BYTE < WORD

(* Between two updates the sums are those of RFC 1950 over all the bytes,  *)
(* modulo BASE, however the bytes were cut into updates and chunks.        *)
SumsAreExact == pc = "idle" => a = sum_a % BASE /\ b = sum_b % BASE

(* An update returns.                                                      *)
UpdateEnds == pc # "idle" ~> pc = "idle"
=============================================================================
