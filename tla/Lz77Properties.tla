--------------------------- MODULE Lz77Properties ---------------------------
(***************************************************************************)
(* What the match finder of Lz77 promises the encoder.                     *)
(***************************************************************************)
EXTENDS Lz77

Position == 0 .. NIL

(* Types.  The tables hold positions, and prev has a slot for every        *)
(* position of the input it is used for.                                   *)
LTypeOK ==
  /\ head = << >> \/ head \in [Hashes -> Position]
  /\ head_dirty \in BOOLEAN
  /\ DOMAIN prev \subseteq Slots /\ DOMAIN writer_of = DOMAIN prev
  /\ \A s \in DOMAIN prev : prev[s] \in Position /\ writer_of[s] \in Nat
  /\ input \in Seq(Byte)
  /\ cursor \in 0 .. Len(input)
  /\ best_length \in 0 .. MAX_MATCH
  /\ best_distance \in Nat
  /\ chain_pos \in Position
  /\ chain_count \in 0 .. MAX_CHAIN_LEN
  /\ next \in Nat
  /\ pc \in {"idle", "token", "search", "insert"}
  /\ visited \subseteq Nat
  /\ (pc # "idle" /\ Len(input) >= MIN_MATCH) =>
       /\ head # << >>
       /\ \A pos \in 0 .. Len(input) - 1 : pos % WINDOW_SIZE \in DOMAIN prev

(* "every entry is overwritten before being read": the slot in which the   *)
(* search looks for the next candidate was written in this call, and by    *)
(* the candidate it stands at, not by a later one a whole window ahead.    *)
NoStaleRead ==
  (pc = "search" /\ MoreCandidates) =>
    writer_of[chain_pos % WINDOW_SIZE] = chain_pos

(* Every token says what the input goes on with: the next byte, or a match *)
(* in the input before it, within the window, of a length the format has.  *)
(* It is what Encoder takes a match to be.                                 *)
TokensAreTrue ==
  [][cursor' > cursor =>
       \/ /\ cursor' = cursor + 1
          /\ symbols' = <<"literal", Byte_at(cursor)>>
       \/ \E length \in MIN_MATCH .. MAX_MATCH,
             distance \in 1 .. Min2(cursor, WINDOW_SIZE) :
            /\ cursor' = cursor + length
            /\ symbols' = <<"pointer", length, distance>>
            /\ SubSeq(input, cursor + 1, cursor + length)
                 = Repeated(SubSeq(input, 1, cursor), distance, length)]_lvars

(* How many bytes a match at c would have.                                 *)
Agreement(c) ==
  CHOOSE n \in 0 .. max_length :
    /\ \A i \in 0 .. n - 1 : Byte_at(c + i) = Byte_at(cursor + i)
    /\ n < max_length => Byte_at(c + n) # Byte_at(cursor + n)

SearchDone == pc = "insert" /\ next = cursor + 1

(* Neither the test before the comparison nor the early end loses a longer *)
(* match: the search ends with the longest of its candidates, the nearest  *)
(* of those, and finds none only if no candidate is long enough.           *)
LongestIsFound ==
  SearchDone =>
    /\ Found => /\ cursor - best_distance \in visited
                /\ Agreement(cursor - best_distance) = best_length
    /\ \A c \in visited :
         Agreement(c) >= MIN_MATCH =>
           \/ Agreement(c) < best_length
           \/ Agreement(c) = best_length /\ cursor - c >= best_distance

(* The chain of a hash leads from one position to the next before it, as   *)
(* far as the window reaches, and to no other: a search that is not cut    *)
(* short has seen just the positions of the chunk with this hash, and one  *)
(* that is, the nearest of them.  So what a call finds depends on its      *)
(* chunk alone, and not on what an earlier call has left in the tables.    *)
(* Only a position that 32 bits do not hold, or hold as none, breaks the   *)
(* chain off: a chunk that long loses matches.                             *)
ChainIsExact ==
  SearchDone =>
    LET alike == {c \in search_start .. cursor - 1 : hash(c) = hash(cursor)} IN
    /\ visited \subseteq alike
    /\ \A c \in alike \ visited :
         /\ \/ best_length = max_length
            \/ chain_count = MAX_CHAIN_LEN
            \/ \E r \in alike : r >= c /\ r >= NIL
         /\ \A v \in visited : c < v
=============================================================================
