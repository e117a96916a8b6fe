-------------------------------- MODULE Lz77 --------------------------------
(***************************************************************************)
(* The match finder of src/lz77.rs: hash chains over one chunk of input,   *)
(* in tables that are kept from one call of fill_symbols to the next.      *)
(*                                                                         *)
(* Positions count from 0, as in the code: Byte_at(pos) is input[pos].     *)
(* The step of the search that looks at one candidate is an action, and so *)
(* is each insertion into the chains.                                      *)
(***************************************************************************)
EXTENDS BackReference, Integers

CONSTANTS
  Byte,
  Inputs,            \* the chunks a call may be given
  Hashes, hash3,     \* hash3[bytes], of MIN_MATCH bytes; it may collide
  MIN_MATCH, MAX_MATCH, WINDOW_SIZE, MAX_CHAIN_LEN,
  NIL,               \* no position: the largest number the tables hold
  MaxCalls           \* bound: calls on the same tables

ASSUME Lz77Assumption ==
  /\ Inputs \subseteq Seq(Byte)
  /\ hash3 \in [[1 .. MIN_MATCH -> Byte] -> Hashes]
  /\ MIN_MATCH \in Nat \ {0} /\ MAX_MATCH \in Nat /\ MIN_MATCH <= MAX_MATCH
  /\ WINDOW_SIZE \in Nat \ {0}
  /\ MAX_CHAIN_LEN \in Nat
  /\ NIL \in Nat /\ WINDOW_SIZE <= NIL + 1
  /\ MaxCalls \in Nat

VARIABLES
  head, head_dirty,  \* the last position of each hash; none before a use
  prev,              \* slot by slot, the position before the one there
  input, cursor,     \* the chunk, and how many bytes have their tokens
  symbols,           \* the last token: all of them are in the chunk's past
  best_length, best_distance, chain_pos, chain_count,  \* the search
  next,              \* the position to insert next, behind the search
  pc, calls,
  writer_of,         \* which position wrote a slot of prev in this call, in
                     \* full; or NIL.  The code does not keep it
  visited            \* the candidates of this search

search == <<best_length, best_distance, chain_pos, chain_count, visited>>
tables == <<head, head_dirty, prev, writer_of>>
lvars  == <<tables, search, input, cursor, symbols, next, pc, calls>>

Slots == 0 .. WINDOW_SIZE - 1
Byte_at(pos) == input[pos + 1]
Fits(pos)    == pos + MIN_MATCH <= Len(input)
hash(pos)    == hash3[[i \in 1 .. MIN_MATCH |-> Byte_at(pos + i - 1)]]
max_length   == Min2(Len(input) - cursor, MAX_MATCH)
search_start == Max2(cursor, WINDOW_SIZE) - WINDOW_SIZE

(* A bug the runs catch: the comparison stops a byte before the end.       *)
longest_common_prefix_short(a, b, max) ==
  LET bounded == Min2(max, Len(input) - b - 1) IN
  CHOOSE n \in 0 .. bounded :
    /\ \A i \in 0 .. n - 1 : Byte_at(a + i) = Byte_at(b + i)
    /\ n < bounded => Byte_at(a + n) # Byte_at(b + n)

(* How far the bytes at a and at b agree.                                  *)
longest_common_prefix(a, b, max) ==
  LET bounded == Min2(max, Len(input) - b) IN
  CHOOSE n \in 0 .. bounded :
    /\ \A i \in 0 .. n - 1 : Byte_at(a + i) = Byte_at(b + i)
    /\ n < bounded => Byte_at(a + n) # Byte_at(b + n)
-----------------------------------------------------------------------------
LInit == /\ head = << >> /\ head_dirty = FALSE
         /\ prev = << >> /\ writer_of = << >>
         /\ input = << >> /\ cursor = 0 /\ symbols = << >>
         /\ best_length = 0 /\ best_distance = 0
         /\ chain_pos = NIL /\ chain_count = 0
         /\ next = 0 /\ pc = "idle" /\ calls = 0 /\ visited = {}

(* A bug the runs catch: the heads of the last call are still there.       *)
FreshHead_stale == IF head = << >> THEN [h \in Hashes |-> NIL] ELSE head

FreshHead == IF head = << >> \/ head_dirty THEN [h \in Hashes |-> NIL]
                                           ELSE head

(* prev grows to what this input needs, and keeps what it holds.           *)
Grown == LET needed == Min2(Len(input'), WINDOW_SIZE) IN
         [s \in DOMAIN prev \cup 0 .. needed - 1 |->
            IF s \in DOMAIN prev THEN prev[s] ELSE NIL]

(* A call begins; one with a short input leaves the tables alone.          *)
FillSymbols(bytes) ==
  /\ pc = "idle" /\ calls < MaxCalls
  /\ calls' = calls + 1
  /\ input' = bytes
  /\ cursor' = 0 /\ symbols' = << >> /\ next' = 0
  /\ pc' = "token"
  /\ IF Len(bytes) < MIN_MATCH
       THEN UNCHANGED tables
       ELSE /\ head' = FreshHead /\ head_dirty' = TRUE
            /\ prev' = Grown
            /\ writer_of' = [s \in DOMAIN prev' |-> NIL]
  /\ UNCHANGED search

(* reset_history: the encoder takes a new match finder.                    *)
Renew == /\ pc = "idle"
         /\ head' = << >> /\ head_dirty' = FALSE
         /\ prev' = << >> /\ writer_of' = << >>
         /\ UNCHANGED <<search, input, cursor, symbols, next, pc, calls>>

(* A byte too near the end to begin a match, or of a short input.          *)
TailLiteral == /\ pc = "token" /\ cursor < Len(input) /\ ~ Fits(cursor)
               /\ symbols' = <<"literal", Byte_at(cursor)>>
               /\ cursor' = cursor + 1
               /\ UNCHANGED <<tables, search, input, next, pc, calls>>

StartSearch == /\ pc = "token" /\ cursor < Len(input) /\ Fits(cursor)
               /\ best_length' = 0 /\ best_distance' = 0
               /\ chain_pos' = head[hash(cursor)] /\ chain_count' = 0
               /\ visited' = {}
               /\ pc' = "search"
               /\ UNCHANGED <<tables, input, cursor, symbols, next, calls>>

MoreCandidates == /\ chain_pos # NIL
                  /\ chain_pos >= search_start /\ chain_pos < cursor
                  /\ chain_count < MAX_CHAIN_LEN
                  /\ best_length # max_length

(* The test before the comparison: could this candidate be better?         *)
Promising(candidate) ==
  \/ best_length = 0
  \/ /\ Byte_at(candidate + best_length) = Byte_at(cursor + best_length)
     /\ Byte_at(candidate) = Byte_at(cursor)

Better(length) == length >= MIN_MATCH /\ length > best_length

(* A bug the runs catch: the distance is that of the last candidate.       *)
Consider_distance_of_last(candidate) ==
  LET length == longest_common_prefix(candidate, cursor, max_length) IN
  /\ best_length' = IF Better(length) THEN length ELSE best_length
  /\ best_distance' = cursor - candidate

Consider(candidate) ==
  LET length == longest_common_prefix(candidate, cursor, max_length) IN
  IF Promising(candidate) /\ Better(length)
    THEN best_length' = length /\ best_distance' = cursor - candidate
    ELSE UNCHANGED <<best_length, best_distance>>

(* The next candidate of the chain, unless this one is as good as any.     *)
ChainStep ==
  /\ pc = "search" /\ MoreCandidates
  /\ Consider(chain_pos)
  /\ visited' = visited \cup {chain_pos}
  /\ IF best_length' = max_length
       THEN UNCHANGED <<chain_pos, chain_count>>
       ELSE /\ chain_pos' = prev[chain_pos % WINDOW_SIZE]
            /\ chain_count' = chain_count + 1
  /\ UNCHANGED <<tables, input, cursor, symbols, next, pc, calls>>

(* A position as the tables keep it, in 32 bits.  Of a longer chunk than   *)
(* that some positions are kept as earlier ones, and one as none.          *)
as_u32(pos) == pos % (NIL + 1)

Insert(pos) == /\ prev' = [prev EXCEPT ![pos % WINDOW_SIZE] = head[hash(pos)]]
               /\ head' = [head EXCEPT ![hash(pos)] = as_u32(pos)]
               /\ writer_of' = [writer_of EXCEPT ![pos % WINDOW_SIZE] = pos]
               /\ UNCHANGED head_dirty

(* The search is over, and its own position goes into the chains.          *)
EndSearch == /\ pc = "search" /\ ~ MoreCandidates
             /\ Insert(cursor)
             /\ next' = cursor + 1
             /\ pc' = "insert"
             /\ UNCHANGED <<search, input, cursor, symbols, calls>>

(* With a match, the positions within it follow; then its token, or else a *)
(* literal.                                                                *)
Found == best_length >= MIN_MATCH

InsertNext == /\ pc = "insert" /\ Found /\ next < cursor + best_length
              /\ IF Fits(next) THEN Insert(next) ELSE UNCHANGED tables
              /\ next' = next + 1
              /\ UNCHANGED <<search, input, cursor, symbols, pc, calls>>

Token == /\ pc = "insert"
         /\ IF Found
              THEN /\ next = cursor + best_length
                   /\ symbols' = <<"pointer", best_length, best_distance>>
                   /\ cursor' = cursor + best_length
              ELSE /\ symbols' = <<"literal", Byte_at(cursor)>>
                   /\ cursor' = cursor + 1
         /\ pc' = "token"
         /\ UNCHANGED <<tables, search, input, next, calls>>

Return == /\ pc = "token" /\ cursor = Len(input)
          /\ pc' = "idle"
          /\ UNCHANGED <<tables, search, input, cursor, symbols, next, calls>>

LStep == \/ TailLiteral \/ StartSearch \/ ChainStep \/ EndSearch
         \/ InsertNext \/ Token \/ Return

LNext == (\E bytes \in Inputs : FillSymbols(bytes)) \/ Renew \/ LStep

LSpec == LInit /\ [][LNext]_lvars
=============================================================================
