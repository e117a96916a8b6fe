----------------------------- MODULE Lz77Proofs -----------------------------
(***************************************************************************)
(* Proofs, for every value of the constants, that the match finder reads   *)
(* no slot of its tables that is stale, follows every chain from position  *)
(* to position without a gap, and writes tokens that are true.             *)
(*                                                                         *)
(* What the chains hold is said by one predicate: a head, and the slot of  *)
(* every position still in the window, is the last position before it with *)
(* the same hash, as 32 bits keep it.  A position that they do not keep is *)
(* kept as one that is out of the window, or as none: it ends the search   *)
(* early and leads it nowhere else.                                        *)
(***************************************************************************)
EXTENDS Lz77Properties, DataLemmas

(* Two positions that share a slot are a window apart.                     *)
LEMMA SameSlot ==
  ASSUME NEW p \in Nat, NEW q \in Nat, p < q,
         p % WINDOW_SIZE = q % WINDOW_SIZE
  PROVE  p + WINDOW_SIZE <= q
<1> DEFINE w == WINDOW_SIZE
           a == p \div w
           b == q \div w
           r == p % w
<1>1. w \in Nat \ {0}
  BY Lz77Assumption
<1>2. /\ a \in Nat /\ b \in Nat /\ r \in 0 .. w - 1
      /\ p = r + w * a /\ q = r + w * b
  BY <1>1, Division
<1> HIDE DEF w, a, b, r
<1>3. w * a \in Nat /\ w * b \in Nat
  BY <1>1, <1>2, Product
<1>4. ~ (b <= a)
  <2>1. ASSUME b <= a PROVE FALSE
    <3>1. a - b \in Nat /\ a = b + (a - b)
      BY <1>2, <2>1
    <3>2. w * a = w * b + w * (a - b) /\ w * (a - b) \in Nat
      BY <1>1, <1>2, <3>1, Product
    <3> QED BY <1>2, <1>3, <3>2
  <2> QED BY <2>1
<1>5. b - a - 1 \in Nat /\ b = a + 1 + (b - a - 1)
  BY <1>2, <1>4
<1>6. w * b = w * a + w + w * (b - a - 1) /\ w * (b - a - 1) \in Nat
  BY <1>1, <1>2, <1>5, Product
<1>7. p + w <= q
  BY <1>1, <1>2, <1>3, <1>6
<1> QED BY <1>7 DEF w

-----------------------------------------------------------------------------
(* The positions before f that can begin a match and have this hash.       *)
Alike(h, f) == {q \in 0 .. f - 1 : Fits(q) /\ hash(q) = h}

(* v is the last of them, as the tables keep it, or there is none.         *)
IsLast(v, h, f) ==
  IF Alike(h, f) = {} THEN v = NIL
  ELSE \E last \in Alike(h, f) : /\ v = as_u32(last)
                                /\ \A q \in Alike(h, f) : q <= last

(* How far the positions are in the chains.                                *)
Frontier == IF pc = "insert" THEN next ELSE cursor

Chained == pc # "idle" /\ Len(input) >= MIN_MATCH

ChainInv ==
  Chained =>
    /\ \A h \in Hashes : IsLast(head[h], h, Frontier)
    /\ \A p \in 0 .. Frontier - 1 :
         Fits(p) /\ p + WINDOW_SIZE >= Frontier =>
           /\ writer_of[p % WINDOW_SIZE] = p
           /\ IsLast(prev[p % WINDOW_SIZE], hash(p), p)

Searching == pc \in {"search", "insert"}

(* What is known of a match, and what has been seen of the chain.          *)
MatchInv ==
  Searching =>
    /\ Fits(cursor) /\ best_length <= max_length
    /\ best_length > 0 =>
         /\ best_length >= MIN_MATCH
         /\ best_distance \in 1 .. Min2(cursor, WINDOW_SIZE)
         /\ \A i \in 0 .. best_length - 1 :
              Byte_at(cursor - best_distance + i) = Byte_at(cursor + i)
    /\ pc = "insert" =>
         /\ next \in cursor + 1 .. Len(input)
         /\ next <= IF Found THEN cursor + best_length ELSE cursor + 1

Reachable == {c \in search_start .. cursor - 1 : hash(c) = hash(cursor)}

(* The chain leads on; or it does not lead to c, because a position at or  *)
(* behind c is not kept as what it is.                                     *)
OnWay  == chain_pos # NIL /\ chain_pos >= search_start
Cut(c) == \E r \in Reachable : r >= c /\ r >= NIL

SearchInv ==
  Searching =>
    /\ visited \subseteq Reachable
    /\ \A c \in Reachable \ visited : \A v \in visited : c < v
    /\ pc = "search" =>
         /\ ~ OnWay => \A c \in Reachable \ visited : Cut(c)
         /\ OnWay =>
              /\ chain_pos < cursor
              /\ hash(chain_pos) = hash(cursor)
              /\ \A c \in Reachable \ visited : c <= chain_pos
              /\ \A v \in visited : chain_pos <= v
              /\ chain_pos \in visited => best_length = max_length
    /\ pc = "insert" =>
         \A c \in Reachable \ visited :
           best_length = max_length \/ chain_count = MAX_CHAIN_LEN \/ Cut(c)

(* The heads are used as soon as there are any.                            *)
HeadInv == ~ head_dirty => head = << >>

IInv == LTypeOK /\ HeadInv /\ ChainInv /\ MatchInv /\ SearchInv
-----------------------------------------------------------------------------
LEMMA Numbers ==
  ASSUME LTypeOK
  PROVE  /\ cursor \in Nat /\ Len(input) \in Nat /\ cursor <= Len(input)
         /\ best_length \in Nat /\ next \in Nat /\ chain_count \in Nat
         /\ max_length \in Nat /\ max_length <= MAX_MATCH
         /\ cursor + max_length <= Len(input)
         /\ search_start \in Nat /\ search_start <= cursor
         /\ search_start + WINDOW_SIZE >= cursor
         /\ cursor >= WINDOW_SIZE => search_start = cursor - WINDOW_SIZE
         /\ Frontier \in Nat
<1>1. /\ input \in Seq(Byte) /\ cursor \in 0 .. Len(input)
      /\ best_length \in 0 .. MAX_MATCH /\ next \in Nat
      /\ chain_count \in 0 .. MAX_CHAIN_LEN
  BY DEF LTypeOK
<1>2. Len(input) \in Nat /\ cursor \in Nat /\ cursor <= Len(input)
  BY <1>1, LenProperties
<1>3. /\ max_length \in Nat /\ max_length <= MAX_MATCH
      /\ cursor + max_length <= Len(input)
  BY <1>2, Lz77Assumption DEF max_length, Min2
<1>4. /\ search_start \in Nat /\ search_start <= cursor
      /\ search_start + WINDOW_SIZE >= cursor
      /\ cursor >= WINDOW_SIZE => search_start = cursor - WINDOW_SIZE
  BY <1>2, Lz77Assumption DEF search_start, Max2
<1> QED BY <1>1, <1>2, <1>3, <1>4 DEF Frontier

LEMMA HashType ==
  ASSUME LTypeOK, NEW p \in Nat, Fits(p)
  PROVE  hash(p) \in Hashes
<1>1. input \in Seq(Byte) /\ Len(input) \in Nat /\ MIN_MATCH \in Nat
  BY LenProperties, Lz77Assumption DEF LTypeOK
<1>2. ASSUME NEW i \in 1 .. MIN_MATCH PROVE Byte_at(p + i - 1) \in Byte
  <2>1. p + i - 1 + 1 \in 1 .. Len(input)
    BY <1>1 DEF Fits
  <2> QED BY <1>1, <2>1, ElementOfSeq DEF Byte_at
<1>3. [i \in 1 .. MIN_MATCH |-> Byte_at(p + i - 1)] \in [1 .. MIN_MATCH -> Byte]
  BY <1>2
<1> QED BY <1>3, Lz77Assumption DEF hash

(* What 32 bits make of a position.                                        *)
LEMMA Kept ==
  ASSUME NEW p \in Nat
  PROVE  /\ as_u32(p) \in 0 .. NIL
         /\ p <= NIL => as_u32(p) = p
         /\ p > NIL => as_u32(p) <= p - (NIL + 1)
<1> DEFINE w == NIL + 1
           a == p \div w
           r == p % w
<1>1. NIL \in Nat /\ w \in Nat \ {0}
  BY Lz77Assumption
<1>2. a \in Nat /\ r \in 0 .. w - 1 /\ p = r + w * a
  BY <1>1, Division
<1>3. r \in 0 .. NIL
  BY <1>1, <1>2
<1>4. as_u32(p) = r
  BY DEF as_u32
<1>5. CASE a = 0
  <2>1. w * a = 0
    BY <1>1, <1>5
  <2>2. p = r /\ p <= NIL
    BY <1>1, <1>2, <1>3, <2>1
  <2> QED BY <1>1, <1>3, <1>4, <2>2
<1>6. CASE a # 0
  <2> HIDE DEF a, r, w
  <2>1. a - 1 \in Nat /\ a = 1 + (a - 1)
    BY <1>2, <1>6
  <2>2. w * a = w + w * (a - 1) /\ w * (a - 1) \in Nat
    BY <1>1, <1>2, <2>1, Product
  <2>3. p >= r + w
    BY <1>1, <1>2, <2>2
  <2>4. r <= p - w /\ p >= w
    BY <1>1, <1>2, <2>3
  <2> QED BY <1>1, <1>2, <1>3, <1>4, <2>4 DEF w
<1> QED BY <1>5, <1>6

(* The entry leads to the last such position; or, where it leads out of    *)
(* the window or to none, there is nothing to reach, or a position at or   *)
(* behind it is not kept as what it is.                                    *)
LEMMA LastOrCut ==
  ASSUME LTypeOK, NEW h, NEW f \in 0 .. cursor, NEW v, IsLast(v, h, f)
  PROVE  /\ v \in 0 .. NIL
         /\ v # NIL /\ v >= search_start =>
              v \in Alike(h, f) /\ \A q \in Alike(h, f) : q <= v
         /\ ~ (v # NIL /\ v >= search_start) =>
              \A c \in Alike(h, f) : c >= search_start =>
                \E r \in Alike(h, f) : r >= c /\ r >= NIL
<1>1. /\ cursor \in Nat /\ search_start \in Nat
      /\ cursor >= WINDOW_SIZE => search_start = cursor - WINDOW_SIZE
      /\ NIL \in Nat /\ WINDOW_SIZE \in Nat /\ WINDOW_SIZE <= NIL + 1
  BY Numbers, Lz77Assumption
<1>2. CASE Alike(h, f) = {}
  BY <1>1, <1>2 DEF IsLast
<1>3. CASE Alike(h, f) # {}
  <2>1. PICK last \in Alike(h, f) : /\ v = as_u32(last)
                                    /\ \A q \in Alike(h, f) : q <= last
    BY <1>3 DEF IsLast
  <2>2. /\ last \in Nat /\ last < cursor
        /\ \A c \in Alike(h, f) : c \in Nat
    BY <1>1 DEF Alike
  <2>3. /\ v \in 0 .. NIL
        /\ last <= NIL => v = last
        /\ last > NIL => v <= last - (NIL + 1)
    BY <2>1, <2>2, Kept
  <2>4. CASE last < NIL
    BY <1>1, <2>1, <2>2, <2>3, <2>4
  <2>5. CASE last = NIL
    BY <1>1, <2>1, <2>2, <2>3, <2>5
  <2>6. CASE last > NIL
    <3>1. v < search_start /\ last >= NIL
      BY <1>1, <2>2, <2>3, <2>6
    <3> QED BY <1>1, <2>1, <2>2, <2>3, <3>1
  <2> QED BY <1>1, <2>2, <2>4, <2>5, <2>6
<1> QED BY <1>2, <1>3

(* How far two places agree is well defined, and they agree so far.        *)
LEMMA Prefix ==
  ASSUME LTypeOK, NEW a \in 0 .. cursor, NEW b \in Nat, b <= Len(input),
         NEW max \in Nat
  PROVE  LET n == longest_common_prefix(a, b, max) IN
         /\ n \in Nat /\ n <= max
         /\ \A i \in 0 .. n - 1 : Byte_at(a + i) = Byte_at(b + i)
<1> DEFINE bounded == Min2(max, Len(input) - b)
           T == {n \in 0 .. bounded :
                   n < bounded => Byte_at(a + n) # Byte_at(b + n)}
<1>1. bounded \in Nat /\ bounded <= max
  BY Numbers DEF Min2
<1> HIDE DEF bounded
<1>2. bounded \in T /\ T \in SUBSET Nat
  BY <1>1
<1>3. PICK m \in T : \A k \in T : m <= k
  BY <1>2, LeastOf
<1>4. ASSUME NEW i \in 0 .. m - 1 PROVE Byte_at(a + i) = Byte_at(b + i)
  <2>1. i \in 0 .. bounded /\ i < bounded /\ ~ (m <= i)
    BY <1>1, <1>3
  <2> QED BY <1>3, <2>1
<1>5. /\ m \in 0 .. bounded
      /\ \A i \in 0 .. m - 1 : Byte_at(a + i) = Byte_at(b + i)
      /\ m < bounded => Byte_at(a + m) # Byte_at(b + m)
  BY <1>3, <1>4
<1> DEFINE n == longest_common_prefix(a, b, max)
<1>6. /\ n \in 0 .. bounded
      /\ \A i \in 0 .. n - 1 : Byte_at(a + i) = Byte_at(b + i)
  BY <1>5 DEF longest_common_prefix, bounded
<1> QED BY <1>1, <1>6
-----------------------------------------------------------------------------
(* What only depends on the chunk.                                         *)
LEMMA SameChunk ==
  ASSUME input' = input
  PROVE  /\ \A p : Byte_at(p)' = Byte_at(p)
         /\ \A p : Fits(p)' <=> Fits(p)
         /\ \A p : hash(p)' = hash(p)
         /\ \A h, f : Alike(h, f)' = Alike(h, f)
         /\ \A v, h, f : IsLast(v, h, f)' <=> IsLast(v, h, f)
<1>1. \A p : Byte_at(p)' = Byte_at(p)
  BY DEF Byte_at
<1>2. \A p : Fits(p)' <=> Fits(p)
  BY DEF Fits
<1>3. \A p : hash(p)' = hash(p)
  BY DEF hash, Byte_at
<1>4. \A h, f : Alike(h, f)' = Alike(h, f)
  BY <1>2, <1>3 DEF Alike
<1>5. \A v, h, f : IsLast(v, h, f)' <=> IsLast(v, h, f)
  BY <1>4 DEF IsLast
<1> QED BY <1>1, <1>2, <1>3, <1>4, <1>5

LEMMA ChainsSame ==
  ASSUME ChainInv, tables' = tables, input' = input,
         Frontier' = Frontier, Chained' => Chained
  PROVE  ChainInv'
<1>1. head' = head /\ prev' = prev /\ writer_of' = writer_of
  BY DEF tables
<1> SUFFICES ASSUME Chained' PROVE ChainInv'
  BY DEF ChainInv
<1>2. \A h \in Hashes : IsLast(head[h], h, Frontier)'
  <2> TAKE h \in Hashes
  <2>1. IsLast(head[h], h, Frontier)
    BY DEF ChainInv
  <2> QED BY <1>1, <2>1, SameChunk
<1>3. ASSUME NEW p \in 0 .. Frontier - 1, Fits(p), p + WINDOW_SIZE >= Frontier
      PROVE  /\ writer_of'[p % WINDOW_SIZE] = p
             /\ IsLast(prev[p % WINDOW_SIZE], hash(p), p)'
  <2>1. /\ writer_of[p % WINDOW_SIZE] = p
        /\ IsLast(prev[p % WINDOW_SIZE], hash(p), p)
    BY <1>3 DEF ChainInv
  <2> QED BY <1>1, <2>1, SameChunk
<1> QED BY <1>2, <1>3, SameChunk DEF ChainInv

(* The next position is too near the end to begin a match.                 *)
LEMMA NoInsert ==
  ASSUME LTypeOK, ChainInv, tables' = tables, input' = input,
         ~ Fits(Frontier), Frontier' = Frontier + 1, Chained' => Chained
  PROVE  ChainInv'
<1>1. head' = head /\ prev' = prev /\ writer_of' = writer_of
  BY DEF tables
<1>2. Frontier \in Nat
  BY Numbers
<1> SUFFICES ASSUME Chained' PROVE ChainInv'
  BY DEF ChainInv
<1>3. \A h : Alike(h, Frontier + 1) = Alike(h, Frontier)
  BY <1>2 DEF Alike
<1>4. \A h \in Hashes : IsLast(head[h], h, Frontier)'
  <2> TAKE h \in Hashes
  <2>1. IsLast(head[h], h, Frontier)
    BY DEF ChainInv
  <2>2. IsLast(head[h], h, Frontier + 1)
    BY <1>3, <2>1 DEF IsLast
  <2> QED BY <1>1, <2>2, SameChunk
<1>5. ASSUME NEW p \in 0 .. Frontier' - 1, Fits(p),
             p + WINDOW_SIZE >= Frontier'
      PROVE  /\ writer_of'[p % WINDOW_SIZE] = p
             /\ IsLast(prev[p % WINDOW_SIZE], hash(p), p)'
  <2>1. p \in 0 .. Frontier - 1 /\ p + WINDOW_SIZE >= Frontier
    <3>1. p # Frontier
      BY <1>5
    <3>2. p \in 0 .. Frontier /\ p + WINDOW_SIZE >= Frontier + 1
      BY <1>2, <1>5
    <3> QED BY <1>2, <3>1, <3>2, Lz77Assumption
  <2>2. /\ writer_of[p % WINDOW_SIZE] = p
        /\ IsLast(prev[p % WINDOW_SIZE], hash(p), p)
    BY <1>5, <2>1 DEF ChainInv
  <2> QED BY <1>1, <2>2, SameChunk
<1> QED BY <1>4, <1>5, SameChunk DEF ChainInv

(* The next position goes into the chains.                                 *)
LEMMA InsertKeeps ==
  ASSUME LTypeOK, ChainInv, Chained, Insert(Frontier), input' = input,
         Fits(Frontier), Frontier' = Frontier + 1
  PROVE  ChainInv'
<1> DEFINE f == Frontier
           h0 == hash(f)
           s0 == f % WINDOW_SIZE
<1>1. /\ prev' = [prev EXCEPT ![s0] = head[h0]]
      /\ head' = [head EXCEPT ![h0] = as_u32(f)]
      /\ writer_of' = [writer_of EXCEPT ![s0] = f]
  BY DEF Insert
<1>2. f \in Nat /\ h0 \in Hashes /\ WINDOW_SIZE \in Nat \ {0}
  BY Numbers, HashType, Lz77Assumption
<1>3. head \in [Hashes -> Position] /\ DOMAIN writer_of = DOMAIN prev
  BY DEF LTypeOK, Chained
<1>4. \A p \in 0 .. f : p % WINDOW_SIZE \in DOMAIN prev
  <2>1. \A p \in 0 .. Len(input) - 1 : p % WINDOW_SIZE \in DOMAIN prev
    BY DEF LTypeOK, Chained
  <2>2. f + MIN_MATCH <= Len(input) /\ Len(input) \in Nat
    BY Numbers DEF Fits
  <2>3. f <= Len(input) - 1 /\ MIN_MATCH \in Nat \ {0}
    BY <1>2, <2>2, Lz77Assumption
  <2> HIDE DEF f
  <2>4. \A p \in 0 .. f : p \in 0 .. Len(input) - 1
    BY <1>2, <2>2, <2>3
  <2> QED BY <2>1, <2>4
<1>5. /\ IsLast(head[h0], h0, f)
      /\ \A h \in Hashes : IsLast(head[h], h, f)
  BY <1>2 DEF ChainInv
<1>6. /\ Alike(h0, f + 1) = Alike(h0, f) \cup {f}
      /\ \A h : h # h0 => Alike(h, f + 1) = Alike(h, f)
  BY <1>2 DEF Alike
<1>7. \A h \in Hashes : IsLast(head'[h], h, f + 1)
  <2> TAKE h \in Hashes
  <2>1. CASE h = h0
    <3>1. head'[h] = as_u32(f)
      BY <1>1, <1>3, <2>1
    <3>2. \A q \in Alike(h0, f + 1) : q <= f
      BY <1>2 DEF Alike
    <3> QED BY <1>6, <2>1, <3>1, <3>2 DEF IsLast
  <2>2. CASE h # h0
    <3>1. head'[h] = head[h]
      BY <1>1, <1>3, <2>2
    <3> QED BY <1>5, <1>6, <2>2, <3>1 DEF IsLast
  <2> QED BY <2>1, <2>2
<1>8. ASSUME NEW p \in 0 .. f, Fits(p), p + WINDOW_SIZE >= f + 1
      PROVE  /\ writer_of'[p % WINDOW_SIZE] = p
             /\ IsLast(prev'[p % WINDOW_SIZE], hash(p), p)
  <2> DEFINE s == p % WINDOW_SIZE
  <2>1. s \in DOMAIN prev /\ s0 \in DOMAIN prev
    BY <1>2, <1>4
  <2>2. CASE p = f
    <3>1. writer_of'[s] = f /\ prev'[s] = head[h0]
      BY <1>1, <1>3, <2>1, <2>2
    <3> QED BY <1>5, <2>2, <3>1
  <2>3. CASE p # f
    <3>1. s # s0
      <4>1. p < f /\ ~ (p + WINDOW_SIZE <= f)
        BY <1>2, <1>8, <2>3
      <4>2. p \in Nat /\ f \in Nat
        BY <1>2
      <4>3. p % WINDOW_SIZE # f % WINDOW_SIZE
        BY <4>1, <4>2, SameSlot
      <4> QED BY <4>3
    <3>2. writer_of'[s] = writer_of[s] /\ prev'[s] = prev[s]
      BY <1>1, <1>3, <2>1, <3>1
    <3>3. p \in 0 .. f - 1 /\ p + WINDOW_SIZE >= f
      BY <1>2, <1>8, <2>3
    <3>4. writer_of[s] = p /\ IsLast(prev[s], hash(p), p)
      BY <1>8, <3>3 DEF ChainInv
    <3> QED BY <3>2, <3>4
  <2> QED BY <2>2, <2>3
<1> HIDE DEF f, h0, s0
<1>9. \A h \in Hashes : IsLast(head[h], h, Frontier)'
  <2>1. Frontier' = f + 1
    BY DEF f
  <2> QED BY <1>7, <2>1, SameChunk
<1>10. ASSUME NEW p \in 0 .. Frontier' - 1, Fits(p),
              p + WINDOW_SIZE >= Frontier'
       PROVE  /\ writer_of'[p % WINDOW_SIZE] = p
              /\ IsLast(prev[p % WINDOW_SIZE], hash(p), p)'
  <2>1. p \in 0 .. f /\ p + WINDOW_SIZE >= f + 1
    BY <1>2, <1>10 DEF f
  <2> QED BY <1>8, <1>10, <2>1, SameChunk
<1> QED BY <1>9, <1>10, SameChunk DEF ChainInv
-----------------------------------------------------------------------------
LEMMA FillSymbolsInv ==
  ASSUME IInv, NEW bytes \in Inputs, FillSymbols(bytes)
  PROVE  IInv'
<1>1. /\ pc' = "token" /\ input' = bytes /\ cursor' = 0 /\ next' = 0
      /\ best_length' = best_length /\ best_distance' = best_distance
      /\ chain_pos' = chain_pos /\ chain_count' = chain_count
      /\ visited' = visited
  BY DEF FillSymbols, search
<1>2. bytes \in Seq(Byte) /\ Len(bytes) \in Nat /\ WINDOW_SIZE \in Nat \ {0}
      /\ MIN_MATCH \in Nat \ {0}
  BY Lz77Assumption, LenProperties
<1>3. MatchInv' /\ SearchInv'
  BY <1>1 DEF MatchInv, SearchInv, Searching
<1>4. CASE Len(bytes) < MIN_MATCH
  <2>1. head' = head /\ head_dirty' = head_dirty /\ prev' = prev
        /\ writer_of' = writer_of
    BY <1>4 DEF FillSymbols, tables
  <2>2. ~ Chained'
    BY <1>1, <1>2, <1>4 DEF Chained
  <2>3. LTypeOK'
    BY <1>1, <1>2, <1>4, <2>1 DEF IInv, LTypeOK
  <2> QED BY <1>3, <2>1, <2>2, <2>3 DEF IInv, HeadInv, ChainInv
<1>5. CASE ~ (Len(bytes) < MIN_MATCH)
  <2> DEFINE needed == Min2(Len(bytes), WINDOW_SIZE)
  <2>1. /\ head' = FreshHead /\ head_dirty' = TRUE /\ prev' = Grown
        /\ writer_of' = [s \in DOMAIN prev' |-> NIL]
    BY <1>5 DEF FillSymbols
  <2>2. needed \in Nat /\ needed <= WINDOW_SIZE /\ needed <= Len(bytes)
        /\ (needed = WINDOW_SIZE \/ needed = Len(bytes))
    BY <1>2 DEF Min2
  <2>3. prev' = [s \in DOMAIN prev \cup 0 .. needed - 1 |->
                   IF s \in DOMAIN prev THEN prev[s] ELSE NIL]
    BY <1>1, <2>1 DEF Grown
  <2> HIDE DEF needed
  <2>4. /\ DOMAIN prev' \subseteq Slots /\ DOMAIN writer_of' = DOMAIN prev'
        /\ \A s \in DOMAIN prev' : prev'[s] \in Position
                                   /\ writer_of'[s] \in Nat
    <3>0. NIL \in Nat /\ NIL \in Position
      BY Lz77Assumption DEF Position
    <3>1. 0 .. needed - 1 \subseteq Slots
      BY <1>2, <2>2 DEF Slots
    <3>2. /\ DOMAIN prev \subseteq Slots
          /\ \A s \in DOMAIN prev : prev[s] \in Position
      BY DEF IInv, LTypeOK
    <3> QED BY <2>1, <2>3, <3>0, <3>1, <3>2
  <2>5. head' = [h \in Hashes |-> NIL]
    BY <2>1 DEF FreshHead, IInv, HeadInv
  <2>6. head' \in [Hashes -> Position] /\ head' # << >>
    <3>1. Hashes # {}
      <4>1. ASSUME NEW i \in 1 .. MIN_MATCH PROVE bytes[i] \in Byte
        BY <1>2, <1>5, ElementOfSeq
      <4>2. [i \in 1 .. MIN_MATCH |-> bytes[i]] \in [1 .. MIN_MATCH -> Byte]
        BY <4>1
      <4> QED BY <4>2, Lz77Assumption
    <3>2. DOMAIN << >> = {}
      OBVIOUS
    <3>3. DOMAIN head' = Hashes
      BY <2>5
    <3>4. NIL \in Position
      BY Lz77Assumption DEF Position
    <3> QED BY <2>5, <3>1, <3>2, <3>3, <3>4
  <2>7. ASSUME NEW pos \in 0 .. Len(bytes) - 1
        PROVE  pos % WINDOW_SIZE \in DOMAIN prev'
    <3>1. pos % WINDOW_SIZE \in 0 .. WINDOW_SIZE - 1
      BY <1>2
    <3>2. pos < WINDOW_SIZE => pos % WINDOW_SIZE = pos
      BY <1>2
    <3> DEFINE s == pos % WINDOW_SIZE
    <3> HIDE DEF s
    <3>3. s \in 0 .. needed - 1
      BY <1>2, <2>2, <3>1, <3>2 DEF s
    <3> QED BY <2>3, <3>3 DEF s
  <2>8. LTypeOK'
    BY <1>1, <1>2, <2>1, <2>4, <2>6, <2>7 DEF IInv, LTypeOK
  <2>9. ChainInv'
    <3>1. Frontier' = 0
      BY <1>1 DEF Frontier
    <3>2. \A h : Alike(h, 0)' = {}
      BY DEF Alike
    <3>3. \A h \in Hashes : IsLast(head[h], h, Frontier)'
      <4> TAKE h \in Hashes
      <4>1. head'[h] = NIL
        BY <2>5
      <4> QED BY <3>1, <3>2, <4>1 DEF IsLast
    <3>4. 0 .. Frontier' - 1 = {}
      BY <3>1
    <3> QED BY <3>3, <3>4 DEF ChainInv
  <2> QED BY <1>3, <2>1, <2>8, <2>9 DEF IInv, HeadInv
<1> QED BY <1>4, <1>5

LEMMA RenewInv ==
  ASSUME IInv, Renew
  PROVE  IInv'
<1>1. /\ pc' = "idle" /\ head' = << >> /\ head_dirty' = FALSE
      /\ prev' = << >> /\ writer_of' = << >> /\ input' = input
      /\ cursor' = cursor /\ next' = next
      /\ best_length' = best_length /\ best_distance' = best_distance
      /\ chain_pos' = chain_pos /\ chain_count' = chain_count
      /\ visited' = visited
  BY DEF Renew, search
<1>2. DOMAIN << >> = {}
  OBVIOUS
<1>3. LTypeOK'
  BY <1>1, <1>2 DEF IInv, LTypeOK
<1> QED BY <1>1, <1>3 DEF IInv, HeadInv, ChainInv, Chained, MatchInv, SearchInv,
        Searching

LEMMA TailLiteralInv ==
  ASSUME IInv, TailLiteral
  PROVE  IInv'
<1>1. /\ pc = "token" /\ pc' = pc /\ cursor < Len(input) /\ ~ Fits(cursor)
      /\ cursor' = cursor + 1 /\ input' = input /\ next' = next
      /\ tables' = tables /\ head' = head /\ head_dirty' = head_dirty
      /\ prev' = prev /\ writer_of' = writer_of
      /\ best_length' = best_length /\ best_distance' = best_distance
      /\ chain_pos' = chain_pos /\ chain_count' = chain_count
      /\ visited' = visited
  BY DEF TailLiteral, search, tables
<1>2. cursor' \in 0 .. Len(input)
  BY <1>1, Numbers DEF IInv
<1>3. LTypeOK'
  BY <1>1, <1>2 DEF IInv, LTypeOK
<1>4. Frontier = cursor /\ Frontier' = Frontier + 1 /\ Chained' = Chained
  BY <1>1 DEF Frontier, Chained
<1>5. ChainInv'
  BY <1>1, <1>4, NoInsert DEF IInv
<1> QED BY <1>1, <1>3, <1>5 DEF IInv, HeadInv, MatchInv, SearchInv, Searching

LEMMA StartSearchInv ==
  ASSUME IInv, StartSearch
  PROVE  IInv'
<1>1. /\ pc = "token" /\ pc' = "search" /\ cursor < Len(input) /\ Fits(cursor)
      /\ cursor' = cursor /\ input' = input /\ next' = next
      /\ tables' = tables /\ head' = head /\ head_dirty' = head_dirty
      /\ prev' = prev /\ writer_of' = writer_of
      /\ best_length' = 0 /\ best_distance' = 0
      /\ chain_pos' = head[hash(cursor)] /\ chain_count' = 0
      /\ visited' = {}
  BY DEF StartSearch, tables
<1>2. cursor \in Nat /\ hash(cursor) \in Hashes
  BY <1>1, Numbers, HashType DEF IInv
<1>3. Chained
  BY <1>1, <1>2, Numbers, Lz77Assumption DEF IInv, Chained, Fits
<1>4. head \in [Hashes -> Position]
  BY <1>3 DEF IInv, LTypeOK, Chained
<1>5. LTypeOK'
  BY <1>1, <1>2, <1>4, Lz77Assumption DEF IInv, LTypeOK
<1>6. ChainInv'
  <2>1. Frontier' = Frontier /\ (Chained' => Chained)
    BY <1>1, <1>3 DEF Frontier
  <2> QED BY <1>1, <2>1, ChainsSame DEF IInv
<1>7. MatchInv'
  <2>1. max_length' = max_length /\ max_length \in Nat
    BY <1>1, Numbers DEF IInv, max_length
  <2> QED BY <1>1, <2>1, SameChunk DEF MatchInv
<1>8. SearchInv'
  <2>1. Reachable' = Reachable
    BY <1>1, SameChunk DEF Reachable, search_start
  <2>2. IsLast(head[hash(cursor)], hash(cursor), cursor)
    BY <1>1, <1>2, <1>3 DEF IInv, ChainInv, Frontier
  <2>3. Reachable \subseteq Alike(hash(cursor), cursor)
    BY <1>1, <1>2, Numbers, Lz77Assumption DEF IInv, Reachable, Alike, Fits
  <2> DEFINE c == head[hash(cursor)]
  <2>4. Reachable = {q \in Alike(hash(cursor), cursor) : q >= search_start}
    BY <1>1, <1>2, <2>3, Numbers DEF IInv, Reachable, Alike
  <2>5. cursor \in 0 .. cursor
    BY <1>2
  <2>6. LET onWay == c # NIL /\ c >= search_start IN
        /\ ~ onWay => \A q \in Reachable : Cut(q)
        /\ onWay => /\ c < cursor /\ hash(c) = hash(cursor)
                    /\ \A q \in Reachable : q <= c
    <3>1. /\ c # NIL /\ c >= search_start =>
               /\ c \in Alike(hash(cursor), cursor)
               /\ \A q \in Alike(hash(cursor), cursor) : q <= c
          /\ ~ (c # NIL /\ c >= search_start) =>
               \A q \in Alike(hash(cursor), cursor) : q >= search_start =>
                 \E r \in Alike(hash(cursor), cursor) : r >= q /\ r >= NIL
      BY <2>2, <2>5, LastOrCut DEF IInv
    <3> HIDE DEF c
    <3>2. ASSUME ~ (c # NIL /\ c >= search_start), NEW q \in Reachable
          PROVE  Cut(q)
      <4>1. PICK r \in Alike(hash(cursor), cursor) : r >= q /\ r >= NIL
        BY <2>4, <3>1, <3>2
      <4>2. r \in Nat /\ q \in Nat /\ search_start \in Nat
            /\ q >= search_start
        BY <1>2, <2>4, Numbers DEF IInv, Alike
      <4>3. r \in Reachable
        BY <2>4, <4>1, <4>2
      <4> QED BY <4>1, <4>3 DEF Cut
    <3>3. ASSUME c # NIL, c >= search_start
          PROVE  /\ c < cursor /\ hash(c) = hash(cursor)
                 /\ \A q \in Reachable : q <= c
      BY <1>2, <2>4, <3>1, <3>3 DEF Alike
    <3> QED BY <3>2, <3>3
  <2> HIDE DEF c
  <2>7. chain_pos' = c /\ search_start' = search_start
    BY <1>1 DEF c, search_start
  <2>8. /\ hash(chain_pos)' = hash(c) /\ hash(cursor)' = hash(cursor)
        /\ OnWay' <=> c # NIL /\ c >= search_start
        /\ \A q : Cut(q)' <=> Cut(q)
    BY <1>1, <2>1, <2>7, SameChunk DEF OnWay, Cut
  <2> QED BY <1>1, <2>1, <2>6, <2>7, <2>8 DEF SearchInv
<1> QED BY <1>1, <1>5, <1>6, <1>7, <1>8 DEF IInv, HeadInv

(* A search reads the slot of a candidate: it is the candidate's own, and  *)
(* leads to the last position before it with the same hash.                *)
LEMMA SlotIsOwn ==
  ASSUME IInv, pc = "search", MoreCandidates
  PROVE  /\ Chained /\ chain_pos \in 0 .. cursor - 1
         /\ chain_pos \in Reachable
         /\ chain_pos % WINDOW_SIZE \in DOMAIN prev
         /\ writer_of[chain_pos % WINDOW_SIZE] = chain_pos
         /\ IsLast(prev[chain_pos % WINDOW_SIZE], hash(cursor), chain_pos)
<1> USE DEF IInv
<1>1. /\ cursor \in Nat /\ Len(input) \in Nat /\ search_start \in Nat
      /\ search_start + WINDOW_SIZE >= cursor
      /\ WINDOW_SIZE \in Nat \ {0} /\ MIN_MATCH \in Nat \ {0}
  BY Numbers, Lz77Assumption
<1>2. Fits(cursor)
  BY DEF MatchInv, Searching
<1>3. Chained /\ cursor + MIN_MATCH <= Len(input)
  BY <1>1, <1>2 DEF Chained, Fits
<1>4. chain_pos \in Nat /\ chain_pos >= search_start /\ chain_pos < cursor
  BY DEF MoreCandidates, LTypeOK, Position
<1>5. hash(chain_pos) = hash(cursor)
  BY DEF SearchInv, Searching, OnWay, MoreCandidates
<1>6. chain_pos \in Reachable
  BY <1>1, <1>4, <1>5 DEF Reachable
<1>7. chain_pos \in 0 .. Len(input) - 1 /\ chain_pos \in 0 .. cursor - 1
      /\ chain_pos + MIN_MATCH <= Len(input)
      /\ chain_pos + WINDOW_SIZE >= cursor
  BY <1>1, <1>3, <1>4
<1>8. chain_pos % WINDOW_SIZE \in DOMAIN prev
  BY <1>3, <1>7 DEF LTypeOK, Chained
<1>9. /\ writer_of[chain_pos % WINDOW_SIZE] = chain_pos
      /\ IsLast(prev[chain_pos % WINDOW_SIZE], hash(chain_pos), chain_pos)
  BY <1>3, <1>7 DEF ChainInv, Fits, Frontier
<1> QED BY <1>3, <1>5, <1>6, <1>7, <1>8, <1>9

LEMMA ChainStepInv ==
  ASSUME IInv, ChainStep
  PROVE  IInv'
<1> DEFINE c == chain_pos
           length == longest_common_prefix(c, cursor, max_length)
<1>1. /\ pc = "search" /\ MoreCandidates /\ Consider(c)
      /\ visited' = visited \cup {c}
      /\ IF best_length' = max_length
           THEN chain_pos' = chain_pos /\ chain_count' = chain_count
           ELSE /\ chain_pos' = prev[chain_pos % WINDOW_SIZE]
                /\ chain_count' = chain_count + 1
      /\ pc' = pc /\ cursor' = cursor /\ input' = input /\ next' = next
      /\ tables' = tables /\ head' = head /\ head_dirty' = head_dirty
      /\ prev' = prev /\ writer_of' = writer_of
  BY DEF ChainStep, tables
<1>2. /\ Chained /\ c \in 0 .. cursor - 1 /\ c \in Reachable
      /\ c % WINDOW_SIZE \in DOMAIN prev
      /\ IsLast(prev[c % WINDOW_SIZE], hash(cursor), c)
  BY <1>1, SlotIsOwn
<1>3. /\ cursor \in Nat /\ Len(input) \in Nat /\ cursor <= Len(input)
      /\ best_length \in Nat /\ chain_count \in Nat
      /\ max_length \in Nat /\ max_length <= MAX_MATCH
      /\ search_start \in Nat /\ search_start + WINDOW_SIZE >= cursor
  BY Numbers DEF IInv
<1>4. /\ length \in Nat /\ length <= max_length
      /\ \A i \in 0 .. length - 1 : Byte_at(c + i) = Byte_at(cursor + i)
  <2>1. c \in 0 .. cursor
    BY <1>2, <1>3
  <2> QED BY <1>3, <2>1, Prefix DEF IInv
<1>5. /\ best_length \in Nat /\ best_length <= max_length
      /\ best_distance \in Nat
      /\ best_length > 0 =>
           /\ best_length >= MIN_MATCH
           /\ best_distance \in 1 .. Min2(cursor, WINDOW_SIZE)
           /\ \A i \in 0 .. best_length - 1 :
                Byte_at(cursor - best_distance + i) = Byte_at(cursor + i)
  BY <1>1, <1>3 DEF IInv, MatchInv, Searching, LTypeOK
<1>6. /\ best_length' \in Nat /\ best_length' <= max_length
      /\ best_distance' \in Nat
      /\ best_length' > 0 =>
           /\ best_length' >= MIN_MATCH
           /\ best_distance' \in 1 .. Min2(cursor, WINDOW_SIZE)
           /\ \A i \in 0 .. best_length' - 1 :
                Byte_at(cursor - best_distance' + i) = Byte_at(cursor + i)
  <2>1. CASE Promising(c) /\ Better(length)
    <3>1. best_length' = length /\ best_distance' = cursor - c
          /\ length >= MIN_MATCH
      BY <1>1, <2>1 DEF Consider, Better
    <3> HIDE DEF length
    <3>2. cursor - (cursor - c) = c /\ cursor - c \in Nat
      BY <1>2, <1>3
    <3>3. cursor - c \in 1 .. Min2(cursor, WINDOW_SIZE)
      <4>1. search_start <= c
        BY <1>2 DEF Reachable
      <4> HIDE DEF c
      <4> QED BY <1>2, <1>3, <4>1, Lz77Assumption DEF Min2
    <3> HIDE DEF c
    <3> QED BY <1>4, <3>1, <3>2, <3>3
  <2>2. CASE ~ (Promising(c) /\ Better(length))
    <3>1. best_length' = best_length /\ best_distance' = best_distance
      BY <1>1, <2>2 DEF Consider
    <3> QED BY <1>5, <3>1
  <2> QED BY <2>1, <2>2
<1> HIDE DEF length
<1>7. LTypeOK'
  <2>1. best_length' \in 0 .. MAX_MATCH
    BY <1>3, <1>6, Lz77Assumption
  <2>2. chain_pos' \in Position
    BY <1>1, <1>2 DEF IInv, LTypeOK
  <2>3. chain_count' \in 0 .. MAX_CHAIN_LEN
    BY <1>1, <1>3, Lz77Assumption DEF IInv, LTypeOK, MoreCandidates
  <2>4. visited' \subseteq Nat
    BY <1>1, <1>2, <1>3 DEF IInv, LTypeOK
  <2> QED BY <1>1, <1>6, <2>1, <2>2, <2>3, <2>4 DEF IInv, LTypeOK
<1>8. ChainInv'
  <2>1. Frontier' = Frontier /\ (Chained' => Chained)
    BY <1>1, <1>2 DEF Frontier
  <2> QED BY <1>1, <2>1, ChainsSame DEF IInv
<1>9. max_length' = max_length /\ search_start' = search_start
  BY <1>1 DEF max_length, search_start
<1>10. MatchInv'
  <2>1. Fits(cursor)'
    BY <1>1, SameChunk DEF IInv, MatchInv, Searching
  <2>2. \A p : Byte_at(p)' = Byte_at(p)
    BY <1>1, SameChunk
  <2> QED BY <1>1, <1>6, <1>9, <2>1, <2>2 DEF MatchInv
<1>11. SearchInv'
  <2>1. /\ visited \subseteq Reachable
        /\ \A q \in Reachable \ visited : \A v \in visited : q < v
        /\ \A q \in Reachable \ visited : q <= c
        /\ \A v \in visited : c <= v
        /\ hash(c) = hash(cursor)
    BY <1>1 DEF IInv, SearchInv, Searching, OnWay, MoreCandidates
  <2>2. /\ visited' \subseteq Reachable
        /\ \A q \in Reachable \ visited' : q < c
        /\ \A v \in visited' : c <= v
    <3>1. Reachable \subseteq Nat
      BY <1>3 DEF Reachable
    <3> QED BY <1>1, <1>2, <2>1, <3>1
  <2>3. \A q \in Reachable \ visited' : \A v \in visited' : q < v
    <3>1. Reachable \subseteq Nat
      BY <1>3 DEF Reachable
    <3> QED BY <1>2, <2>2, <3>1
  <2>4. Reachable' = Reachable
    BY <1>1, <1>9, SameChunk DEF Reachable
  <2>5. CASE best_length' = max_length
    <3>1. chain_pos' = c
      BY <1>1, <2>5
    <3>2. OnWay' /\ c < cursor
      BY <1>1, <1>9, <3>1 DEF MoreCandidates, OnWay
    <3>3. hash(chain_pos)' = hash(c) /\ hash(cursor)' = hash(cursor)
      BY <1>1, <3>1, SameChunk
    <3>4. \A q \in Reachable \ visited' : q <= c
      BY <1>1, <2>1
    <3> HIDE DEF c
    <3> QED BY <1>1, <1>9, <2>1, <2>2, <2>3, <2>4, <2>5, <3>1, <3>2, <3>3,
               <3>4 DEF SearchInv
  <2>6. CASE best_length' # max_length
    <3> DEFINE d == prev[c % WINDOW_SIZE]
    <3>1. chain_pos' = d
      BY <1>1, <2>6
    <3>2. IsLast(d, hash(cursor), c)
      BY <1>2
    <3>3. Reachable \ visited' \subseteq Alike(hash(cursor), c)
      <4> SUFFICES ASSUME NEW q \in Reachable \ visited'
                   PROVE  q \in Alike(hash(cursor), c)
        OBVIOUS
      <4>1. q \in Nat /\ q < cursor /\ hash(q) = hash(cursor) /\ q < c
        BY <1>3, <2>2 DEF Reachable
      <4>2. Fits(q)
        <5>1. cursor + MIN_MATCH <= Len(input)
          BY <1>1 DEF IInv, MatchInv, Searching, Fits
        <5> QED BY <1>3, <4>1, <5>1, Lz77Assumption DEF Fits
      <4>3. q \in 0 .. c - 1
        BY <1>2, <4>1
      <4> QED BY <4>1, <4>2, <4>3 DEF Alike
    <3> HIDE DEF d
    <3>4. /\ d # NIL /\ d >= search_start =>
               /\ d \in Alike(hash(cursor), c)
               /\ \A q \in Alike(hash(cursor), c) : q <= d
          /\ ~ (d # NIL /\ d >= search_start) =>
               \A q \in Alike(hash(cursor), c) : q >= search_start =>
                 \E r \in Alike(hash(cursor), c) : r >= q /\ r >= NIL
      <4>1. c \in 0 .. cursor
        BY <1>2, <1>3
      <4> QED BY <3>2, <4>1, LastOrCut DEF IInv
    <3>5. Alike(hash(cursor), c)
            \subseteq {q \in 0 .. cursor - 1 : hash(q) = hash(cursor) /\ q < c}
      <4> HIDE DEF c
      <4> QED BY <1>2, <1>3 DEF Alike
    <3>6. OnWay' <=> d # NIL /\ d >= search_start
      BY <1>9, <3>1 DEF OnWay
    <3>7. ASSUME ~ OnWay', NEW q \in Reachable \ visited'
          PROVE  Cut(q)'
      <4>1. q \in Alike(hash(cursor), c) /\ q \in Nat /\ q >= search_start
        BY <1>3, <3>3 DEF Reachable
      <4>2. PICK r \in Alike(hash(cursor), c) : r >= q /\ r >= NIL
        BY <3>4, <3>6, <3>7, <4>1
      <4>3. r \in 0 .. cursor - 1 /\ hash(r) = hash(cursor)
        BY <3>5
      <4>4. r \in Reachable
        BY <1>3, <4>1, <4>2, <4>3 DEF Reachable
      <4> QED BY <2>4, <4>2, <4>4 DEF Cut
    <3>8. ASSUME OnWay'
          PROVE  /\ d < cursor /\ hash(d) = hash(cursor)
                 /\ \A q \in Reachable \ visited' : q <= d
                 /\ \A v \in visited' : d <= v
                 /\ d \notin visited'
      <4>1. /\ d \in 0 .. cursor - 1 /\ hash(d) = hash(cursor) /\ d < c
            /\ \A q \in Alike(hash(cursor), c) : q <= d
        BY <3>4, <3>5, <3>6, <3>8
      <4>2. visited' \subseteq Nat
        BY <1>7 DEF LTypeOK
      <4>3. \A v \in visited' : d < v
        BY <1>2, <2>2, <4>1, <4>2
      <4> HIDE DEF c
      <4> QED BY <1>3, <3>3, <4>1, <4>2, <4>3
    <3>9. hash(chain_pos)' = hash(d) /\ hash(cursor)' = hash(cursor)
      BY <1>1, <3>1, SameChunk
    <3> HIDE DEF c
    <3> QED BY <1>1, <1>9, <2>2, <2>3, <2>4, <3>1, <3>7, <3>8, <3>9
            DEF SearchInv
  <2> QED BY <2>5, <2>6
<1> QED BY <1>1, <1>7, <1>8, <1>10, <1>11 DEF IInv, HeadInv

LEMMA InsertTypes ==
  ASSUME LTypeOK, Chained, NEW p \in Nat, Fits(p), Insert(p)
  PROVE  /\ head' \in [Hashes -> Position] /\ head' # << >>
         /\ DOMAIN prev' = DOMAIN prev /\ DOMAIN writer_of' = DOMAIN prev'
         /\ \A s \in DOMAIN prev' : prev'[s] \in Position
                                    /\ writer_of'[s] \in Nat
         /\ head_dirty' = head_dirty
<1>1. hash(p) \in Hashes
  BY HashType
<1>2. /\ head \in [Hashes -> Position] /\ head # << >>
      /\ DOMAIN writer_of = DOMAIN prev
      /\ \A s \in DOMAIN prev : prev[s] \in Position
                                /\ writer_of[s] \in Nat
  BY DEF LTypeOK, Chained
<1> DEFINE h == hash(p)
           s0 == p % WINDOW_SIZE
<1>3. /\ prev' = [prev EXCEPT ![s0] = head[h]]
      /\ head' = [head EXCEPT ![h] = as_u32(p)]
      /\ writer_of' = [writer_of EXCEPT ![s0] = p]
      /\ head_dirty' = head_dirty
  BY DEF Insert
<1>4. h \in Hashes
  BY <1>1
<1> HIDE DEF h, s0
<1>5. as_u32(p) \in Position /\ head[h] \in Position
  BY <1>2, <1>4, Kept DEF Position
<1>6. head' \in [Hashes -> Position]
  BY <1>2, <1>3, <1>5
<1>7. head' # << >>
  <2>1. DOMAIN head' = Hashes /\ Hashes # {} /\ DOMAIN << >> = {}
    BY <1>4, <1>6
  <2> QED BY <2>1
<1>8. DOMAIN prev' = DOMAIN prev /\ DOMAIN writer_of' = DOMAIN prev
  BY <1>2, <1>3
<1>9. ASSUME NEW s \in DOMAIN prev
      PROVE  prev'[s] \in Position /\ writer_of'[s] \in Nat
  BY <1>2, <1>3, <1>5, <1>9
<1> QED BY <1>3, <1>6, <1>7, <1>8, <1>9

LEMMA EndSearchInv ==
  ASSUME IInv, EndSearch
  PROVE  IInv'
<1>1. /\ pc = "search" /\ pc' = "insert" /\ ~ MoreCandidates
      /\ Insert(cursor) /\ next' = cursor + 1
      /\ cursor' = cursor /\ input' = input
      /\ best_length' = best_length /\ best_distance' = best_distance
      /\ chain_pos' = chain_pos /\ chain_count' = chain_count
      /\ visited' = visited
  BY DEF EndSearch, search
<1>2. /\ cursor \in Nat /\ Len(input) \in Nat /\ MIN_MATCH \in Nat \ {0}
      /\ cursor + max_length <= Len(input) /\ max_length \in Nat
      /\ search_start \in Nat /\ best_length \in Nat /\ chain_count \in Nat
  BY Numbers, Lz77Assumption DEF IInv
<1>3. Fits(cursor) /\ cursor + MIN_MATCH <= Len(input)
  BY <1>1 DEF IInv, MatchInv, Searching, Fits
<1>4. Chained
  BY <1>1, <1>2, <1>3 DEF Chained
<1>5. LTypeOK'
  BY <1>1, <1>2, <1>3, <1>4, InsertTypes DEF IInv, LTypeOK
<1>6. ChainInv'
  <2>1. Frontier = cursor /\ Frontier' = cursor + 1
    BY <1>1 DEF Frontier
  <2> QED BY <1>1, <1>3, <1>4, <2>1, InsertKeeps DEF IInv
<1>7. max_length' = max_length /\ search_start' = search_start
  BY <1>1 DEF max_length, search_start
<1>8. MatchInv'
  <2>1. Fits(cursor)' /\ \A p : Byte_at(p)' = Byte_at(p)
    BY <1>1, <1>3, SameChunk
  <2>2. /\ best_length <= max_length
        /\ best_length > 0 =>
             /\ best_length >= MIN_MATCH
             /\ best_distance \in 1 .. Min2(cursor, WINDOW_SIZE)
             /\ \A i \in 0 .. best_length - 1 :
                  Byte_at(cursor - best_distance + i) = Byte_at(cursor + i)
    BY <1>1 DEF IInv, MatchInv, Searching
  <2>3. /\ next' \in cursor + 1 .. Len(input)
        /\ next' <= IF Found THEN cursor + best_length ELSE cursor + 1
    BY <1>1, <1>2, <1>3 DEF Found
  <2>4. Found' = Found
    BY <1>1 DEF Found
  <2> QED BY <1>1, <1>7, <2>1, <2>2, <2>3, <2>4 DEF MatchInv
<1>9. SearchInv'
  <2>1. Reachable' = Reachable
    BY <1>1, <1>7, SameChunk DEF Reachable
  <2>2. /\ visited \subseteq Reachable
        /\ \A c \in Reachable \ visited : \A v \in visited : c < v
        /\ ~ OnWay => \A c \in Reachable \ visited : Cut(c)
        /\ OnWay => chain_pos < cursor
    BY <1>1 DEF IInv, SearchInv, Searching
  <2>3. \A c \in Reachable \ visited :
          best_length = max_length \/ chain_count = MAX_CHAIN_LEN \/ Cut(c)
    <3>1. CASE ~ OnWay
      BY <2>2, <3>1
    <3>2. CASE ~ (chain_count < MAX_CHAIN_LEN)
      <4>1. chain_count \in 0 .. MAX_CHAIN_LEN /\ MAX_CHAIN_LEN \in Nat
        BY Lz77Assumption DEF IInv, LTypeOK
      <4> QED BY <3>2, <4>1
    <3> QED BY <1>1, <2>2, <3>1, <3>2 DEF MoreCandidates, OnWay
  <2>4. \A c : Cut(c)' <=> Cut(c)
    BY <2>1 DEF Cut
  <2> QED BY <1>1, <1>7, <2>1, <2>2, <2>3, <2>4 DEF SearchInv
<1> QED BY <1>1, <1>4, <1>5, <1>6, <1>8, <1>9
        DEF IInv, HeadInv, LTypeOK, Chained, Insert

LEMMA InsertNextInv ==
  ASSUME IInv, InsertNext
  PROVE  IInv'
<1>1. /\ pc = "insert" /\ pc' = pc /\ Found /\ next < cursor + best_length
      /\ IF Fits(next) THEN Insert(next) ELSE tables' = tables
      /\ next' = next + 1
      /\ cursor' = cursor /\ input' = input
      /\ best_length' = best_length /\ best_distance' = best_distance
      /\ chain_pos' = chain_pos /\ chain_count' = chain_count
      /\ visited' = visited
  BY DEF InsertNext, search, tables
<1>2. /\ cursor \in Nat /\ Len(input) \in Nat /\ MIN_MATCH \in Nat \ {0}
      /\ cursor + max_length <= Len(input) /\ max_length \in Nat
      /\ best_length \in Nat /\ next \in Nat
  BY Numbers, Lz77Assumption DEF IInv
<1>3. /\ Fits(cursor) /\ cursor + MIN_MATCH <= Len(input)
      /\ best_length <= max_length /\ next \in cursor + 1 .. Len(input)
  BY <1>1 DEF IInv, MatchInv, Searching, Fits
<1>4. Chained
  BY <1>1, <1>2, <1>3 DEF Chained
<1>5. Frontier = next /\ Frontier' = next + 1 /\ Chained' = Chained
  BY <1>1 DEF Frontier, Chained
<1>6. LTypeOK' /\ ChainInv' /\ HeadInv'
  <2>1. CASE Fits(next)
    <3>1. Insert(next)
      BY <1>1, <2>1
    <3>2. LTypeOK'
      BY <1>1, <1>2, <1>4, <2>1, <3>1, InsertTypes DEF IInv, LTypeOK
    <3>3. ChainInv'
      BY <1>1, <1>4, <1>5, <2>1, <3>1, InsertKeeps DEF IInv
    <3>4. HeadInv'
      BY <1>4, <3>1 DEF IInv, HeadInv, LTypeOK, Chained, Insert
    <3> QED BY <3>2, <3>3, <3>4
  <2>2. CASE ~ Fits(next)
    <3>1. /\ tables' = tables /\ head' = head /\ head_dirty' = head_dirty
          /\ prev' = prev /\ writer_of' = writer_of
      BY <1>1, <2>2 DEF tables
    <3>2. LTypeOK'
      BY <1>1, <1>2, <3>1 DEF IInv, LTypeOK
    <3>3. ChainInv'
      BY <1>1, <1>4, <1>5, <2>2, <3>1, NoInsert DEF IInv
    <3> QED BY <3>1, <3>2, <3>3 DEF IInv, HeadInv
  <2> QED BY <2>1, <2>2
<1>7. max_length' = max_length /\ search_start' = search_start
  BY <1>1 DEF max_length, search_start
<1>8. MatchInv'
  <2>1. Fits(cursor)' /\ \A p : Byte_at(p)' = Byte_at(p)
    BY <1>1, <1>3, SameChunk
  <2>2. best_length > 0 =>
          /\ best_length >= MIN_MATCH
          /\ best_distance \in 1 .. Min2(cursor, WINDOW_SIZE)
          /\ \A i \in 0 .. best_length - 1 :
               Byte_at(cursor - best_distance + i) = Byte_at(cursor + i)
    BY <1>1 DEF IInv, MatchInv, Searching
  <2>3. /\ next' \in cursor + 1 .. Len(input)
        /\ next' <= cursor + best_length
    BY <1>1, <1>2, <1>3
  <2>4. Found'
    BY <1>1 DEF Found
  <2> QED BY <1>1, <1>3, <1>7, <2>1, <2>2, <2>3, <2>4 DEF MatchInv
<1>9. SearchInv'
  <2>1. Reachable' = Reachable
    BY <1>1, <1>7, SameChunk DEF Reachable
  <2>2. \A c : Cut(c)' <=> Cut(c)
    BY <2>1 DEF Cut
  <2> QED BY <1>1, <1>7, <2>1, <2>2 DEF IInv, SearchInv, Searching
<1> QED BY <1>6, <1>8, <1>9 DEF IInv

LEMMA TokenInv ==
  ASSUME IInv, Token
  PROVE  IInv'
<1>1. /\ pc = "insert" /\ pc' = "token" /\ input' = input /\ next' = next
      /\ IF Found THEN next = cursor + best_length /\ cursor' = next
                  ELSE cursor' = cursor + 1
      /\ tables' = tables /\ head' = head /\ head_dirty' = head_dirty
      /\ prev' = prev /\ writer_of' = writer_of
      /\ best_length' = best_length /\ best_distance' = best_distance
      /\ chain_pos' = chain_pos /\ chain_count' = chain_count
      /\ visited' = visited
  BY DEF Token, search, tables
<1>2. /\ cursor \in Nat /\ Len(input) \in Nat /\ next \in Nat
      /\ next \in cursor + 1 .. Len(input)
      /\ next <= IF Found THEN cursor + best_length ELSE cursor + 1
  BY <1>1, Numbers DEF IInv, MatchInv, Searching
<1>3. cursor' = next
  <2>1. CASE Found
    BY <1>1, <2>1
  <2>2. CASE ~ Found
    BY <1>1, <1>2, <2>2
  <2> QED BY <2>1, <2>2
<1>4. LTypeOK'
  BY <1>1, <1>2, <1>3 DEF IInv, LTypeOK
<1>5. Frontier' = Frontier /\ (Chained' => Chained)
  BY <1>1, <1>3 DEF Frontier, Chained
<1>6. ChainInv'
  BY <1>1, <1>5, ChainsSame DEF IInv
<1> QED BY <1>1, <1>4, <1>6 DEF IInv, HeadInv, MatchInv, SearchInv, Searching

LEMMA ReturnInv ==
  ASSUME IInv, Return
  PROVE  IInv'
<1>1. /\ pc' = "idle" /\ input' = input /\ cursor' = cursor /\ next' = next
      /\ head' = head /\ head_dirty' = head_dirty
      /\ prev' = prev /\ writer_of' = writer_of
      /\ best_length' = best_length /\ best_distance' = best_distance
      /\ chain_pos' = chain_pos /\ chain_count' = chain_count
      /\ visited' = visited
  BY DEF Return, search, tables
<1>2. LTypeOK'
  BY <1>1 DEF IInv, LTypeOK
<1> QED BY <1>1, <1>2 DEF IInv, HeadInv, ChainInv, Chained, MatchInv,
        SearchInv, Searching

LEMMA StutterInv ==
  ASSUME IInv, UNCHANGED lvars
  PROVE  IInv'
<1>1. /\ pc' = pc /\ input' = input /\ cursor' = cursor /\ next' = next
      /\ tables' = tables /\ head' = head /\ head_dirty' = head_dirty
      /\ prev' = prev /\ writer_of' = writer_of
      /\ best_length' = best_length /\ best_distance' = best_distance
      /\ chain_pos' = chain_pos /\ chain_count' = chain_count
      /\ visited' = visited
  BY DEF lvars, search, tables
<1>2. LTypeOK'
  BY <1>1 DEF IInv, LTypeOK
<1>3. Frontier' = Frontier /\ Chained' = Chained /\ Found' = Found
      /\ Searching' = Searching
  BY <1>1 DEF Frontier, Chained, Found, Searching
<1>4. ChainInv'
  BY <1>1, <1>3, ChainsSame DEF IInv
<1>5. max_length' = max_length /\ search_start' = search_start
  BY <1>1 DEF max_length, search_start
<1>6. MatchInv'
  BY <1>1, <1>3, <1>5, SameChunk DEF IInv, MatchInv
<1>7. SearchInv'
  <2>1. Reachable' = Reachable
    BY <1>1, <1>5, SameChunk DEF Reachable
  <2>2. hash(chain_pos)' = hash(chain_pos) /\ hash(cursor)' = hash(cursor)
    BY <1>1, SameChunk
  <2>3. (OnWay' <=> OnWay) /\ \A c : Cut(c)' <=> Cut(c)
    BY <1>1, <1>5, <2>1 DEF OnWay, Cut
  <2> QED BY <1>1, <1>3, <1>5, <2>1, <2>2, <2>3 DEF IInv, SearchInv
<1> QED BY <1>1, <1>2, <1>4, <1>6, <1>7 DEF IInv, HeadInv

LEMMA InitInv ==
  ASSUME LInit
  PROVE  IInv
<1>1. << >> \in Seq(Byte) /\ Len(<< >>) = 0 /\ DOMAIN << >> = {}
  OBVIOUS
<1>2. LTypeOK
  <2>1. DOMAIN prev = {} /\ DOMAIN writer_of = {}
    BY <1>1 DEF LInit
  <2>2. /\ 0 \in 0 .. Len(input) /\ 0 \in 0 .. MAX_MATCH
        /\ 0 \in 0 .. MAX_CHAIN_LEN /\ input \in Seq(Byte)
    BY <1>1, Lz77Assumption DEF LInit
  <2>3. NIL \in Position
    BY Lz77Assumption DEF Position
  <2> QED BY <2>1, <2>2, <2>3 DEF LInit, LTypeOK
<1> QED BY <1>2 DEF LInit, IInv, HeadInv, ChainInv, Chained, MatchInv,
        SearchInv, Searching

LEMMA NextInv ==
  ASSUME IInv, [LNext]_lvars
  PROVE  IInv'
<1>1. CASE \E bytes \in Inputs : FillSymbols(bytes)
  BY <1>1, FillSymbolsInv
<1>2. CASE Renew
  BY <1>2, RenewInv
<1>3. CASE LStep
  BY <1>3, TailLiteralInv, StartSearchInv, ChainStepInv, EndSearchInv,
     InsertNextInv, TokenInv, ReturnInv DEF LStep
<1>4. CASE UNCHANGED lvars
  BY <1>4, StutterInv
<1> QED BY <1>1, <1>2, <1>3, <1>4 DEF LNext

LEMMA Invariance == LSpec => []IInv
<1>1. LInit => IInv
  BY InitInv
<1>2. IInv /\ [LNext]_lvars => IInv'
  BY NextInv
<1> QED BY <1>1, <1>2, PTL DEF LSpec
-----------------------------------------------------------------------------
(* The types hold for every chunk, every hash function, every window and   *)
(* every number of calls (fill_symbols and reset_history).                 *)
THEOREM Lz77Types == LSpec => []LTypeOK
<1>1. IInv => LTypeOK
  BY DEF IInv
<1> QED BY <1>1, Invariance, PTL

(* "every entry is overwritten before being read": prev needs no reset     *)
(* between calls, and a search never follows a slot that a later position  *)
(* has taken over.                                                         *)
THEOREM SlotsAreFresh == LSpec => []NoStaleRead
<1>1. IInv => NoStaleRead
  BY SlotIsOwn DEF NoStaleRead
<1> QED BY <1>1, Invariance, PTL

(* A search has seen just the positions of its chunk with its hash, or the *)
(* nearest of them, whatever the tables held before the call.  Apart from  *)
(* the chain's limit and the best possible match, only a position that 32  *)
(* bits do not keep ends it early.                                         *)
THEOREM ChainsAreExact == LSpec => []ChainIsExact
<1>1. IInv => ChainIsExact
  BY DEF IInv, SearchInv, Searching, SearchDone, ChainIsExact, Reachable, Cut
<1> QED BY <1>1, Invariance, PTL

(* What the encoder is told of its input is true, match by match: a decoder*)
(* that copies the match gets the bytes the chunk goes on with.            *)
LEMMA MatchIsTrue ==
  ASSUME IInv, pc = "insert", Found
  PROVE  /\ best_length \in MIN_MATCH .. MAX_MATCH
         /\ best_distance \in 1 .. Min2(cursor, WINDOW_SIZE)
         /\ SubSeq(input, cursor + 1, cursor + best_length)
              = Repeated(SubSeq(input, 1, cursor), best_distance, best_length)
<1> DEFINE n == best_length
           d == best_distance
           s == SubSeq(input, cursor + 1, cursor + n)
           o == SubSeq(input, 1, cursor)
<1>1. /\ cursor \in Nat /\ Len(input) \in Nat /\ max_length \in Nat
      /\ max_length <= MAX_MATCH /\ cursor + max_length <= Len(input)
      /\ n \in Nat /\ cursor <= Len(input) /\ MIN_MATCH \in Nat \ {0}
      /\ MAX_MATCH \in Nat /\ WINDOW_SIZE \in Nat \ {0}
  BY Numbers, Lz77Assumption DEF IInv
<1>2. /\ n >= MIN_MATCH /\ n <= max_length
      /\ d \in 1 .. Min2(cursor, WINDOW_SIZE)
      /\ \A i \in 0 .. n - 1 : Byte_at(cursor - d + i) = Byte_at(cursor + i)
  BY <1>1 DEF IInv, MatchInv, Searching, Found
<1>3. n \in MIN_MATCH .. MAX_MATCH
  BY <1>1, <1>2
<1>4. d \in Nat \ {0} /\ d <= cursor
  BY <1>1, <1>2 DEF Min2
<1>5. \A i \in 1 .. n :
         input[cursor + i] = input[cursor - d + 1 + ((i - 1) % d)]
  <2>1. ASSUME NEW p \in cursor + 1 .. cursor + n
        PROVE  input[p] = input[p - d]
    <3>1. /\ p - cursor - 1 \in 0 .. n - 1
          /\ cursor + (p - cursor - 1) + 1 = p
          /\ cursor - d + (p - cursor - 1) + 1 = p - d
      BY <1>1, <1>4
    <3> QED BY <1>2, <3>1 DEF Byte_at
  <2>2. d \in 1 .. cursor
    BY <1>1, <1>4
  <2> HIDE DEF n, d
  <2>3. cursor \in Nat /\ n \in Nat
    BY <1>1
  <2> QED BY <2>1, <2>2, <2>3, Period
<1>6. input \in Seq(Byte)
  BY DEF IInv, LTypeOK
<1>7. /\ Len(o) = cursor
      /\ \A i \in 1 .. cursor : o[i] = input[i]
  BY <1>1, <1>6, TakeProperties
<1>8. /\ s = [i \in 1 .. n |-> input[cursor + i]]
  <2>1. cursor + n - (cursor + 1) + 1 = n
    BY <1>1
  <2>2. cursor + 1 \in 1 .. Len(input) + 1 /\ cursor + n \in cursor .. Len(input)
    BY <1>1, <1>2
  <2>3. /\ s \in Seq(Byte) /\ Len(s) = n
        /\ \A i \in 1 .. n : s[i] = input[cursor + i]
    BY <1>1, <1>6, <2>1, <2>2, SubSeqProperties
  <2> HIDE DEF s
  <2>4. DOMAIN s = 1 .. n /\ s = [i \in DOMAIN s |-> s[i]]
    BY <2>3
  <2> QED BY <2>3, <2>4
<1> HIDE DEF s, o
<1>9. ASSUME NEW i \in 1 .. n
      PROVE  input[cursor + i] = o[Len(o) - d + 1 + ((i - 1) % d)]
  <2> DEFINE r == (i - 1) % d
  <2>1. r \in 0 .. d - 1
    <3>1. i - 1 \in Nat
      BY <1>1
    <3> QED BY <1>4, <3>1, Division
  <2>2. input[cursor + i] = input[cursor - d + 1 + r]
    BY <1>5
  <2> HIDE DEF r
  <2>3. cursor - d + 1 + r \in 1 .. cursor
    BY <1>1, <1>4, <2>1
  <2> QED BY <1>7, <2>2, <2>3 DEF r
<1>10. s = Repeated(o, d, n)
  BY <1>8, <1>9 DEF Repeated
<1> QED BY <1>2, <1>3, <1>10 DEF s, o

(* Every token that is written says what the chunk goes on with, whatever  *)
(* the hash function: a collision costs a comparison and never a byte.     *)
THEOREM TokensTellTheInput == LSpec => TokensAreTrue
<1> DEFINE Step ==
      cursor' > cursor =>
       \/ /\ cursor' = cursor + 1
          /\ symbols' = <<"literal", Byte_at(cursor)>>
       \/ \E length \in MIN_MATCH .. MAX_MATCH,
             distance \in 1 .. Min2(cursor, WINDOW_SIZE) :
            /\ cursor' = cursor + length
            /\ symbols' = <<"pointer", length, distance>>
            /\ SubSeq(input, cursor + 1, cursor + length)
                 = Repeated(SubSeq(input, 1, cursor), distance, length)
<1>1. ASSUME IInv, LNext PROVE Step
  <2>0. cursor \in Nat
    BY <1>1, Numbers DEF IInv
  <2>1. CASE \E bytes \in Inputs : FillSymbols(bytes)
    BY <2>0, <2>1 DEF FillSymbols
  <2>2. CASE TailLiteral
    BY <2>2 DEF TailLiteral
  <2>3. CASE Token
    <3>1. CASE Found
      <4>1. cursor' = cursor + best_length
            /\ symbols' = <<"pointer", best_length, best_distance>>
            /\ pc = "insert"
        BY <2>3, <3>1 DEF Token
      <4> QED BY <1>1, <3>1, <4>1, MatchIsTrue
    <3>2. CASE ~ Found
      BY <2>3, <3>2 DEF Token
    <3> QED BY <3>1, <3>2
  <2>4. CASE Renew \/ StartSearch \/ ChainStep \/ EndSearch \/ InsertNext
             \/ Return
    <3>1. cursor' = cursor
      BY <2>4 DEF Renew, StartSearch, ChainStep, EndSearch, InsertNext, Return
    <3> QED BY <2>0, <3>1
  <2> QED BY <1>1, <2>1, <2>2, <2>3, <2>4 DEF LNext, LStep
<1>2. ASSUME IInv, [LNext]_lvars PROVE [Step]_lvars
  BY <1>1, <1>2
<1>3. LSpec => [][Step]_lvars
  BY <1>2, Invariance, PTL DEF LSpec
<1> QED BY <1>3 DEF TokensAreTrue
-----------------------------------------------------------------------------
(* How far a candidate agrees with the place the search is for: it is what *)
(* the comparison returns, when it is made.                                *)
LEMMA AgreementProperties ==
  ASSUME LTypeOK, NEW c \in 0 .. cursor
  PROVE  /\ Agreement(c) \in 0 .. max_length
         /\ \A i \in 0 .. Agreement(c) - 1 : Byte_at(c + i) = Byte_at(cursor + i)
         /\ Agreement(c) = longest_common_prefix(c, cursor, max_length)
<1>1. cursor \in Nat /\ Len(input) \in Nat /\ max_length \in Nat
      /\ cursor <= Len(input)
  BY Numbers
<1>2. Min2(max_length, Len(input) - cursor) = max_length
  BY <1>1, Numbers DEF Min2
<1>3. Agreement(c) = longest_common_prefix(c, cursor, max_length)
  BY <1>2 DEF Agreement, longest_common_prefix
<1>4. LET n == longest_common_prefix(c, cursor, max_length) IN
      /\ n \in Nat /\ n <= max_length
      /\ \A i \in 0 .. n - 1 : Byte_at(c + i) = Byte_at(cursor + i)
  BY <1>1, Prefix
<1> QED BY <1>1, <1>3, <1>4

LEMMA SameAgreement ==
  ASSUME input' = input, cursor' = cursor
  PROVE  \A c : Agreement(c)' = Agreement(c)
<1>1. max_length' = max_length
  BY DEF max_length
<1> QED BY <1>1 DEF Agreement, Byte_at

(* No candidate that has been looked at is better than the best.           *)
IsBest(length, distance, seen) ==
  /\ length > 0 => /\ cursor - distance \in seen
                   /\ Agreement(cursor - distance) = length
  /\ \A c \in seen :
       Agreement(c) >= MIN_MATCH =>
         \/ Agreement(c) < length
         \/ Agreement(c) = length /\ cursor - c >= distance

BestInv == Searching => IsBest(best_length, best_distance, visited)

LEMMA BestChainStep ==
  ASSUME IInv, BestInv, ChainStep
  PROVE  BestInv'
<1> DEFINE c == chain_pos
           length == Agreement(c)
<1>1. /\ pc = "search" /\ MoreCandidates /\ Consider(c)
      /\ visited' = visited \cup {c} /\ cursor' = cursor /\ input' = input
  BY DEF ChainStep
<1>2. /\ c \in 0 .. cursor - 1 /\ cursor \in Nat /\ max_length \in Nat
      /\ best_length \in Nat /\ best_distance \in Nat /\ MIN_MATCH \in Nat \ {0}
  BY <1>1, SlotIsOwn, Numbers, Lz77Assumption DEF IInv, LTypeOK
<1>3. /\ visited \subseteq 0 .. cursor - 1
      /\ \A v \in visited : c <= v
  <2>1. visited \subseteq Reachable /\ \A v \in visited : c <= v
    BY <1>1 DEF IInv, SearchInv, Searching, OnWay, MoreCandidates
  <2>2. Reachable \subseteq 0 .. cursor - 1
    BY <1>2, Numbers DEF IInv, Reachable
  <2> QED BY <2>1, <2>2
<1>4. \A v \in visited \cup {c} : Agreement(v) \in Nat
  <2>1. \A v \in visited \cup {c} : v \in 0 .. cursor
    BY <1>2, <1>3
  <2> QED BY <1>2, <2>1, AgreementProperties DEF IInv
<1>5. /\ length \in Nat
      /\ \A i \in 0 .. length - 1 : Byte_at(c + i) = Byte_at(cursor + i)
      /\ length = longest_common_prefix(c, cursor, max_length)
  <2>1. c \in 0 .. cursor
    BY <1>2
  <2> QED BY <1>2, <2>1, AgreementProperties DEF IInv
<1>6. IsBest(best_length, best_distance, visited)
  BY <1>1 DEF BestInv, Searching
<1>7. IsBest(best_length', best_distance', visited \cup {c})
  <2>1. CASE Promising(c) /\ Better(length)
    <3>1. best_length' = length /\ best_distance' = cursor - c
          /\ length > best_length
      BY <1>1, <1>5, <2>1 DEF Consider, Better
    <3>2. cursor - (cursor - c) = c
      BY <1>2
    <3>3. \A v \in visited : Agreement(v) >= MIN_MATCH => Agreement(v) < length
      BY <1>2, <1>4, <1>5, <1>6, <3>1 DEF IsBest
    <3> QED BY <1>2, <1>5, <3>1, <3>2, <3>3 DEF IsBest
  <2>2. CASE ~ (Promising(c) /\ Better(length))
    <3>1. best_length' = best_length /\ best_distance' = best_distance
      BY <1>1, <1>5, <2>2 DEF Consider
    <3>2. ASSUME length >= MIN_MATCH
          PROVE  length <= best_length
      <4>1. CASE Promising(c)
        BY <1>2, <1>5, <2>2, <3>2, <4>1 DEF Better
      <4>2. CASE ~ Promising(c)
        <5>1. Byte_at(c) = Byte_at(cursor)
          <6>1. 0 \in 0 .. length - 1 /\ c + 0 = c /\ cursor + 0 = cursor
            BY <1>2, <1>5, <3>2
          <6> QED BY <1>5, <6>1
        <5>2. Byte_at(c + best_length) # Byte_at(cursor + best_length)
          BY <4>2, <5>1 DEF Promising
        <5> QED BY <1>2, <1>5, <5>2
      <4> QED BY <4>1, <4>2
    <3>3. ASSUME length >= MIN_MATCH, length = best_length
          PROVE  cursor - c >= best_distance
      <4>1. cursor - best_distance \in visited
        BY <1>2, <3>3, <1>6 DEF IsBest
      <4>2. c <= cursor - best_distance
        BY <1>3, <4>1
      <4> QED BY <1>2, <4>2
    <3> HIDE DEF length
    <3>4. length >= MIN_MATCH =>
            \/ length < best_length
            \/ length = best_length /\ cursor - c >= best_distance
      BY <1>2, <1>5, <3>2, <3>3
    <3> QED BY <1>6, <3>1, <3>4 DEF IsBest, length
  <2> QED BY <2>1, <2>2
<1>8. IsBest(best_length, best_distance, visited)'
  BY <1>1, <1>7, SameAgreement DEF IsBest
<1> QED BY <1>8 DEF BestInv

LEMMA BestNext ==
  ASSUME IInv, BestInv, [LNext]_lvars
  PROVE  BestInv'
<1>1. CASE ChainStep
  BY <1>1, BestChainStep
<1>2. CASE StartSearch
  <2>1. best_length' = 0 /\ visited' = {}
    BY <1>2 DEF StartSearch
  <2> QED BY <2>1 DEF BestInv, IsBest
<1>3. CASE EndSearch \/ InsertNext \/ UNCHANGED lvars
  <2>1. /\ best_length' = best_length /\ best_distance' = best_distance
        /\ visited' = visited /\ input' = input /\ cursor' = cursor
        /\ (Searching' => Searching)
    BY <1>3 DEF EndSearch, InsertNext, lvars, search, Searching
  <2> QED BY <2>1, SameAgreement DEF BestInv, IsBest
<1>4. CASE (\E bytes \in Inputs : FillSymbols(bytes)) \/ Renew \/ TailLiteral
             \/ Token \/ Return
  <2>1. ~ Searching'
    BY <1>4 DEF FillSymbols, Renew, TailLiteral, Token, Return, Searching
  <2> QED BY <2>1 DEF BestInv
<1> QED BY <1>1, <1>2, <1>3, <1>4 DEF LNext, LStep

(* The search ends with the longest match its candidates offer, and of     *)
(* those the nearest: what the two tests leave out, the bytes on either    *)
(* side of the match so far and the early end, was no better.              *)
THEOREM MatchIsLongest == LSpec => []LongestIsFound
<1>1. LInit => BestInv
  BY DEF LInit, BestInv, Searching
<1>2. IInv /\ BestInv /\ [LNext]_lvars => BestInv'
  BY BestNext
<1>3. IInv /\ BestInv => LongestIsFound
  <2> SUFFICES ASSUME BestInv, SearchDone, IInv PROVE LongestIsFound
    BY DEF LongestIsFound
  <2>1. Found => best_length > 0
    BY Numbers, Lz77Assumption DEF Found, IInv
  <2> QED BY <2>1 DEF BestInv, IsBest, Searching, SearchDone, LongestIsFound
<1> QED BY <1>1, <1>2, <1>3, Invariance, PTL DEF LSpec
=============================================================================
