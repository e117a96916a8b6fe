----------------------------- MODULE PartsProofs -----------------------------
(***************************************************************************)
(* Proofs, for every value of the constants, about the small parts: the    *)
(* output buffer of the containers is a queue whose memory follows what is *)
(* unread, the copying loop appends the match, no addition of the Adler-32 *)
(* checksum wraps and its sums are exact, the formats are told apart by    *)
(* two bytes, and the tables of the CRC-32 checksum give its register.     *)
(***************************************************************************)
EXTENDS CopyMatch, Adler32, Crc32, Buf, Format, DataLemmas, FiniteSetTheorems

(* The output buffer.                                                      *)
BufInv == BTypeOK /\ MemoryFollowsUnread

(* What get returns, as the two operations see it.                         *)
LEMMA GetIs ==
  ASSUME BTypeOK
  PROVE  /\ get \in Seq(Octet) /\ Len(get) = Len(bytes) - offset
         /\ Len(bytes) \in Nat
<1>1. bytes \in Seq(Octet) /\ offset \in 0 .. Len(bytes)
  BY DEF BTypeOK
<1>2. get \in Seq(Octet) /\ Len(get) = Len(bytes) - offset
  BY <1>1, DropProperties DEF get
<1> QED BY <1>1, <1>2, LenProperties

LEMMA FeedKeeps ==
  ASSUME BufInv, NEW buf \in Pieces, feed(buf)
  PROVE  BufInv' /\ Queue!Put(buf)
<1> DEFINE all == bytes \o buf
<1>1. /\ bytes \in Seq(Octet) /\ offset \in 0 .. Len(bytes) /\ most \in Nat
      /\ Len(bytes) - offset <= most /\ MemoryFollowsUnread
      /\ COMPACT_THRESHOLD \in Nat /\ buf \in Seq(Octet)
  BY BufAssumption DEF BufInv, BTypeOK
<1>2. all \in Seq(Octet) /\ Len(all) = Len(bytes) + Len(buf)
  BY <1>1, ConcatProperties
<1>3. Len(bytes) \in Nat /\ Len(buf) \in Nat /\ offset \in 0 .. Len(all)
  BY <1>1, <1>2, LenProperties
<1>4. SubSeq(all, offset + 1, Len(all)) = get \o buf
  BY <1>1, DropOfConcat DEF get
<1>5. /\ SubSeq(all, offset + 1, Len(all)) \in Seq(Octet)
      /\ Len(SubSeq(all, offset + 1, Len(all))) = Len(all) - offset
  BY <1>2, <1>3, DropProperties
<1> HIDE DEF all
<1>6. /\ IF Len(all) > COMPACT_THRESHOLD /\ offset > 0
           THEN bytes' = SubSeq(all, offset + 1, Len(all)) /\ offset' = 0
           ELSE bytes' = all /\ offset' = offset
      /\ most' = IF Len(all) - offset > most THEN Len(all) - offset ELSE most
      /\ last' = <<"put", buf>>
  BY DEF feed, maybe_compact, Unread, all
<1>7. get' = get \o buf
  <2>1. CASE Len(all) > COMPACT_THRESHOLD /\ offset > 0
    <3>1. get' = SubSeq(bytes', 1, Len(bytes'))
      BY <1>6, <2>1 DEF get
    <3>2. bytes' \in Seq(Octet)
      BY <1>5, <1>6, <2>1
    <3> QED BY <1>4, <1>6, <2>1, <3>1, <3>2, SubSeqFull
  <2>2. CASE ~ (Len(all) > COMPACT_THRESHOLD /\ offset > 0)
    BY <1>4, <1>6, <2>2 DEF get
  <2> QED BY <2>1, <2>2
<1>8. BTypeOK'
  <2>1. CASE Len(all) > COMPACT_THRESHOLD /\ offset > 0
    <3>1. /\ bytes' \in Seq(Octet) /\ offset' = 0
          /\ Len(bytes') = Len(all) - offset
      BY <1>5, <1>6, <2>1
    <3>2. most' \in Nat /\ Len(all) - offset <= most' /\ Len(all) - offset \in Nat
      BY <1>1, <1>2, <1>3, <1>6
    <3> QED BY <3>1, <3>2 DEF BTypeOK
  <2>2. CASE ~ (Len(all) > COMPACT_THRESHOLD /\ offset > 0)
    <3>1. bytes' = all /\ offset' = offset
      BY <1>6, <2>2
    <3>2. most' \in Nat /\ Len(all) - offset <= most'
      BY <1>1, <1>2, <1>3, <1>6
    <3> QED BY <1>2, <1>3, <3>1, <3>2 DEF BTypeOK
  <2> QED BY <2>1, <2>2
<1>9. MemoryFollowsUnread'
  <2>1. CASE Len(all) > COMPACT_THRESHOLD /\ offset > 0
    BY <1>1, <1>2, <1>3, <1>5, <1>6, <2>1 DEF MemoryFollowsUnread
  <2>2. CASE Len(all) <= COMPACT_THRESHOLD
    BY <1>1, <1>2, <1>3, <1>6, <2>2 DEF MemoryFollowsUnread
  <2>3. CASE offset = 0
    BY <1>1, <1>2, <1>3, <1>6, <2>3 DEF MemoryFollowsUnread
  <2> QED BY <1>1, <1>2, <1>3, <2>1, <2>2, <2>3
<1> QED BY <1>6, <1>7, <1>8, <1>9 DEF BufInv, Queue!Put

LEMMA AdvanceKeeps ==
  ASSUME BufInv, NEW n \in Nat, advance(n)
  PROVE  BufInv' /\ n \in 0 .. Len(get) /\ Queue!Take(n)
<1>1. /\ bytes \in Seq(Octet) /\ offset \in 0 .. Len(bytes) /\ most \in Nat
      /\ Len(bytes) - offset <= most /\ MemoryFollowsUnread
      /\ offset + n <= Len(bytes) /\ last' = <<"take", n>> /\ most' = most
  BY DEF BufInv, BTypeOK, advance
<1>2. Len(bytes) \in Nat /\ Len(get) = Len(bytes) - offset
  BY GetIs DEF BufInv
<1>3. n \in 0 .. Len(get) /\ n \in 0 .. Len(bytes) - offset
  BY <1>1, <1>2
<1>4. SubSeq(get, n + 1, Len(get)) = SubSeq(bytes, offset + n + 1, Len(bytes))
  BY <1>1, <1>2, <1>3, DropOfDrop DEF get
<1>5. CASE offset + n = Len(bytes)
  <2>1. offset' = 0 /\ bytes' = << >>
    BY <1>5 DEF advance
  <2>2. get' = << >>
    BY <2>1, SubSeqEmpty, EmptySeq DEF get
  <2>3. SubSeq(bytes, offset + n + 1, Len(bytes)) = << >>
    BY <1>1, <1>2, <1>5, SubSeqEmpty
  <2>4. BTypeOK' /\ MemoryFollowsUnread'
    BY <1>1, <1>2, <2>1, BufAssumption, EmptySeq DEF BTypeOK, MemoryFollowsUnread
  <2> QED BY <1>1, <1>3, <1>4, <2>2, <2>3, <2>4 DEF BufInv, Queue!Take
<1>6. CASE offset + n # Len(bytes)
  <2>1. offset' = offset + n /\ bytes' = bytes
    BY <1>6 DEF advance
  <2>2. get' = SubSeq(bytes, offset + n + 1, Len(bytes))
    BY <2>1 DEF get
  <2>3. BTypeOK' /\ MemoryFollowsUnread'
    BY <1>1, <1>2, <2>1 DEF BTypeOK, MemoryFollowsUnread
  <2> QED BY <1>1, <1>3, <1>4, <2>2, <2>3 DEF BufInv, Queue!Take
<1> QED BY <1>5, <1>6

LEMMA BufInvInit == BInit => BufInv /\ Queue!QInit
<1>1. ASSUME BInit PROVE BufInv
  BY <1>1, BufAssumption, EmptySeq DEF BInit, BufInv, BTypeOK, MemoryFollowsUnread
<1>2. ASSUME BInit PROVE Queue!QInit
  BY <1>2, SubSeqEmpty, EmptySeq DEF BInit, Queue!QInit, get
<1> QED BY <1>1, <1>2

LEMMA BufInvStep ==
  BufInv /\ [BNext]_bvars => BufInv' /\ [Queue!QNext]_<<get, last>>
<1> SUFFICES ASSUME BufInv, [BNext]_bvars
             PROVE  BufInv' /\ [Queue!QNext]_<<get, last>>
  OBVIOUS
<1>1. ASSUME NEW buf \in Pieces, feed(buf)
      PROVE  BufInv' /\ Queue!QNext
  BY <1>1, FeedKeeps DEF Queue!QNext
<1>2. ASSUME NEW n \in 0 .. MaxUnread, advance(n)
      PROVE  BufInv' /\ Queue!QNext
  <2>1. n \in Nat
    BY BufAssumption
  <2> QED BY <1>2, <2>1, AdvanceKeeps DEF Queue!QNext
<1>3. CASE UNCHANGED bvars
  BY <1>3 DEF bvars, BufInv, BTypeOK, MemoryFollowsUnread, get
<1> QED BY <1>1, <1>2, <1>3 DEF BNext

LEMMA BufInvariance == BSpec => []BufInv
<1>1. BInit => BufInv
  BY BufInvInit
<1>2. BufInv /\ [BNext]_bvars => BufInv'
  BY BufInvStep
<1> QED BY <1>1, <1>2, PTL DEF BSpec

(* However much was fed and read, the buffer holds no more than the        *)
(* threshold or than the most that ever was unread.                        *)
THEOREM BufMemoryFollowsUnread == BSpec => []MemoryFollowsUnread
<1>1. BufInv => MemoryFollowsUnread
  BY DEF BufInv
<1> QED BY <1>1, BufInvariance, PTL

(* The buffer implements the queue: compaction is never seen.              *)
THEOREM BufImplementsQueue == BSpec => ImplementsQueue
<1>1. BInit => Queue!QInit
  BY BufInvInit
<1>2. BufInv /\ [BNext]_bvars => [Queue!QNext]_<<get, last>>
  BY BufInvStep
<1> QED BY <1>1, <1>2, BufInvariance, PTL
        DEF BSpec, ImplementsQueue, Queue!QSpec
-----------------------------------------------------------------------------
(* The copy of a match.                                                    *)
(*                                                                         *)
(* That each byte appended so far is the one `distance' before it is not   *)
(* inductive: the next piece is copied from the start of the tail, further *)
(* back than `distance'.  What connects the two is that a piece that is    *)
(* not the last ends with the same `distance' bytes as the tail begins     *)
(* with.                                                                   *)

(* The first k bytes behind those given are as they should be.             *)
Copied(k) ==
  /\ Len(output) = Len(given) + k
  /\ \A p \in 1 .. Len(given) : output[p] = given[p]
  /\ \A p \in Len(given) + 1 .. Len(given) + k :
       output[p] = output[p - distance]

(* The buffer ends in the `distance' bytes that the tail begins with.      *)
TailRepeats ==
  \A q \in 1 .. distance :
    output[Len(output) - distance + q] = output[Len(given) - distance + q]

MInv ==
  /\ given \in Seq(Byte) /\ output \in Seq(Byte)
  /\ distance \in Nat /\ length \in Nat /\ emitted \in Nat
  /\ at \in {"start", "loop", "ok", "err"}
  /\ at = "start" => output = given /\ emitted = 0
  /\ at = "loop" => /\ distance \in 1 .. Len(given)
                    /\ emitted <= length
                    /\ Copied(emitted)
                    /\ emitted < length => TailRepeats
  /\ at = "ok" => /\ distance \in 1 .. Len(given)
                  /\ Copied(length)
  /\ at = "err" => output = given /\ distance \notin 1 .. Len(given)
-----------------------------------------------------------------------------
(* What extend_from_within appends, byte by byte.                          *)
LEMMA Extended ==
  ASSUME NEW first \in Nat, NEW k \in Nat,
         output \in Seq(Byte), first + k <= Len(output)
  PROVE  LET new == extend_from_within(first, k) IN
         /\ new \in Seq(Byte)
         /\ Len(new) = Len(output) + k
         /\ \A p \in 1 .. Len(output) : new[p] = output[p]
         /\ \A q \in 1 .. k : new[Len(output) + q] = output[first + q]
<1> DEFINE piece == SubSeq(output, first + 1, first + k)
<1>1. /\ piece \in Seq(Byte) /\ Len(piece) = k
      /\ \A q \in 1 .. k : piece[q] = output[first + q]
  OBVIOUS
<1> HIDE DEF piece
<1>2. /\ output \o piece \in Seq(Byte)
      /\ Len(output \o piece) = Len(output) + k
      /\ \A p \in 1 .. Len(output) : (output \o piece)[p] = output[p]
      /\ \A q \in 1 .. k : (output \o piece)[Len(output) + q] = piece[q]
  BY <1>1
<1> QED BY <1>1, <1>2 DEF extend_from_within, piece

LEMMA MatchInvInit == MInit => MInv
<1> QED BY CopyMatchAssumption DEF MInit, MInv

LEMMA CopyApartKeeps == MInv /\ CopyApart => MInv'
<1> SUFFICES ASSUME MInv, CopyApart PROVE MInv'
  OBVIOUS
<1> DEFINE first == Len(output) - distance
<1>1. /\ output = given /\ output \in Seq(Byte) /\ length \in Nat
      /\ distance \in 1 .. Len(output) /\ length <= distance
      /\ UNCHANGED <<given, distance, length, emitted>>
      /\ at' = "ok" /\ output' = extend_from_within(first, length)
  BY DEF MInv, CopyApart, InRange
<1>2. first \in Nat /\ first + length <= Len(output)
  BY <1>1
<1> HIDE DEF first
<1>3. /\ output' \in Seq(Byte) /\ Len(output') = Len(output) + length
      /\ \A p \in 1 .. Len(output) : output'[p] = output[p]
      /\ \A q \in 1 .. length :
           output'[Len(output) + q] = output[first + q]
  BY <1>1, <1>2, Extended
<1>4. ASSUME NEW p \in Len(given) + 1 .. Len(given) + length
      PROVE  output'[p] = output'[p - distance]
  <2>1. p - Len(output) \in 1 .. length /\ p - distance \in 1 .. Len(output)
        /\ p = Len(output) + (p - Len(output))
        /\ first + (p - Len(output)) = p - distance
    BY <1>1 DEF first
  <2> QED BY <1>3, <2>1
<1>5. Copied(length)'
  BY <1>1, <1>3, <1>4 DEF Copied
<1> QED BY <1>1, <1>3, <1>5 DEF MInv

LEMMA IterateKeeps == MInv /\ Iterate => MInv'
<1> SUFFICES ASSUME MInv, Iterate PROVE MInv'
  OBVIOUS
<1> DEFINE n == Len(given)
           e == emitted
           t == take
           first == Len(output) - tail_len
<1>1. /\ given \in Seq(Byte) /\ output \in Seq(Byte)
      /\ n \in Nat /\ distance \in 1 .. n /\ length \in Nat /\ e \in Nat
      /\ e < length /\ Copied(e) /\ TailRepeats
      /\ at = "loop" /\ at' = "loop"
      /\ given' = given /\ distance' = distance /\ length' = length
  BY DEF MInv, Iterate
<1>2. output' = extend_from_within(first, t) /\ emitted' = e + t
  BY DEF Iterate
<1>3. /\ t \in Nat /\ t <= distance + e /\ e + t <= length
      /\ e + t < length => t = distance + e
      /\ Len(output) = n + e
      /\ first = n - distance /\ first \in Nat /\ first + t <= Len(output)
  BY <1>1 DEF take, tail_len, Min2, Copied
<1> HIDE DEF n, e, t, first
<1>4. /\ output' \in Seq(Byte) /\ Len(output') = n + e + t
      /\ \A p \in 1 .. n + e : output'[p] = output[p]
      /\ \A q \in 1 .. t : output'[n + e + q] = output[n - distance + q]
  <2>1. LET new == extend_from_within(first, t) IN
        /\ new \in Seq(Byte) /\ Len(new) = Len(output) + t
        /\ \A p \in 1 .. Len(output) : new[p] = output[p]
        /\ \A q \in 1 .. t : new[Len(output) + q] = output[first + q]
    BY <1>1, <1>3, Extended
  <2>2. /\ output' \in Seq(Byte) /\ Len(output') = Len(output) + t
        /\ \A p \in 1 .. Len(output) : output'[p] = output[p]
        /\ \A q \in 1 .. t : output'[Len(output) + q] = output[first + q]
    BY <1>2, <2>1
  <2> QED BY <1>3, <2>2
<1>5. /\ \A p \in 1 .. n : output[p] = given[p]
      /\ \A p \in n + 1 .. n + e : output[p] = output[p - distance]
      /\ \A q \in 1 .. distance :
           output[(n + e) - distance + q] = output[n - distance + q]
  <2>1. Copied(e) /\ TailRepeats
    BY <1>1
  <2>2. /\ \A p \in 1 .. n : output[p] = given[p]
        /\ \A p \in n + 1 .. n + e : output[p] = output[p - distance]
    BY <2>1 DEF Copied, n
  <2>3. \A q \in 1 .. distance :
           output[(n + e) - distance + q] = output[n - distance + q]
    BY <1>3, <2>1 DEF TailRepeats, n
  <2> QED BY <2>2, <2>3
(* A byte of the piece is one of the tail's first `distance' bytes, which  *)
(* TailRepeats finds `distance' before it, or has the one before it in the *)
(* piece itself.                                                           *)
<1>6. ASSUME NEW q \in 1 .. t
      PROVE  output'[n + e + q] = output'[(n + e + q) - distance]
  <2>1. output'[n + e + q] = output[n - distance + q]
    BY <1>4
  <2>2. CASE q <= distance
    <3>1. /\ q \in 1 .. distance
          /\ (n + e) - distance + q \in 1 .. n + e
          /\ (n + e + q) - distance = (n + e) - distance + q
      BY <1>1, <1>3, <2>2
    <3> QED BY <1>4, <1>5, <2>1, <3>1
  <2>3. CASE q > distance
    <3> DEFINE k == q - distance
    <3>1. /\ k \in 1 .. t
          /\ (n + e + q) - distance = n + e + k
          /\ n - distance + q = n + k
          /\ n + k \in n + 1 .. n + e
          /\ (n + k) - distance = n - distance + k
      BY <1>1, <1>3, <2>3
    <3>2. output'[n + e + k] = output[n - distance + k]
      BY <1>4, <3>1
    <3> HIDE DEF k
    <3>3. output[n + k] = output[(n + k) - distance]
      BY <1>5, <3>1
    <3>4. output[n + k] = output[n - distance + k]
      BY <3>1, <3>3
    <3> QED BY <2>1, <3>1, <3>2, <3>4
  <2> QED BY <1>1, <1>3, <2>2, <2>3
<1>7. Copied(emitted)'
  <2>1. \A p \in 1 .. n : output'[p] = given[p]
    BY <1>1, <1>4, <1>5
  <2>2. ASSUME NEW p \in n + 1 .. n + e + t
        PROVE  output'[p] = output'[p - distance]
    <3>1. CASE p <= n + e
      <4>1. p \in n + 1 .. n + e /\ p \in 1 .. n + e
            /\ p - distance \in 1 .. n + e
        BY <1>1, <1>3, <3>1
      <4> QED BY <1>4, <1>5, <4>1
    <3>2. CASE p > n + e
      <4> DEFINE q == p - (n + e)
      <4>1. q \in 1 .. t /\ p = n + e + q
        BY <1>1, <1>3, <3>2
      <4> HIDE DEF q
      <4>2. output'[n + e + q] = output'[(n + e + q) - distance]
        BY <1>6, <4>1
      <4> QED BY <1>1, <1>3, <4>1, <4>2
    <3> QED BY <1>1, <1>3, <3>1, <3>2
  <2> QED BY <1>1, <1>2, <1>3, <1>4, <2>1, <2>2 DEF Copied, n
<1>8. ASSUME e + t < length
      PROVE  TailRepeats'
  <2>1. ASSUME NEW q \in 1 .. distance
        PROVE  output'[(n + e + t) - distance + q] = output'[n - distance + q]
    <3>1. /\ e + q \in 1 .. t
          /\ (n + e + t) - distance + q = n + e + (e + q)
          /\ n - distance + (e + q) = (n + e) - distance + q
          /\ n - distance + q \in 1 .. n + e
      BY <1>1, <1>3, <1>8
    <3>2. output'[n + e + (e + q)] = output[n - distance + (e + q)]
      BY <1>4, <3>1
    <3> QED BY <1>4, <1>5, <3>1, <3>2
  <2>2. \A q \in 1 .. distance :
           output'[Len(output') - distance + q]
             = output'[Len(given) - distance + q]
    BY <1>4, <2>1 DEF n
  <2> QED BY <1>1, <2>2 DEF TailRepeats
<1> QED BY <1>1, <1>2, <1>3, <1>4, <1>7, <1>8 DEF MInv, n

LEMMA MatchInvStep == MInv /\ [MNext]_mvars => MInv'
<1> SUFFICES ASSUME MInv, [MNext]_mvars PROVE MInv'
  OBVIOUS
<1>1. CASE Refuse
  BY <1>1 DEF MInv, Refuse, InRange
<1>2. CASE CopyApart
  BY <1>2, CopyApartKeeps
<1>3. CASE StartLoop
  BY <1>3 DEF MInv, StartLoop, InRange, Copied, TailRepeats
<1>4. CASE Iterate
  BY <1>4, IterateKeeps
<1>5. CASE EndLoop
  <2>1. emitted = length
    BY <1>5 DEF MInv, EndLoop
  <2> QED BY <1>5, <2>1 DEF MInv, EndLoop, Copied
<1>6. CASE UNCHANGED mvars
  BY <1>6 DEF MInv, mvars, Copied, TailRepeats
<1> QED BY <1>1, <1>2, <1>3, <1>4, <1>5, <1>6 DEF MNext

(* A buffer in which every new byte is the one `distance' before it is the *)
(* old one and the repeated end of it.                                     *)
LEMMA CopiedIsRepeated ==
  ASSUME MInv, distance \in 1 .. Len(given), Copied(length)
  PROVE  output = copy_from_distance(given, distance, length)
<1> DEFINE n == Len(given)
           d == distance
           r == Repeated(given, d, length)
<1>1. /\ given \in Seq(Byte) /\ output \in Seq(Byte) /\ length \in Nat
      /\ n \in Nat /\ d \in 1 .. n /\ d \in Nat \ {0}
      /\ Len(output) = n + length
      /\ \A p \in 1 .. n : output[p] = given[p]
      /\ \A p \in n + 1 .. n + length : output[p] = output[p - d]
  BY DEF MInv, Copied
<1> HIDE DEF n, d
<1>2. \A q \in 1 .. length : output[n + q] = output[n - d + 1 + ((q - 1) % d)]
  <2>1. n \in Nat /\ d \in 1 .. n /\ length \in Nat
    BY <1>1
  <2>2. \A p \in n + 1 .. n + length : output[p] = output[p - d]
    BY <1>1
  <2> QED BY ONLY <2>1, <2>2, Period, Zenon
<1>3. ASSUME NEW q \in 1 .. length
      PROVE  n - d + 1 + ((q - 1) % d) \in 1 .. n
  <2> DEFINE x == (q - 1) % d
  <2>1. x \in 0 .. d - 1
    <3>1. q - 1 \in Nat
      BY <1>1
    <3> QED BY <1>1, <3>1, Division
  <2> HIDE DEF x
  <2>2. n - d + 1 + x \in 1 .. n
    BY <1>1, <2>1
  <2> QED BY <2>2 DEF x
<1>4. r = [q \in 1 .. length |-> given[n - d + 1 + ((q - 1) % d)]]
  BY DEF Repeated, n
<1> HIDE DEF r
<1>5. r \in Seq(Byte) /\ Len(r) = length
  <2>1. \A q \in 1 .. length : given[n - d + 1 + ((q - 1) % d)] \in Byte
    BY <1>1, <1>3, ElementOfSeq DEF n
  <2>2. r \in [1 .. length -> Byte]
    BY <1>4, <2>1
  <2>3. length \in Nat
    BY <1>1
  <2> QED BY ONLY <2>2, <2>3, SMT
<1>6. /\ given \o r \in Seq(Byte) /\ Len(given \o r) = n + length
      /\ \A p \in 1 .. n + length :
           (given \o r)[p] = IF p <= n THEN given[p] ELSE r[p - n]
  <2>1. /\ given \o r \in Seq(Byte) /\ Len(given \o r) = Len(given) + Len(r)
        /\ \A p \in 1 .. Len(given) + Len(r) :
             (given \o r)[p] = IF p <= Len(given) THEN given[p]
                                                  ELSE r[p - Len(given)]
    BY <1>1, <1>5, ConcatProperties
  <2> QED BY <1>5, <2>1 DEF n
<1>7. ASSUME NEW p \in 1 .. n + length
      PROVE  output[p] = (given \o r)[p]
  <2>1. CASE p <= n
    BY <1>1, <1>6, <2>1
  <2>2. CASE p > n
    <3> DEFINE q == p - n
               y == n - d + 1 + ((q - 1) % d)
    <3>1. q \in 1 .. length /\ n + q = p
      BY <1>1, <2>2
    <3>2. (given \o r)[p] = r[q]
      BY <1>1, <1>6, <2>2
    <3> HIDE DEF q
    <3>3. output[p] = output[y]
      BY <1>2, <3>1
    <3>4. y \in 1 .. n /\ r[q] = given[y]
      BY <1>3, <1>4, <3>1
    <3> HIDE DEF y
    <3>5. output[y] = given[y]
      BY <1>1, <3>4
    <3> QED BY <3>2, <3>3, <3>4, <3>5
  <2>3. p <= n \/ p > n
    BY <1>1
  <2> QED BY <2>1, <2>2, <2>3
<1>8. output = given \o r
  BY <1>1, <1>6, <1>7, SeqEqual
<1> QED BY <1>8 DEF r, d, copy_from_distance

(* copy_from_distance, in however many pieces it copies, is the copy that  *)
(* the other modules take it for: it leaves the buffer as it was and       *)
(* appends the repeated end of it; or it refuses a distance that is out of *)
(* range, and leaves it alone.                                             *)
THEOREM MatchIsCopied == MSpec => []CopiesTheMatch
<1>1. MInv => EachByteRepeats
  BY DEF MInv, EachByteRepeats, Copied
<1>2. ASSUME MInv, at = "ok"
      PROVE  output = copy_from_distance(given, distance, length)
  BY <1>2, CopiedIsRepeated DEF MInv
<1>3. MInv => CopiesTheMatch
  BY <1>1, <1>2 DEF MInv, CopiesTheMatch
<1> QED BY <1>3, MatchInvInit, MatchInvStep, PTL DEF MSpec
-----------------------------------------------------------------------------
(* The Adler-32 checksum.                                                  *)

(* How many bytes have been added since the sums were last reduced, and    *)
(* how large that many can have made them.                                 *)
Added == IF pc \in {"unrolled", "rest"} THEN i + j ELSE 0

Largest(n) == 2 * ((BASE - 1) * (n + 1)) + MAX_BYTE * (n * (n + 1))

Bounded == /\ a <= (BASE - 1) + MAX_BYTE * Added
           /\ 2 * b <= Largest(Added)

Congruent(x, sum) == \E k \in Nat : sum = x + BASE * k

SumsInv == /\ ATypeOK /\ Bounded
       /\ Congruent(a, sum_a) /\ Congruent(b, sum_b)

(* One more byte behind n of them: the new sums are bounded again.         *)
LEMMA OneMore ==
  ASSUME NEW n \in Nat, NEW x \in Nat, NEW y \in Nat,
         NEW byte \in 0 .. MAX_BYTE,
         x <= (BASE - 1) + MAX_BYTE * n, 2 * y <= Largest(n)
  PROVE  /\ x + byte <= (BASE - 1) + MAX_BYTE * (n + 1)
         /\ 2 * (y + (x + byte)) <= Largest(n + 1)
<1> USE Adler32Assumption
<1> DEFINE c == BASE - 1
<1>1. c \in Nat
  OBVIOUS
<1> HIDE DEF c
<1>2. MAX_BYTE * (n + 1) = MAX_BYTE * n + MAX_BYTE /\ MAX_BYTE * n \in Nat
  BY Product
<1>3. x <= c + MAX_BYTE * n /\ 2 * y <= 2 * (c * (n + 1)) + MAX_BYTE * (n * (n + 1))
  BY DEF c, Largest
<1>4. x + byte <= c + MAX_BYTE * (n + 1)
  BY <1>1, <1>2, <1>3
<1>5. c * (n + 2) = c * (n + 1) + c /\ c * (n + 1) \in Nat
  BY <1>1, Product
<1>6. MAX_BYTE * ((n + 1) * (n + 2))
        = MAX_BYTE * (n * (n + 1)) + 2 * (MAX_BYTE * (n + 1))
      /\ MAX_BYTE * (n * (n + 1)) \in Nat
  OBVIOUS
<1>7. 2 * (y + (x + byte)) <= 2 * (c * (n + 2)) + MAX_BYTE * ((n + 1) * (n + 2))
  BY <1>1, <1>2, <1>3, <1>4, <1>5, <1>6
<1>8. n + 2 = (n + 1) + 1
  OBVIOUS
<1> QED BY <1>4, <1>7, <1>8 DEF c, Largest

(* And as long as there are at most NMAX, they fit the word.               *)
LEMMA FitsTheWord ==
  ASSUME NEW n \in 0 .. NMAX, NEW x \in Nat, NEW y \in Nat,
         x <= y, 2 * y <= Largest(n)
  PROVE  x < WORD /\ y < WORD
<1> USE Adler32Assumption
<1>1. (BASE - 1) * (n + 1) <= (BASE - 1) * (NMAX + 1)
  BY Monotone
<1>2. n * (n + 1) <= NMAX * (NMAX + 1)
  <2>1. n * (n + 1) <= n * (NMAX + 1)
    BY Monotone
  <2>2. (NMAX + 1) * n <= (NMAX + 1) * NMAX
    BY Monotone
  <2>3. (NMAX + 1) * n = n * (NMAX + 1) /\ (NMAX + 1) * NMAX = NMAX * (NMAX + 1)
    OBVIOUS
  <2> QED BY <2>1, <2>2, <2>3, Product
<1>3. MAX_BYTE * (n * (n + 1)) <= MAX_BYTE * (NMAX * (NMAX + 1))
  BY <1>2, Monotone, Product
<1>4. /\ (BASE - 1) * (n + 1) \in Nat /\ (BASE - 1) * (NMAX + 1) \in Nat
      /\ MAX_BYTE * (n * (n + 1)) \in Nat
      /\ MAX_BYTE * (NMAX * (NMAX + 1)) \in Nat
  BY Product
<1>5. Largest(n) <= Largest(NMAX) /\ Largest(NMAX) < 2 * WORD
  BY <1>1, <1>3, <1>4 DEF Largest
<1>6. Largest(n) \in Nat /\ Largest(NMAX) \in Nat
  BY <1>4 DEF Largest
<1> QED BY <1>5, <1>6

(* Where a byte is about to be added: its place is in the chunk, and both  *)
(* sums fit the word with it.                                              *)
LEMMA NoWrap ==
  ASSUME SumsInv, NEW byte \in 0 .. MAX_BYTE,
         \/ pc = "unrolled" /\ i + UNROLL <= chunk
         \/ pc = "rest" /\ i < chunk
  PROVE  /\ Added \in Nat /\ Added + 1 <= NMAX
         /\ a + byte < WORD /\ b + (a + byte) < WORD
         /\ a + byte <= (BASE - 1) + MAX_BYTE * (Added + 1)
         /\ 2 * (b + (a + byte)) <= Largest(Added + 1)
<1> USE Adler32Assumption
<1>1. a \in Nat /\ b \in Nat
  BY DEF SumsInv, ATypeOK
<1>2. Added \in Nat /\ Added + 1 <= NMAX
  BY DEF SumsInv, ATypeOK, Added
<1>3. /\ a + byte <= (BASE - 1) + MAX_BYTE * (Added + 1)
      /\ 2 * (b + (a + byte)) <= Largest(Added + 1)
  BY <1>1, <1>2, OneMore DEF SumsInv, Bounded
<1>4. a + byte < WORD /\ b + (a + byte) < WORD
  <2>1. a + byte \in Nat /\ b + (a + byte) \in Nat /\ a + byte <= b + (a + byte)
    BY <1>1
  <2>2. Added + 1 \in 0 .. NMAX
    BY <1>2
  <2> QED BY <1>3, <2>1, <2>2, FitsTheWord
<1> QED BY <1>2, <1>3, <1>4

(* Adding a byte keeps the sums congruent to the exact ones.               *)
LEMMA AddKeeps ==
  ASSUME SumsInv, NEW byte \in 0 .. MAX_BYTE, Add(byte),
         \/ pc = "unrolled" /\ i + UNROLL <= chunk
         \/ pc = "rest" /\ i < chunk
  PROVE  /\ a' = a + byte /\ b' = b + (a + byte)
         /\ a' \in 0 .. WORD - 1 /\ b' \in 0 .. WORD - 1
         /\ Congruent(a, sum_a)' /\ Congruent(b, sum_b)'
         /\ sum_a' \in Nat /\ sum_b' \in Nat
<1> USE Adler32Assumption
<1>1. a \in Nat /\ b \in Nat /\ sum_a \in Nat /\ sum_b \in Nat
  BY DEF SumsInv, ATypeOK
<1>2. a + byte < WORD /\ b + (a + byte) < WORD
  BY NoWrap
<1>3. a' = a + byte /\ b' = b + (a + byte)
  BY <1>1, <1>2 DEF Add
<1>4. PICK k \in Nat : sum_a = a + BASE * k
  BY DEF SumsInv, Congruent
<1>5. PICK l \in Nat : sum_b = b + BASE * l
  BY DEF SumsInv, Congruent
<1>6. sum_a' = a' + BASE * k
  <2>1. BASE * k \in Nat
    BY Product
  <2> QED BY <1>1, <1>3, <1>4, <2>1 DEF Add
<1>7. sum_b' = b' + BASE * (k + l) /\ k + l \in Nat
  <2>1. BASE * (k + l) = BASE * k + BASE * l /\ BASE * k \in Nat /\ BASE * l \in Nat
    BY Product
  <2> QED BY <1>1, <1>3, <1>4, <1>5, <1>6, <2>1 DEF Add
<1>8. sum_a' \in Nat /\ sum_b' \in Nat
  BY <1>1 DEF Add
<1> QED BY <1>1, <1>2, <1>3, <1>6, <1>7, <1>8 DEF Congruent

(* Reducing a sum keeps it congruent.                                      *)
LEMMA ReduceKeeps ==
  ASSUME NEW x \in Nat, NEW sum \in Nat, Congruent(x, sum)
  PROVE  x % BASE \in 0 .. BASE - 1 /\ Congruent(x % BASE, sum)
<1> USE Adler32Assumption
<1>1. PICK k \in Nat : sum = x + BASE * k
  BY DEF Congruent
<1>2. /\ x % BASE \in 0 .. BASE - 1 /\ x \div BASE \in Nat
      /\ x = (x % BASE) + BASE * (x \div BASE)
  BY Division
<1>3. BASE * (k + (x \div BASE)) = BASE * k + BASE * (x \div BASE)
  BY <1>2
<1>4. sum = (x % BASE) + BASE * (k + (x \div BASE)) /\ k + (x \div BASE) \in Nat
  BY <1>1, <1>2, <1>3, Product
<1> QED BY <1>2, <1>4 DEF Congruent
-----------------------------------------------------------------------------
LEMMA WordHoldsBase ==
  BASE - 1 \in Nat /\ BASE - 1 < WORD /\ 1 < WORD /\ Largest(0) = 2 * (BASE - 1)
<1> USE Adler32Assumption
<1>1. Largest(0) = 2 * (BASE - 1)
  BY DEF Largest
<1>2. BASE - 1 < WORD
  BY <1>1, FitsTheWord
<1> QED BY <1>1, <1>2

LEMMA SumsInvInit == AInit => SumsInv
<1> SUFFICES ASSUME AInit PROVE SumsInv
  OBVIOUS
<1> USE Adler32Assumption DEF AInit
<1>1. ATypeOK
  BY WordHoldsBase DEF ATypeOK
<1>2. Bounded
  BY WordHoldsBase DEF Bounded, Added
<1>3. Congruent(a, sum_a) /\ Congruent(b, sum_b)
  <2>1. 1 = 1 + BASE * 0 /\ 0 = 0 + BASE * 0
    OBVIOUS
  <2> QED BY <2>1 DEF Congruent
<1> QED BY <1>1, <1>2, <1>3 DEF SumsInv

LEMMA SumsInvStep == SumsInv /\ [ANext]_avars => SumsInv'
<1> SUFFICES ASSUME SumsInv, [ANext]_avars PROVE SumsInv'
  OBVIOUS
<1> USE Adler32Assumption
<1>0. ATypeOK /\ Bounded
  BY DEF SumsInv
<1>1. ASSUME NEW n \in Updates, Update(n) PROVE SumsInv'
  <2>1. ATypeOK'
    BY <1>0, <1>1 DEF ATypeOK, Update
  <2>2. Bounded'
    BY <1>0, <1>1 DEF Bounded, Largest, Added, Update
  <2> QED BY <1>1, <2>1, <2>2 DEF SumsInv, Congruent, Update
<1>2. CASE NextChunk
  <2>1. ATypeOK'
    BY <1>0, <1>2 DEF ATypeOK, NextChunk, chunk_len
  <2>2. Bounded'
    <3>1. Added = 0 /\ Added' = 0
      BY <1>0, <1>2, <2>1 DEF NextChunk, Added, ATypeOK
    <3> QED BY <1>0, <1>2, <3>1 DEF Bounded, Largest, NextChunk
  <2> QED BY <1>2, <2>1, <2>2 DEF SumsInv, Congruent, NextChunk
<1>3. CASE UpdateReturns
  <2>1. ATypeOK'
    BY <1>0, <1>3 DEF ATypeOK, UpdateReturns
  <2>2. Bounded'
    BY <1>0, <1>3 DEF Bounded, Largest, Added, UpdateReturns
  <2> QED BY <1>3, <2>1, <2>2 DEF SumsInv, Congruent, UpdateReturns
<1>4. ASSUME NEW byte \in 0 .. MAX_BYTE, AddUnrolled(byte) PROVE SumsInv'
  <2>1. /\ a' = a + byte /\ b' = b + (a + byte)
        /\ a' \in 0 .. WORD - 1 /\ b' \in 0 .. WORD - 1
        /\ Congruent(a, sum_a)' /\ Congruent(b, sum_b)'
        /\ sum_a' \in Nat /\ sum_b' \in Nat
    BY <1>4, AddKeeps DEF AddUnrolled
  <2>2. ATypeOK'
    BY <1>0, <1>4, <2>1 DEF ATypeOK, AddUnrolled
  <2>3. Added' = Added + 1
    BY <1>0, <1>4 DEF ATypeOK, AddUnrolled, Added
  <2>4. Bounded'
    BY <1>4, <2>1, <2>3, NoWrap DEF AddUnrolled, Bounded, Largest
  <2> QED BY <2>1, <2>2, <2>4 DEF SumsInv
<1>5. ASSUME NEW byte \in 0 .. MAX_BYTE, AddRest(byte) PROVE SumsInv'
  <2>1. /\ a' = a + byte /\ b' = b + (a + byte)
        /\ a' \in 0 .. WORD - 1 /\ b' \in 0 .. WORD - 1
        /\ Congruent(a, sum_a)' /\ Congruent(b, sum_b)'
        /\ sum_a' \in Nat /\ sum_b' \in Nat
    BY <1>5, AddKeeps DEF AddRest
  <2>2. ATypeOK'
    BY <1>0, <1>5, <2>1 DEF ATypeOK, AddRest
  <2>3. Added' = Added + 1
    BY <1>0, <1>5 DEF ATypeOK, AddRest, Added
  <2>4. Bounded'
    BY <1>5, <2>1, <2>3, NoWrap DEF AddRest, Bounded, Largest
  <2> QED BY <2>1, <2>2, <2>4 DEF SumsInv
<1>6. CASE LeaveUnrolled
  <2>1. ATypeOK'
    BY <1>0, <1>6 DEF ATypeOK, LeaveUnrolled
  <2>2. Bounded'
    BY <1>0, <1>6 DEF Bounded, Largest, Added, LeaveUnrolled
  <2> QED BY <1>6, <2>1, <2>2 DEF SumsInv, Congruent, LeaveUnrolled
<1>7. CASE Reduce
  <2>1. a \in Nat /\ b \in Nat /\ sum_a \in Nat /\ sum_b \in Nat
    BY <1>0 DEF ATypeOK
  <2>2. /\ a' \in 0 .. BASE - 1 /\ b' \in 0 .. BASE - 1
        /\ Congruent(a', sum_a) /\ Congruent(b', sum_b)
    BY <1>7, <2>1, ReduceKeeps DEF SumsInv, Reduce
  <2>3. ATypeOK'
    BY <1>0, <1>7, <2>2, WordHoldsBase DEF ATypeOK, Reduce
  <2>4. Bounded'
    <3>1. Added' = 0
      BY <1>7 DEF Added, Reduce
    <3>2. MAX_BYTE * 0 = 0
      OBVIOUS
    <3>3. a' <= (BASE - 1) + MAX_BYTE * 0 /\ 2 * b' <= Largest(0)
      BY <2>2, <3>2, WordHoldsBase
    <3> QED BY <3>1, <3>3 DEF Bounded, Largest
  <2> QED BY <1>7, <2>2, <2>3, <2>4 DEF SumsInv, Congruent, Reduce
<1>8. CASE UNCHANGED avars
  BY <1>8 DEF SumsInv, ATypeOK, Bounded, Largest, Added, Congruent, avars
<1> QED BY <1>1, <1>2, <1>3, <1>4, <1>5, <1>6, <1>7, <1>8
        DEF ANext, AStep, Value

LEMMA SumsInvariance == ASpec => []SumsInv
<1> QED BY SumsInvInit, SumsInvStep, PTL DEF ASpec
-----------------------------------------------------------------------------
(* The checksum's variables keep their types; its loops stay in the chunk. *)
THEOREM ChecksumTypes == ASpec => []ATypeOK
<1>1. SumsInv => ATypeOK
  BY DEF SumsInv
<1> QED BY <1>1, SumsInvariance, PTL

(* No addition of update ever wraps, whatever the bytes are.               *)
THEOREM AdditionsNeverWrap == ASpec => []NeverWraps
<1>1. ASSUME SumsInv PROVE NeverWraps
  <2>1. MAX_BYTE \in 0 .. MAX_BYTE
    BY Adler32Assumption
  <2>2. a \in Nat /\ b \in Nat
    BY <1>1 DEF SumsInv, ATypeOK
  <2>3. b + (a + MAX_BYTE) = b + a + MAX_BYTE
    BY <2>2, Adler32Assumption
  <2> QED BY <1>1, <2>1, <2>3, NoWrap DEF NeverWraps
<1> QED BY <1>1, SumsInvariance, PTL

(* Between two updates the sums are the exact sums of all the bytes modulo *)
(* BASE, however update's data was cut up and reduced on the way.          *)
THEOREM ChecksumIsExact == ASpec => []SumsAreExact
<1>1. ASSUME SumsInv, pc = "idle" PROVE a = sum_a % BASE /\ b = sum_b % BASE
  <2> USE Adler32Assumption
  <2>1. a \in 0 .. BASE - 1 /\ b \in 0 .. BASE - 1
    <3>1. a \in Nat /\ b \in Nat /\ Added = 0 /\ MAX_BYTE * 0 = 0
      BY <1>1 DEF SumsInv, ATypeOK, Added
    <3>2. a <= BASE - 1 /\ 2 * b <= 2 * (BASE - 1)
      BY <1>1, <3>1, WordHoldsBase DEF SumsInv, Bounded
    <3> QED BY <3>1, <3>2
  <2>2. PICK k \in Nat : sum_a = a + BASE * k
    BY <1>1 DEF SumsInv, Congruent
  <2>3. PICK l \in Nat : sum_b = b + BASE * l
    BY <1>1 DEF SumsInv, Congruent
  <2> QED BY <2>1, <2>2, <2>3, Remainder
<1>2. SumsInv => SumsAreExact
  BY <1>1 DEF SumsAreExact
<1> QED BY <1>2, SumsInvariance, PTL

(* The constants of adler32.rs are as Adler32Assumption wants them, and    *)
(* 5552 is the largest chunk of which that can be said.                    *)
THEOREM NMAXIsTheMaximum ==
  /\ 2 * (65520 * (5552 + 1)) + 255 * (5552 * (5552 + 1)) < 2 * 4294967296
  /\ 2 * (65520 * (5553 + 1)) + 255 * (5553 * (5553 + 1)) >= 2 * 4294967296
  OBVIOUS
-----------------------------------------------------------------------------
(* Format detection.                                                       *)

FirstBytes == head \in Seq(0 .. 255) /\ Len(head) <= 2

(* What the three formats begin with differs, number by number.            *)
LEMMA FormatsDiffer ==
  ASSUME NEW x \in 0 .. 255, NEW y \in 0 .. 255
  PROVE  /\ x % 16 = 8 => x # MAGIC1 /\ x \notin block_starts
         /\ x \in block_starts => x # MAGIC1
         /\ x = CMF /\ y = FLG => validate_zlib_header(<<x, y>>)
<1>1. x % 16 = 8 => x # MAGIC1
  BY DEF MAGIC1
<1>2. ASSUME x % 16 = 8 PROVE x \notin block_starts
  BY <1>2 DEF block_starts
<1>3. x \in block_starts => x # MAGIC1
  BY DEF block_starts, MAGIC1
<1>4. x = CMF /\ y = FLG => validate_zlib_header(<<x, y>>)
  BY DEF CMF, FLG, validate_zlib_header
<1> QED BY <1>1, <1>2, <1>3, <1>4

(* Of all 65536 pairs of first bytes, none that a container's decoder lets *)
(* pass or a DEFLATE encoder writes is taken for another format.           *)
THEOREM FormatsAreTold == FSpec => []FormatIsFound
<1>1. FInit => FirstBytes
  BY DEF FInit, FirstBytes
<1>2. FirstBytes /\ [FNext]_head => FirstBytes'
  <2> SUFFICES ASSUME FirstBytes, [FNext]_head PROVE FirstBytes'
    OBVIOUS
  <2>1. ASSUME NEW byte \in 0 .. 255, Arrive(byte) PROVE FirstBytes'
    <3>1. head \in Seq(0 .. 255) /\ Len(head) < 2 /\ head' = Append(head, byte)
      BY <2>1 DEF FirstBytes, Arrive
    <3>2. head' \in Seq(0 .. 255) /\ Len(head') = Len(head) + 1
      BY <3>1, AppendProperties
    <3>3. Len(head) \in Nat
      BY <3>1, LenProperties
    <3> QED BY <3>1, <3>2, <3>3 DEF FirstBytes
  <2>2. CASE UNCHANGED head
    BY <2>2 DEF FirstBytes
  <2> QED BY <2>1, <2>2 DEF FNext, Decided
<1>3. ASSUME FirstBytes PROVE FormatIsFound
  <2>1. CASE Len(head) < 2
    BY <2>1 DEF FormatIsFound, detect
  <2>2. CASE ~ (Len(head) < 2)
    <3>1. /\ head[1] \in 0 .. 255 /\ head[2] \in 0 .. 255
          /\ Len(head) = 2 /\ head = <<head[1], head[2]>>
      <4>1. head \in Seq(0 .. 255) /\ Len(head) <= 2
        BY <1>3 DEF FirstBytes
      <4>2. Len(head) = 2
        <5> DEFINE n == Len(head)
        <5>1. n \in Nat /\ n <= 2 /\ ~ (n < 2)
          BY <2>2, <4>1, LenProperties
        <5> HIDE DEF n
        <5>2. n = 2
          BY <5>1
        <5> QED BY <5>2 DEF n
      <4>3. head[1] \in 0 .. 255 /\ head[2] \in 0 .. 255
        <5>1. 1 \in 1 .. Len(head) /\ 2 \in 1 .. Len(head)
          BY <4>2
        <5> HIDE <4>2
        <5> QED BY <4>1, <5>1, ElementOfSeq
      <4> DEFINE pair == <<head[1], head[2]>>
      <4>4. pair \in Seq(0 .. 255) /\ Len(pair) = 2
            /\ pair[1] = head[1] /\ pair[2] = head[2]
        BY <4>3
      <4> HIDE DEF pair
      <4>5. \A p \in 1 .. Len(head) : head[p] = pair[p]
        BY <4>2, <4>4
      <4>6. head = pair
        BY <4>1, <4>2, <4>4, <4>5, SeqEqual
      <4> QED BY <4>2, <4>3, <4>6 DEF pair
    <3> DEFINE x == head[1]
               y == head[2]
    <3>2. /\ x % 16 = 8 => x # MAGIC1 /\ x \notin block_starts
          /\ x \in block_starts => x # MAGIC1
          /\ x = CMF /\ y = FLG => validate_zlib_header(<<x, y>>)
      BY <3>1, FormatsDiffer
    <3>3. head = <<CMF, FLG>> => x = CMF /\ y = FLG
      OBVIOUS
    <3>4. head = <<CMF, FLG>> => validate_zlib_header(head)
      BY <3>1, <3>2, <3>3
    <3>5. validate_zlib_header(head) => x % 16 = 8 /\ IsZlib(x, y)
      BY DEF validate_zlib_header, IsZlib
    <3>6. IsZlib(x, y) => x % 16 = 8
      BY DEF IsZlib
    <3> HIDE DEF x, y
    <3>7. detect(head) = IF x = MAGIC1 /\ y = MAGIC2 THEN "gzip"
                         ELSE IF IsZlib(x, y) THEN "zlib" ELSE "deflate"
      BY <2>2 DEF detect, x, y
    <3>8. parse_fixed_header(head) <=> (x = MAGIC1 /\ y = MAGIC2)
      BY DEF parse_fixed_header, x, y
    <3> QED BY <2>2, <3>2, <3>4, <3>5, <3>6, <3>7, <3>8 DEF FormatIsFound, x
  <2> QED BY <2>1, <2>2
<1> QED BY <1>1, <1>2, <1>3, PTL DEF FSpec
-----------------------------------------------------------------------------
(* The CRC-32 checksum of every input, however it is cut up, is the        *)
(* register of its definition behind all of its bits: for every width,     *)
(* every polynomial, every size of a byte and of a slice.                  *)
(*                                                                         *)
(* A step of the register is linear: of an exclusive or, it makes the      *)
(* exclusive or of what it makes of each.  So BITS steps can be looked up  *)
(* for a byte and joined with the bits shifted out of reach, and the bytes *)
(* of a slice, each looked up in the table for its distance from the end   *)
(* of the slice, can be joined when all are known.                         *)
(*                                                                         *)
(* Induction is by the least counterexample, and the functions defined by  *)
(* recursion are shown to exist before their equations are used.           *)
LEMMA Sizes ==
  /\ BITS \in Nat \ {0} /\ WIDTH \in Nat \ {0} /\ SLICE \in Nat \ {0}
  /\ BITS <= WIDTH /\ ByteWord \subseteq Word /\ {} \in ByteWord
  /\ 0 .. WIDTH - 1 \in Word /\ POLYNOMIAL \in Word
<1>1. /\ BITS \in Nat \ {0} /\ WIDTH \in Nat \ {0} /\ SLICE \in Nat \ {0}
      /\ WIDTH % BITS = 0 /\ POLYNOMIAL \in Word
  BY Crc32Assumption
<1>2. BITS <= WIDTH
  <2>1. WIDTH < BITS => WIDTH % BITS = WIDTH
    BY <1>1, StepBack
  <2> QED BY <1>1, <2>1
<1> QED BY <1>1, <1>2 DEF ByteWord, Word

(* Words, bit by bit.                                                      *)
LEMMA InXor ==
  ASSUME NEW v, NEW w
  PROVE  \A x : x \in Xor(v, w) <=> ~ (x \in v <=> x \in w)
BY DEF Xor

LEMMA InShr ==
  ASSUME NEW w \in SUBSET Nat, NEW n \in Nat
  PROVE  \A x : x \in Shr(w, n) <=> x \in Nat /\ x + n \in w
<1> SUFFICES ASSUME NEW x PROVE x \in Shr(w, n) <=> x \in Nat /\ x + n \in w
  OBVIOUS
<1>1. ASSUME x \in Shr(w, n) PROVE x \in Nat /\ x + n \in w
  <2>1. PICK y \in w : y >= n /\ x = y - n
    BY <1>1 DEF Shr
  <2> QED BY <2>1
<1>2. ASSUME x \in Nat, x + n \in w PROVE x \in Shr(w, n)
  <2>1. x + n >= n /\ (x + n) - n = x
    BY <1>2
  <2> QED BY <1>2, <2>1 DEF Shr
<1> QED BY <1>1, <1>2

LEMMA WordsAreBits == \A w \in Word : w \in SUBSET Nat
BY DEF Word

LEMMA XorType == \A v, w \in Word : Xor(v, w) \in Word
BY DEF Xor, Word

LEMMA ShrType ==
  ASSUME NEW w \in Word, NEW n \in Nat
  PROVE  Shr(w, n) \in Word
<1>1. ASSUME NEW x \in Shr(w, n) PROVE x \in 0 .. WIDTH - 1
  <2>1. x \in Nat /\ x + n \in w
    BY InShr, WordsAreBits
  <2>2. x + n \in 0 .. WIDTH - 1
    BY <2>1 DEF Word
  <2> QED BY <2>1, <2>2, Sizes
<1> QED BY <1>1 DEF Word

LEMMA LowType == \A w \in Word : Low(w) \in ByteWord /\ Low(w) \in Word
BY DEF Low, ByteWord, Word

LEMMA XorLaws ==
  /\ \A v, w : Xor(v, w) = Xor(w, v)
  /\ \A v : Xor(v, v) = {} /\ Xor(v, {}) = v
  /\ \A u, v, w : Xor(Xor(u, v), w) = Xor(u, Xor(v, w))
BY DEF Xor

LEMMA ShrOfXor ==
  ASSUME NEW v \in Word, NEW w \in Word, NEW n \in Nat
  PROVE  Shr(Xor(v, w), n) = Xor(Shr(v, n), Shr(w, n))
<1>1. v \in SUBSET Nat /\ w \in SUBSET Nat /\ Xor(v, w) \in SUBSET Nat
  BY WordsAreBits, XorType
<1>2. ASSUME NEW x
      PROVE  x \in Shr(Xor(v, w), n) <=> x \in Xor(Shr(v, n), Shr(w, n))
  <2>1. x \in Shr(Xor(v, w), n)
          <=> x \in Nat /\ ~ (x + n \in v <=> x + n \in w)
    BY <1>1, InShr, InXor
  <2>2. x \in Xor(Shr(v, n), Shr(w, n))
          <=> ~ (x \in Nat /\ x + n \in v <=> x \in Nat /\ x + n \in w)
    BY <1>1, InShr, InXor
  <2> QED BY <2>1, <2>2
<1> QED BY <1>2

LEMMA ShrOfShr ==
  ASSUME NEW w \in Word, NEW m \in Nat, NEW n \in Nat
  PROVE  Shr(Shr(w, m), n) = Shr(w, m + n)
<1>1. w \in SUBSET Nat /\ Shr(w, m) \in SUBSET Nat /\ m + n \in Nat
  BY WordsAreBits, ShrType
<1>2. ASSUME NEW x
      PROVE  x \in Shr(Shr(w, m), n) <=> x \in Shr(w, m + n)
  <2>1. x \in Shr(Shr(w, m), n)
          <=> x \in Nat /\ x + n \in Nat /\ (x + n) + m \in w
    BY <1>1, InShr
  <2>2. x \in Shr(w, m + n) <=> x \in Nat /\ x + (m + n) \in w
    BY <1>1, InShr
  <2>3. x \in Nat => x + n \in Nat /\ (x + n) + m = x + (m + n)
    OBVIOUS
  <2> QED BY <2>1, <2>2, <2>3
<1> QED BY <1>2

(* The bits of a byte, and those of a word, run out.                       *)
LEMMA ShrIsEmpty ==
  /\ \A w \in ByteWord, n \in Nat : n >= BITS => Shr(w, n) = {}
  /\ \A w \in Word, n \in Nat : n >= WIDTH => Shr(w, n) = {}
<1>1. ASSUME NEW size \in Nat \ {0}, NEW w \in SUBSET (0 .. size - 1),
             NEW n \in Nat, n >= size
      PROVE  Shr(w, n) = {}
  <2>1. ASSUME NEW x \in Shr(w, n) PROVE FALSE
    <3>1. x \in Nat /\ x + n \in w
      BY InShr
    <3>2. x + n \in 0 .. size - 1
      BY <3>1
    <3> QED BY <1>1, <3>1, <3>2
  <2> QED BY <2>1
<1> QED BY <1>1, Sizes DEF ByteWord, Word

LEMMA ShrByNone == \A w \in Word : Shr(w, 0) = w
<1> SUFFICES ASSUME NEW w \in Word PROVE Shr(w, 0) = w
  OBVIOUS
<1>1. \A x : x \in Shr(w, 0) <=> x \in Nat /\ x + 0 \in w
  BY InShr, WordsAreBits
<1>2. \A x \in Nat : x + 0 = x
  OBVIOUS
<1> QED BY <1>1, <1>2, WordsAreBits

LEMMA LowOfXor == \A v, w : Low(Xor(v, w)) = Xor(Low(v), Low(w))
BY DEF Low, Xor
-----------------------------------------------------------------------------
(* One step of the register.                                               *)
LEMMA ShiftedType == \A w \in Word : Shifted(w) \in Word
BY ShrType, XorType, Sizes DEF Shifted

LEMMA ShiftedOfXor ==
  ASSUME NEW v \in Word, NEW w \in Word
  PROVE  Shifted(Xor(v, w)) = Xor(Shifted(v), Shifted(w))
<1>1. Shr(Xor(v, w), 1) = Xor(Shr(v, 1), Shr(w, 1))
  BY ShrOfXor
<1>2. 0 \in Xor(v, w) <=> ~ (0 \in v <=> 0 \in w)
  BY InXor
<1> DEFINE v1 == Shr(v, 1)
           w1 == Shr(w, 1)
           p == POLYNOMIAL
<1> HIDE DEF v1, w1, p
<1>3. /\ Xor(Xor(v1, w1), p) = Xor(Xor(v1, p), w1)
      /\ Xor(Xor(v1, w1), p) = Xor(v1, Xor(w1, p))
      /\ Xor(v1, w1) = Xor(Xor(v1, p), Xor(w1, p))
  BY DEF Xor
<1>4. /\ Shifted(Xor(v, w)) = IF ~ (0 \in v <=> 0 \in w) THEN Xor(Xor(v1, w1), p)
                                                         ELSE Xor(v1, w1)
      /\ Shifted(v) = IF 0 \in v THEN Xor(v1, p) ELSE v1
      /\ Shifted(w) = IF 0 \in w THEN Xor(w1, p) ELSE w1
  BY <1>1, <1>2 DEF Shifted, v1, w1, p
<1> QED BY <1>3, <1>4
-----------------------------------------------------------------------------
(* The tables, by their equations.                                         *)
LEMMA ByteTableEquations ==
  /\ byte_table \in [0 .. BITS -> [Word -> Word]]
  /\ \A w \in Word : byte_table[0][w] = w
  /\ \A n \in 1 .. BITS, w \in Word :
       byte_table[n][w] = byte_table[n - 1][Shifted(w)]
<1> DEFINE A == [Word -> Word]
           first == [w \in Word |-> w]
           after == [n \in 1 .. BITS |-> [f \in A |-> [w \in Word |-> f[Shifted(w)]]]]
           Body(f) == [n \in 0 .. BITS |->
                         [w \in Word |-> IF n = 0 THEN w ELSE f[n - 1][Shifted(w)]]]
<1>1. first \in A /\ after \in [1 .. BITS -> [A -> A]]
  BY ShiftedType
<1>2. BITS \in Nat
  BY Sizes
<1> HIDE DEF A, first, after
<1>3. PICK f \in [0 .. BITS -> A] :
             /\ f[0] = first
             /\ \A n \in 1 .. BITS : f[n] = after[n][f[n - 1]]
  <2>1. Recursions(BITS, A, first, after) # {}
    BY <1>1, <1>2, RecursionExists
  <2> QED BY <2>1 DEF Recursions, Follows
<1>4. f = Body(f)
  <2>1. ASSUME NEW n \in 0 .. BITS
        PROVE  f[n] = [w \in Word |-> IF n = 0 THEN w ELSE f[n - 1][Shifted(w)]]
    <3>1. CASE n = 0
      BY <1>3, <3>1 DEF first
    <3>2. CASE n # 0
      <4>1. n \in 1 .. BITS /\ n - 1 \in 0 .. BITS
        BY <1>2, <3>2
      <4>2. f[n] = after[n][f[n - 1]] /\ f[n - 1] \in A
        BY <1>3, <4>1
      <4> QED BY <3>2, <4>1, <4>2 DEF after
    <3> QED BY <3>1, <3>2
  <2> QED BY <1>3, <2>1
<1>5. byte_table = Body(byte_table)
  <2>1. byte_table = CHOOSE g : g = Body(g)
    BY DEF byte_table
  <2> HIDE DEF Body
  <2> QED BY <1>4, <2>1
<1>6. /\ byte_table[0] = first
      /\ \A n \in 1 .. BITS : byte_table[n] = [w \in Word |-> byte_table[n - 1][Shifted(w)]]
  <2>1. byte_table[0] = first
    BY <1>2, <1>5 DEF first
  <2>2. ASSUME NEW n \in 1 .. BITS
        PROVE  byte_table[n] = [w \in Word |-> byte_table[n - 1][Shifted(w)]]
    <3>1. n \in 0 .. BITS /\ n # 0
      BY <1>2
    <3>2. byte_table[n] = [w \in Word |-> IF n = 0 THEN w ELSE byte_table[n - 1][Shifted(w)]]
      BY <1>5, <3>1
    <3> QED BY <3>1, <3>2
  <2> QED BY <2>1, <2>2
<1>7. \A n \in 0 .. BITS : byte_table[n] \in A
  <2> DEFINE T == {n \in 0 .. BITS : byte_table[n] \notin A}
  <2>1. SUFFICES ASSUME T # {} PROVE FALSE
    OBVIOUS
  <2>2. T \in SUBSET Nat
    OBVIOUS
  <2>3. PICK n \in T : \A m \in T : n <= m
    BY <2>1, <2>2, LeastOf
  <2>4. n \in 1 .. BITS /\ n - 1 \in 0 .. BITS /\ ~ (n <= n - 1)
    <3>1. n \in 0 .. BITS /\ n # 0
      BY <1>1, <1>6, <2>3
    <3> QED BY <1>2, <3>1
  <2>5. byte_table[n - 1] \in A
    BY <2>3, <2>4
  <2>6. byte_table[n] \in A
    <3>1. \A w \in Word : byte_table[n - 1][Shifted(w)] \in Word
      BY <2>5, ShiftedType DEF A
    <3>2. byte_table[n] = [w \in Word |-> byte_table[n - 1][Shifted(w)]]
      BY <1>6, <2>4
    <3> QED BY <3>1, <3>2 DEF A
  <2> QED BY <2>3, <2>6
<1>8. byte_table = [n \in 0 .. BITS |-> byte_table[n]]
  BY <1>5
<1>9. byte_table \in [0 .. BITS -> A]
  BY <1>7, <1>8
<1>10. \A w \in Word : byte_table[0][w] = w
  BY <1>6 DEF first
<1>11. ASSUME NEW n \in 1 .. BITS, NEW w \in Word
       PROVE  byte_table[n][w] = byte_table[n - 1][Shifted(w)]
  BY <1>6
<1> QED BY <1>9, <1>10, <1>11 DEF A

LEMMA ByteTableOfXor ==
  \A n \in 0 .. BITS : \A v, w \in Word :
    byte_table[n][Xor(v, w)] = Xor(byte_table[n][v], byte_table[n][w])
<1> DEFINE Linear(n) == \A v, w \in Word :
             byte_table[n][Xor(v, w)] = Xor(byte_table[n][v], byte_table[n][w])
           T == {n \in 0 .. BITS : ~ Linear(n)}
<1>1. SUFFICES ASSUME T # {} PROVE FALSE
  OBVIOUS
<1>2. T \in SUBSET Nat
  OBVIOUS
<1>3. PICK n \in T : \A m \in T : n <= m
  BY <1>1, <1>2, LeastOf
<1>4. Linear(0)
  BY ByteTableEquations, XorType
<1>5. n \in 1 .. BITS /\ n - 1 \in 0 .. BITS /\ ~ (n <= n - 1)
  <2> HIDE DEF Linear
  <2>1. n \in 0 .. BITS /\ n # 0
    BY <1>3, <1>4
  <2> QED BY <2>1, Sizes
<1>6. Linear(n - 1)
  BY <1>3, <1>5
<1>7. ASSUME NEW v \in Word, NEW w \in Word
      PROVE  byte_table[n][Xor(v, w)] = Xor(byte_table[n][v], byte_table[n][w])
  <2>1. /\ Xor(v, w) \in Word /\ Shifted(v) \in Word /\ Shifted(w) \in Word
        /\ Shifted(Xor(v, w)) = Xor(Shifted(v), Shifted(w))
    BY XorType, ShiftedType, ShiftedOfXor
  <2>2. byte_table[n][Xor(v, w)] = byte_table[n - 1][Xor(Shifted(v), Shifted(w))]
    BY <1>5, <2>1, ByteTableEquations
  <2> QED BY <1>5, <1>6, <2>1, <2>2, ByteTableEquations
<1> QED BY <1>3, <1>7

(* A word whose low bits are 0 is only shifted.                            *)
LEMMA ByteTableOfHigh ==
  \A n \in 0 .. BITS : \A w \in Word :
    w \cap (0 .. n - 1) = {} => byte_table[n][w] = Shr(w, n)
<1> DEFINE Shifts(n) == \A w \in Word :
             w \cap (0 .. n - 1) = {} => byte_table[n][w] = Shr(w, n)
           T == {n \in 0 .. BITS : ~ Shifts(n)}
<1>1. SUFFICES ASSUME T # {} PROVE FALSE
  OBVIOUS
<1>2. T \in SUBSET Nat
  OBVIOUS
<1>3. PICK n \in T : \A m \in T : n <= m
  BY <1>1, <1>2, LeastOf
<1>4. Shifts(0)
  BY ByteTableEquations, ShrByNone
<1>5. n \in 1 .. BITS /\ n - 1 \in 0 .. BITS /\ ~ (n <= n - 1) /\ n - 1 \in Nat
  <2> HIDE DEF Shifts
  <2>1. n \in 0 .. BITS /\ n # 0
    BY <1>3, <1>4
  <2> QED BY <2>1, Sizes
<1>6. Shifts(n - 1)
  BY <1>3, <1>5
<1>7. ASSUME NEW w \in Word, w \cap (0 .. n - 1) = {}
      PROVE  byte_table[n][w] = Shr(w, n)
  <2> DEFINE v == Shr(w, 1)
  <2>1. v \in Word /\ Shifted(w) = v
    <3>1. 0 \notin w
      BY <1>5, <1>7
    <3> QED BY <3>1, ShrType DEF Shifted
  <2>2. v \cap (0 .. (n - 1) - 1) = {}
    <3>1. ASSUME NEW x \in v, x \in 0 .. (n - 1) - 1 PROVE FALSE
      <4>1. x \in Nat /\ x + 1 \in w
        BY InShr, WordsAreBits
      <4>2. x + 1 \in 0 .. n - 1
        BY <1>5, <3>1, <4>1
      <4> QED BY <1>7, <4>1, <4>2
    <3> QED BY <3>1
  <2>3. Shr(v, n - 1) = Shr(w, n)
    <3>1. 1 + (n - 1) = n
      BY <1>5
    <3> QED BY <1>5, <3>1, ShrOfShr
  <2> HIDE DEF v
  <2> QED BY <1>5, <1>6, <2>1, <2>2, <2>3, ByteTableEquations
<1> QED BY <1>3, <1>7

(* What BITS steps of the register make of a word.                         *)
AfterByte(w) == byte_table[BITS][w]

LEMMA AfterByteProperties ==
  /\ \A w \in Word : AfterByte(w) \in Word
  /\ \A v, w \in Word : AfterByte(Xor(v, w)) = Xor(AfterByte(v), AfterByte(w))
  /\ \A w \in Word : AfterByte(w) = Xor(Shr(w, BITS), byte_table[BITS][Low(w)])
<1>1. BITS \in 0 .. BITS /\ BITS \in Nat
  BY Sizes
<1>2. \A w \in Word : AfterByte(w) \in Word
  BY <1>1, ByteTableEquations DEF AfterByte
<1>3. \A v, w \in Word : AfterByte(Xor(v, w)) = Xor(AfterByte(v), AfterByte(w))
  BY <1>1, ByteTableOfXor DEF AfterByte
<1>4. ASSUME NEW w \in Word
      PROVE  AfterByte(w) = Xor(Shr(w, BITS), byte_table[BITS][Low(w)])
  <2> DEFINE high == w \ Low(w)
  <2>1. high \in Word /\ Low(w) \in Word /\ w = Xor(high, Low(w))
        /\ high \cap (0 .. BITS - 1) = {}
    BY DEF Low, Xor, Word
  <2>2. Shr(high, BITS) = Shr(w, BITS)
    <3>1. ASSUME NEW x
          PROVE  x \in Shr(high, BITS) <=> x \in Shr(w, BITS)
      <4>1. /\ x \in Shr(high, BITS) <=> x \in Nat /\ x + BITS \in high
            /\ x \in Shr(w, BITS) <=> x \in Nat /\ x + BITS \in w
        BY <1>1, <2>1, InShr, WordsAreBits
      <4>2. x \in Nat => x + BITS \notin 0 .. BITS - 1
        BY <1>1
      <4> QED BY <4>1, <4>2 DEF Low
    <3> QED BY <3>1
  <2> HIDE DEF high
  <2>3. AfterByte(high) = Shr(w, BITS)
    BY <1>1, <2>1, <2>2, ByteTableOfHigh DEF AfterByte
  <2> QED BY <1>3, <2>1, <2>3 DEF AfterByte
<1> QED BY <1>2, <1>3, <1>4

(* The table of k is that of a byte with k bytes of zero behind it.        *)
LEMMA TableEquations ==
  /\ \A k \in 0 .. SLICE - 1 : TABLE[k] \in [ByteWord -> Word]
  /\ \A w \in ByteWord : TABLE[0][w] = AfterByte(w)
  /\ \A k \in 1 .. SLICE - 1, w \in ByteWord :
       TABLE[k][w] = AfterByte(TABLE[k - 1][w])
<1> DEFINE A == [ByteWord -> Word]
           first == [w \in ByteWord |-> byte_table[BITS][w]]
           Next1(prev) == Xor(Shr(prev, BITS), byte_table[BITS][Low(prev)])
           after == [k \in 1 .. SLICE - 1 |->
                       [f \in A |-> [w \in ByteWord |-> Next1(f[w])]]]
           Body(f) == [k \in 0 .. SLICE - 1 |->
                         [w \in ByteWord |->
                            IF k = 0 THEN byte_table[BITS][w]
                            ELSE LET prev == f[k - 1][w]
                                 IN  Xor(Shr(prev, BITS),
                                         byte_table[BITS][Low(prev)])]]
<1>1. \A w \in Word : Next1(w) = AfterByte(w) /\ AfterByte(w) \in Word
  BY AfterByteProperties
<1>2. first \in A /\ \A w \in ByteWord : first[w] = AfterByte(w)
  BY AfterByteProperties, Sizes DEF AfterByte
<1> HIDE DEF first
<1>3. after \in [1 .. SLICE - 1 -> [A -> A]]
  <2>1. ASSUME NEW f \in A, NEW w \in ByteWord PROVE Next1(f[w]) \in Word
    <3>1. f[w] \in Word
      OBVIOUS
    <3> HIDE DEF Next1
    <3> QED BY <1>1, <3>1
  <2> HIDE DEF Next1
  <2> QED BY <2>1
<1>4. SLICE - 1 \in Nat
  BY Sizes
<1> HIDE DEF A, after
<1>5. PICK f \in [0 .. SLICE - 1 -> A] :
             /\ f[0] = first
             /\ \A k \in 1 .. SLICE - 1 : f[k] = after[k][f[k - 1]]
  <2>1. Recursions(SLICE - 1, A, first, after) # {}
    BY <1>2, <1>3, <1>4, RecursionExists
  <2> QED BY <2>1 DEF Recursions, Follows
<1>6. f = Body(f)
  <2>1. ASSUME NEW k \in 0 .. SLICE - 1
        PROVE  f[k] = [w \in ByteWord |->
                         IF k = 0 THEN byte_table[BITS][w] ELSE Next1(f[k - 1][w])]
    <3>1. CASE k = 0
      BY <1>5, <3>1 DEF first
    <3>2. CASE k # 0
      <4>1. k \in 1 .. SLICE - 1 /\ k - 1 \in 0 .. SLICE - 1
        BY <1>4, <3>2
      <4>2. f[k] = after[k][f[k - 1]] /\ f[k - 1] \in A
        BY <1>5, <4>1
      <4> HIDE DEF Next1
      <4>3. after[k][f[k - 1]] = [w \in ByteWord |-> Next1(f[k - 1][w])]
        BY <4>1, <4>2 DEF after
      <4> QED BY <3>2, <4>2, <4>3
    <3> QED BY <3>1, <3>2
  <2>2. f = [k \in 0 .. SLICE - 1 |-> f[k]]
    BY <1>5
  <2> QED BY <2>1, <2>2
<1>7. TABLE = Body(TABLE)
  <2>1. TABLE = CHOOSE g : g = Body(g)
    BY DEF TABLE, make_table
  <2> HIDE DEF Body
  <2> QED BY <1>6, <2>1
<1>8. TABLE[0] = first
  BY <1>4, <1>7 DEF first
<1>9. ASSUME NEW k \in 1 .. SLICE - 1
      PROVE  TABLE[k] = [w \in ByteWord |-> Next1(TABLE[k - 1][w])]
  <2>1. k \in 0 .. SLICE - 1 /\ k # 0
    BY <1>4
  <2> QED BY <1>7, <2>1
<1> HIDE DEF Body, Next1
<1>10. \A k \in 0 .. SLICE - 1 : TABLE[k] \in A
  <2> DEFINE T == {k \in 0 .. SLICE - 1 : TABLE[k] \notin A}
  <2>1. SUFFICES ASSUME T # {} PROVE FALSE
    OBVIOUS
  <2>2. T \in SUBSET Nat
    OBVIOUS
  <2>3. PICK k \in T : \A m \in T : k <= m
    BY <2>1, <2>2, LeastOf
  <2>4. k \in 1 .. SLICE - 1 /\ k - 1 \in 0 .. SLICE - 1 /\ ~ (k <= k - 1)
    <3>1. k \in 0 .. SLICE - 1 /\ k # 0
      BY <1>2, <1>8, <2>3
    <3> QED BY <1>4, <3>1
  <2>5. TABLE[k - 1] \in A
    BY <2>3, <2>4
  <2>6. TABLE[k] \in A
    <3>1. \A w \in ByteWord : Next1(TABLE[k - 1][w]) \in Word
      BY <1>1, <2>5 DEF A
    <3> QED BY <1>9, <2>4, <3>1 DEF A
  <2> QED BY <2>3, <2>6
<1>11. ASSUME NEW k \in 1 .. SLICE - 1, NEW w \in ByteWord
       PROVE  TABLE[k][w] = AfterByte(TABLE[k - 1][w])
  <2>1. k - 1 \in 0 .. SLICE - 1
    BY <1>4
  <2>2. TABLE[k - 1][w] \in Word
    BY <1>10, <2>1 DEF A
  <2> QED BY <1>1, <1>9, <2>2
<1> QED BY <1>2, <1>8, <1>10, <1>11 DEF A
-----------------------------------------------------------------------------
(* The exclusive or of the first n words.                                  *)
XorOf(words, n) ==
  {x \in 0 .. WIDTH - 1 :
     Cardinality({k \in 1 .. n : x \in words[k]}) % 2 = 1}

LEMMA XorOfOneMore ==
  ASSUME NEW words, NEW n \in Nat, words[n + 1] \in Word
  PROVE  XorOf(words, n + 1) = Xor(XorOf(words, n), words[n + 1])
<1>1. ASSUME NEW x \in 0 .. WIDTH - 1
      PROVE  x \in XorOf(words, n + 1)
               <=> ~ (x \in XorOf(words, n) <=> x \in words[n + 1])
  <2> DEFINE those == {k \in 1 .. n : x \in words[k]}
             more  == {k \in 1 .. n + 1 : x \in words[k]}
             c == Cardinality(those)
  <2>1. IsFiniteSet(those) /\ c \in Nat
    <3>1. IsFiniteSet(1 .. n)
      BY FS_Interval
    <3>2. those \in SUBSET (1 .. n)
      OBVIOUS
    <3> HIDE DEF those
    <3> QED BY <3>1, <3>2, FS_Subset, FS_CardinalityType
  <2>2. n + 1 \notin those
    OBVIOUS
  <2>3. CASE x \in words[n + 1]
    <3>1. more = those \cup {n + 1}
      BY <2>3
    <3> HIDE DEF those, more
    <3>2. Cardinality(more) = c + 1
      BY <2>1, <2>2, <3>1, FS_AddElement
    <3>3. (c + 1) % 2 = 1 <=> ~ (c % 2 = 1)
      <4> HIDE DEF c
      <4> QED BY <2>1
    <3> QED BY <2>3, <3>2, <3>3 DEF XorOf, more, those
  <2>4. CASE x \notin words[n + 1]
    <3>1. more = those
      BY <2>4
    <3> QED BY <2>4, <3>1 DEF XorOf
  <2> QED BY <2>3, <2>4
<1>2. /\ XorOf(words, n) \subseteq 0 .. WIDTH - 1
      /\ XorOf(words, n + 1) \subseteq 0 .. WIDTH - 1
      /\ words[n + 1] \subseteq 0 .. WIDTH - 1
  BY DEF XorOf, Word
<1> QED BY <1>1, <1>2 DEF Xor

LEMMA XorOfType ==
  /\ \A words, n : XorOf(words, n) \in Word
  /\ \A words : XorOf(words, 0) = {}
<1>1. \A words, n : XorOf(words, n) \in Word
  BY DEF XorOf, Word
<1>2. ASSUME NEW words PROVE XorOf(words, 0) = {}
  <2>1. \A x : {k \in 1 .. 0 : x \in words[k]} = {}
    OBVIOUS
  <2>2. Cardinality({}) = 0
    BY FS_EmptySet
  <2> QED BY <2>1, <2>2 DEF XorOf
<1> QED BY <1>1, <1>2

LEMMA XorOfSame ==
  ASSUME NEW v, NEW w, NEW n, \A k \in 1 .. n : v[k] = w[k]
  PROVE  XorOf(v, n) = XorOf(w, n)
<1>1. \A x : {k \in 1 .. n : x \in v[k]} = {k \in 1 .. n : x \in w[k]}
  OBVIOUS
<1> QED BY <1>1 DEF XorOf

LEMMA AfterByteOfNone == AfterByte({}) = {}
<1>1. {} \in Word /\ Xor({}, {}) = {}
  BY XorLaws DEF Word
<1>2. AfterByte({}) = Xor(AfterByte({}), AfterByte({}))
  BY <1>1, AfterByteProperties
<1> QED BY <1>2, XorLaws

LEMMA AfterByteOfXorOf ==
  ASSUME NEW n \in Nat, NEW words \in [1 .. n -> Word]
  PROVE  \A m \in 0 .. n :
           AfterByte(XorOf(words, m))
             = XorOf([k \in 1 .. n |-> AfterByte(words[k])], m)
<1> DEFINE after == [k \in 1 .. n |-> AfterByte(words[k])]
           Same(m) == AfterByte(XorOf(words, m)) = XorOf(after, m)
           T == {m \in 0 .. n : ~ Same(m)}
<1>1. SUFFICES ASSUME T # {} PROVE FALSE
  OBVIOUS
<1>2. T \in SUBSET Nat
  OBVIOUS
<1>3. PICK m \in T : \A k \in T : m <= k
  BY <1>1, <1>2, LeastOf
<1>4. Same(0)
  BY XorOfType, AfterByteOfNone
<1> DEFINE d == m - 1
<1>5. d \in Nat /\ d \in 0 .. n /\ m = d + 1 /\ m \in 1 .. n /\ ~ (m <= d)
  <2> HIDE DEF Same
  <2>1. m \in 0 .. n /\ m # 0
    BY <1>3, <1>4
  <2> QED BY <2>1
<1>6. Same(d)
  BY <1>3, <1>5
<1> HIDE DEF d
<1>7. words[d + 1] \in Word /\ after[d + 1] = AfterByte(words[d + 1])
      /\ after[d + 1] \in Word
  BY <1>5, AfterByteProperties
<1> HIDE DEF after
<1>8. XorOf(words, d + 1) = Xor(XorOf(words, d), words[d + 1])
      /\ XorOf(after, d + 1) = Xor(XorOf(after, d), after[d + 1])
  BY <1>5, <1>7, XorOfOneMore
<1>9. Same(d + 1)
  BY <1>6, <1>7, <1>8, XorOfType, AfterByteProperties
<1> QED BY <1>3, <1>5, <1>9
-----------------------------------------------------------------------------
(* The definition of a CRC, by its equations.                              *)
BitStep(bit, w) == IF bit # (0 \in w) THEN Xor(Shr(w, 1), POLYNOMIAL)
                                      ELSE Shr(w, 1)

BitSteps(input) ==
  [n \in 1 .. BITS * Len(input) |->
     [w \in Word |->
        BitStep((n - 1) % BITS \in input[(n - 1) \div BITS + 1], w)]]

(* The registers behind each bit of a message.                             *)
IsRun(f, input) ==
  f \in Recursions(BITS * Len(input), Word, 0 .. WIDTH - 1, BitSteps(input))

LEMMA BitStepType == \A bit : \A w \in Word : BitStep(bit, w) \in Word
BY ShrType, XorType, Sizes DEF BitStep

LEMMA RegisterIs ==
  ASSUME NEW input \in Seq(ByteWord)
  PROVE  \E f : IsRun(f, input) /\ Register(input) = f[BITS * Len(input)]
<1> DEFINE N == BITS * Len(input)
           Body(f) ==
             [n \in 0 .. BITS * Len(input) |->
                IF n = 0 THEN 0 .. WIDTH - 1
                ELSE LET bit == (n - 1) % BITS \in input[(n - 1) \div BITS + 1]
                         w   == f[n - 1]
                     IN  IF bit # (0 \in w) THEN Xor(Shr(w, 1), POLYNOMIAL)
                                            ELSE Shr(w, 1)]
<1>1. N \in Nat
  <2>1. Len(input) \in Nat /\ BITS \in Nat
    BY Sizes
  <2> QED BY <2>1, Product
<1>2. BitSteps(input) \in [1 .. N -> [Word -> Word]]
  <2>1. ASSUME NEW n, NEW w \in Word
        PROVE  BitStep((n - 1) % BITS \in input[(n - 1) \div BITS + 1], w) \in Word
    BY BitStepType
  <2> QED BY <2>1 DEF BitSteps
<1>3. PICK f : IsRun(f, input)
  <2>1. Recursions(N, Word, 0 .. WIDTH - 1, BitSteps(input)) # {}
    <3> HIDE DEF N
    <3> QED BY <1>1, <1>2, Sizes, RecursionExists
  <2> QED BY <2>1 DEF IsRun
<1>4. f \in [0 .. N -> Word] /\ f[0] = 0 .. WIDTH - 1
      /\ \A n \in 1 .. N : f[n] = BitSteps(input)[n][f[n - 1]]
  BY <1>3 DEF IsRun, Recursions, Follows
<1>5. ASSUME NEW n \in 0 .. N, n # 0
      PROVE  f[n] = BitStep((n - 1) % BITS \in input[(n - 1) \div BITS + 1],
                            f[n - 1])
  <2>1. n \in 1 .. N /\ n - 1 \in 0 .. N
    <3> HIDE DEF N
    <3> QED BY <1>1, <1>5
  <2>2. f[n - 1] \in Word
    BY <1>4, <2>1
  <2>3. f[n] = BitSteps(input)[n][f[n - 1]]
    BY <1>4, <2>1
  <2> QED BY <2>1, <2>2, <2>3 DEF BitSteps
<1>6. f = Body(f)
  <2>1. ASSUME NEW n \in 0 .. N, n # 0
        PROVE  f[n] = BitStep((n - 1) % BITS \in input[(n - 1) \div BITS + 1],
                              f[n - 1])
    BY <1>5, <2>1
  <2>2. f = [n \in 0 .. N |-> f[n]]
    BY <1>4
  <2>3. f = [n \in 0 .. N |->
               IF n = 0 THEN 0 .. WIDTH - 1
               ELSE BitStep((n - 1) % BITS \in input[(n - 1) \div BITS + 1],
                            f[n - 1])]
    BY <1>4, <2>1, <2>2
  <2> QED BY <2>3 DEF BitStep
<1> DEFINE run == CHOOSE g : g = Body(g)
<1>7. run = Body(run)
  <2> HIDE DEF Body
  <2> QED BY <1>6
<1>8. Register(input) = run[N]
  BY DEF Register
<1> HIDE DEF run
<1>9. run[0] = 0 .. WIDTH - 1
      /\ \A n \in 1 .. N :
           run[n] = BitStep((n - 1) % BITS \in input[(n - 1) \div BITS + 1],
                            run[n - 1])
  <2>1. 0 \in 0 .. N /\ \A n \in 1 .. N : n \in 0 .. N /\ n # 0
    BY <1>1
  <2>2. run = [n \in 0 .. N |->
                 IF n = 0 THEN 0 .. WIDTH - 1
                 ELSE BitStep((n - 1) % BITS \in input[(n - 1) \div BITS + 1],
                              run[n - 1])]
    BY <1>7 DEF BitStep
  <2> HIDE DEF N
  <2> QED BY <2>1, <2>2
<1>10. \A n \in 0 .. N : f[n] = run[n]
  <2> HIDE DEF N
  <2> DEFINE T == {n \in 0 .. N : f[n] # run[n]}
  <2>1. SUFFICES ASSUME T # {} PROVE FALSE
    OBVIOUS
  <2>2. T \in SUBSET Nat
    OBVIOUS
  <2>3. PICK n \in T : \A m \in T : n <= m
    BY <2>1, <2>2, LeastOf
  <2>4. n \in 0 .. N /\ n # 0 /\ f[n] # run[n]
    BY <1>4, <1>9, <2>3
  <2>5. n \in 1 .. N /\ n - 1 \in 0 .. N /\ ~ (n <= n - 1)
    BY <1>1, <2>4
  <2>6. f[n - 1] = run[n - 1]
    BY <2>3, <2>5
  <2>7. f[n] = run[n]
    BY <1>5, <1>9, <2>4, <2>5, <2>6
  <2> QED BY <2>4, <2>7
<1> QED BY <1>1, <1>3, <1>8, <1>10

LEMMA RegisterOfNone == Register(<< >>) = 0 .. WIDTH - 1
<1>1. << >> \in Seq(ByteWord) /\ Len(<< >>) = 0
  BY EmptySeq
<1>2. PICK f : IsRun(f, << >>) /\ Register(<< >>) = f[BITS * Len(<< >>)]
  BY <1>1, RegisterIs
<1>3. BITS * Len(<< >>) = 0
  BY <1>1, Sizes
<1> QED BY <1>2, <1>3 DEF IsRun, Recursions, Follows

(* The bit that comes next meets the lowest bit of the register.  Joined   *)
(* with what of its byte is still to come, the register only shifts.       *)
LEMMA BitStepShifts ==
  ASSUME NEW w \in Word, NEW byte \in ByteWord, NEW e \in Nat
  PROVE  Shifted(Xor(w, Shr(byte, e)))
           = Xor(BitStep(e \in byte, w), Shr(byte, e + 1))
<1>1. byte \in Word /\ byte \in SUBSET Nat /\ Shr(byte, e) \in Word
  BY Sizes, WordsAreBits, ShrType
<1>2. 0 \in Shr(byte, e) <=> e \in byte
  BY <1>1, InShr
<1>3. 0 \in Xor(w, Shr(byte, e)) <=> ~ (0 \in w <=> e \in byte)
  BY <1>2, InXor
<1>4. Shr(Shr(byte, e), 1) = Shr(byte, e + 1)
  BY <1>1, ShrOfShr
<1>5. Shr(Xor(w, Shr(byte, e)), 1) = Xor(Shr(w, 1), Shr(byte, e + 1))
  BY <1>1, <1>4, ShrOfXor
<1> DEFINE u == Shr(w, 1)
           c == Shr(byte, e + 1)
<1> HIDE DEF u, c
<1>6. Xor(Xor(u, c), POLYNOMIAL) = Xor(Xor(u, POLYNOMIAL), c)
  BY DEF Xor
<1>7. Shifted(Xor(w, Shr(byte, e)))
        = IF ~ (0 \in w <=> e \in byte) THEN Xor(Xor(u, c), POLYNOMIAL)
                                     ELSE Xor(u, c)
  BY <1>3, <1>5 DEF Shifted, u, c
<1>8. BitStep(e \in byte, w) = IF ~ (0 \in w <=> e \in byte) THEN Xor(u, POLYNOMIAL)
                                                       ELSE u
  <2>1. (e \in byte) # (0 \in w) <=> ~ (0 \in w <=> e \in byte)
    OBVIOUS
  <2> QED BY <2>1 DEF BitStep, u
<1>9. Shifted(Xor(w, Shr(byte, e))) = Xor(BitStep(e \in byte, w), c)
  BY <1>6, <1>7, <1>8
<1> QED BY <1>9 DEF c

(* A byte more in the message is BITS steps of the register at once.       *)
LEMMA RegisterOfAppend ==
  ASSUME NEW s \in Seq(ByteWord), NEW byte \in ByteWord
  PROVE  /\ Register(s) \in Word
         /\ Register(Append(s, byte)) = AfterByte(Xor(Register(s), byte))
<1> DEFINE t == Append(s, byte)
           k == Len(s)
           N == BITS * k
<1>1. t \in Seq(ByteWord) /\ Len(t) = k + 1 /\ k \in Nat /\ t[k + 1] = byte
      /\ \A e \in 1 .. k : t[e] = s[e]
  BY AppendProperties, LenProperties
<1>2. BITS \in Nat \ {0} /\ N \in Nat /\ BITS * (k + 1) = N + BITS
  BY <1>1, Sizes, Product
<1>3. PICK f : IsRun(f, s) /\ Register(s) = f[N]
  BY RegisterIs
<1> HIDE DEF t
<1>4. PICK g : IsRun(g, t) /\ Register(t) = g[BITS * Len(t)]
  BY <1>1, RegisterIs
<1>5. /\ f \in [0 .. N -> Word] /\ f[0] = 0 .. WIDTH - 1
      /\ \A n \in 1 .. N : f[n] = BitSteps(s)[n][f[n - 1]]
  BY <1>3 DEF IsRun, Recursions, Follows
<1> HIDE DEF k, N
<1>6. /\ g \in [0 .. N + BITS -> Word] /\ g[0] = 0 .. WIDTH - 1
      /\ \A n \in 1 .. N + BITS : g[n] = BitSteps(t)[n][g[n - 1]]
      /\ Register(t) = g[N + BITS]
  <2>1. BITS * Len(t) = N + BITS
    BY <1>1, <1>2
  <2> QED BY <1>4, <2>1 DEF IsRun, Recursions, Follows
<1>7. \A n \in 1 .. N + BITS :
        g[n] = BitStep((n - 1) % BITS \in t[(n - 1) \div BITS + 1], g[n - 1])
  <2> TAKE n \in 1 .. N + BITS
  <2>1. n - 1 \in 0 .. N + BITS
    BY <1>2
  <2>2. g[n - 1] \in Word /\ g[n] = BitSteps(t)[n][g[n - 1]]
    BY <1>6, <2>1
  <2>3. n \in 1 .. BITS * Len(t)
    BY <1>1, <1>2
  <2> QED BY <2>2, <2>3 DEF BitSteps
(* The message without its last byte goes through the same registers.      *)
<1>8. \A n \in 0 .. N : f[n] = g[n]
  <2>1. ASSUME NEW n \in 1 .. N
        PROVE  g[n] = BitSteps(s)[n][g[n - 1]]
    <3> DEFINE r == (n - 1) % BITS
               q == (n - 1) \div BITS
    <3>1. n - 1 \in Nat /\ n \in 1 .. N + BITS /\ n - 1 \in 0 .. N + BITS
      BY <1>2
    <3>2. r \in 0 .. BITS - 1 /\ q \in Nat /\ n - 1 = r + BITS * q
      BY <1>2, <3>1, Division
    <3> HIDE DEF r, q
    <3>3. q < k
      <4>1. ASSUME k <= q PROVE FALSE
        <5>1. BITS * k <= BITS * q
          BY <1>1, <1>2, <3>2, <4>1, Monotone
        <5>2. BITS * q \in Nat
          BY <1>2, <3>2, Product
        <5> QED BY <1>2, <3>2, <5>1, <5>2 DEF N
      <4> QED BY <1>1, <3>2, <4>1
    <3>4. t[q + 1] = s[q + 1]
      <4>1. q + 1 \in 1 .. k
        BY <1>1, <3>2, <3>3
      <4> QED BY <1>1, <4>1
    <3>5. g[n] = BitStep(r \in s[q + 1], g[n - 1])
      BY <1>7, <3>1, <3>4 DEF r, q
    <3>6. g[n - 1] \in Word
      BY <1>6, <3>1
    <3> QED BY <3>5, <3>6 DEF BitSteps, r, q, N, k
  <2>2. f[0] = g[0]
    BY <1>5, <1>6
  <2>3. Follows(f, N, BitSteps(s)) /\ Follows(g, N, BitSteps(s))
    BY <1>5, <2>1 DEF Follows
  <2> QED BY <1>2, <2>2, <2>3, RecursionUnique
<1> DEFINE Rest(e) ==
      byte_table[BITS - e][Xor(g[N + e], Shr(byte, e))] = AfterByte(Xor(g[N], byte))
           T == {e \in 0 .. BITS : ~ Rest(e)}
<1>9. T = {}
  <2>1. SUFFICES ASSUME T # {} PROVE FALSE
    OBVIOUS
  <2>2. T \in SUBSET Nat
    OBVIOUS
  <2>3. PICK e \in T : \A m \in T : e <= m
    BY <2>1, <2>2, LeastOf
  <2>4. Rest(0)
    <3>1. Shr(byte, 0) = byte
      BY ShrByNone, Sizes
    <3>2. BITS - 0 = BITS /\ N + 0 = N
      BY <1>2
    <3> QED BY <3>1, <3>2 DEF AfterByte
  <2> DEFINE d == e - 1
  <2>5. d \in Nat /\ d \in 0 .. BITS - 1 /\ d \in 0 .. BITS
        /\ e = d + 1 /\ ~ (e <= d)
    <3> HIDE DEF Rest
    <3>1. e \in 0 .. BITS /\ e # 0
      BY <2>3, <2>4
    <3> QED BY <1>2, <3>1
  <2>6. Rest(d)
    BY <2>3, <2>5
  <2> HIDE DEF d
  <2>7. g[N + d] \in Word /\ N + d + 1 \in 1 .. N + BITS /\ N + d + 1 - 1 = N + d
    <3>1. N + d \in 0 .. N + BITS
      BY <1>2, <2>5
    <3> QED BY <1>2, <1>6, <2>5, <3>1
  <2>8. (N + d) % BITS = d /\ (N + d) \div BITS = k
    <3>1. N + d = d + BITS * k
      BY <1>2, <2>5 DEF N
    <3>2. (d + BITS * k) % BITS = d /\ (d + BITS * k) \div BITS = k
      BY <1>1, <1>2, <2>5, Remainder
    <3> QED BY <3>1, <3>2
  <2>9. g[N + d + 1] = BitStep(d \in byte, g[N + d])
    <3>1. g[N + d + 1]
            = BitStep((N + d) % BITS \in t[(N + d) \div BITS + 1], g[N + d])
      <4> DEFINE n == N + d + 1
      <4>1. n \in 1 .. N + BITS /\ n - 1 = N + d
        BY <1>2, <2>5, <2>7
      <4> HIDE DEF n
      <4>2. g[n] = BitStep((n - 1) % BITS \in t[(n - 1) \div BITS + 1], g[n - 1])
        BY <1>7, <4>1
      <4> QED BY <4>1, <4>2 DEF n
    <3> QED BY <1>1, <2>8, <3>1
  <2>10. Xor(g[N + d + 1], Shr(byte, d + 1)) = Shifted(Xor(g[N + d], Shr(byte, d)))
    BY <2>5, <2>7, <2>9, BitStepShifts
  <2>11. Xor(g[N + d], Shr(byte, d)) \in Word
    BY <2>5, <2>7, Sizes, ShrType, XorType
  <2>12. BITS - d \in 1 .. BITS /\ (BITS - d) - 1 = BITS - (d + 1)
    BY <1>2, <2>5
  <2>13. byte_table[BITS - (d + 1)][Xor(g[N + d + 1], Shr(byte, d + 1))]
           = byte_table[BITS - d][Xor(g[N + d], Shr(byte, d))]
    BY <2>10, <2>11, <2>12, ByteTableEquations
  <2>14. N + d + 1 = N + (d + 1)
    BY <1>2, <2>5
  <2>15. Rest(d + 1)
    BY <2>6, <2>13, <2>14
  <2> QED BY <2>3, <2>5, <2>15
<1>10. Rest(BITS)
  <2> HIDE DEF Rest
  <2>1. BITS \in 0 .. BITS
    BY <1>2
  <2> QED BY <1>9, <2>1
<1>11. g[N + BITS] = AfterByte(Xor(g[N], byte))
  <2>1. BITS - BITS = 0 /\ Shr(byte, BITS) = {} /\ N + BITS \in 0 .. N + BITS
    BY <1>2, ShrIsEmpty
  <2>2. Xor(g[N + BITS], Shr(byte, BITS)) = g[N + BITS] /\ g[N + BITS] \in Word
    BY <1>6, <2>1, XorLaws
  <2> QED BY <1>10, <2>1, <2>2, ByteTableEquations
<1>12. f[N] = g[N] /\ f[N] \in Word
  <2>1. N \in 0 .. N
    BY <1>2
  <2> QED BY <1>5, <1>8, <2>1
<1> QED BY <1>3, <1>6, <1>11, <1>12 DEF t
-----------------------------------------------------------------------------
(* What each byte of a slice has come to when j of them have been read: it *)
(* is looked up in the table of its distance from there.                   *)
LookedUp(d) == [k \in 1 .. d |-> TABLE[d - k][Mixed(k)]]

LEMMA LookedUpType ==
  ASSUME crc \in Word, rest \in Seq(ByteWord), SLICE <= Len(rest),
         NEW d \in 0 .. SLICE
  PROVE  /\ \A k \in 1 .. SLICE : Mixed(k) \in ByteWord
         /\ LookedUp(d) \in [1 .. d -> Word]
<1>1. SLICE \in Nat \ {0} /\ Len(rest) \in Nat /\ BITS \in Nat
  BY Sizes
<1>2. ASSUME NEW k \in 1 .. SLICE PROVE Mixed(k) \in ByteWord
  <2>1. k \in 1 .. Len(rest) /\ k - 1 \in Nat
    BY <1>1
  <2>2. rest[k] \in ByteWord
    BY <2>1, ElementOfSeq
  <2>3. (k - 1) * BITS \in Nat
    BY <1>1, <2>1, Product
  <2>4. Low(Shr(crc, (k - 1) * BITS)) \in ByteWord
    BY <2>3, ShrType, LowType
  <2> QED BY <2>2, <2>4 DEF Mixed, Xor, ByteWord
<1>3. ASSUME NEW k \in 1 .. d PROVE TABLE[d - k][Mixed(k)] \in Word
  <2>1. d - k \in 0 .. SLICE - 1 /\ k \in 1 .. SLICE
    BY <1>1
  <2> QED BY <1>2, <2>1, TableEquations
<1> QED BY <1>2, <1>3 DEF LookedUp

LEMMA SliceByBytes ==
  ASSUME crc \in Word, rest \in Seq(ByteWord), seen \in Seq(ByteWord),
         SLICE <= Len(rest), Register(seen) = crc
  PROVE  \A d \in 0 .. SLICE :
           Register(seen \o SubSeq(rest, 1, d))
             = Xor(Shr(crc, d * BITS), XorOf(LookedUp(d), d))
<1> DEFINE Behind(d) == Register(seen \o SubSeq(rest, 1, d))
           Joined(d) == Xor(Shr(crc, d * BITS), XorOf(LookedUp(d), d))
           T == {d \in 0 .. SLICE : Behind(d) # Joined(d)}
<1>1. SUFFICES ASSUME T # {} PROVE FALSE
  OBVIOUS
<1>2. T \in SUBSET Nat
  OBVIOUS
<1>3. PICK n \in T : \A m \in T : n <= m
  BY <1>1, <1>2, LeastOf
<1>4. /\ SLICE \in Nat \ {0} /\ Len(rest) \in Nat /\ BITS \in Nat \ {0}
      /\ rest \in Seq(ByteWord) /\ seen \in Seq(ByteWord) /\ crc \in Word
  BY Sizes, LenProperties
<1>5. Behind(0) = Joined(0)
  <2>1. seen \o SubSeq(rest, 1, 0) = seen
    BY <1>4, TakeNone
  <2>2. 0 * BITS = 0
    BY <1>4
  <2>3. Joined(0) = crc
    BY <2>2, ShrByNone, XorOfType, XorLaws
  <2> QED BY <2>1, <2>3
<1> DEFINE d == n - 1
<1>6. d \in Nat /\ d \in 0 .. SLICE /\ d + 1 \in 1 .. SLICE
      /\ n = d + 1 /\ ~ (n <= d)
  <2> HIDE DEF Behind, Joined
  <2>1. n \in 0 .. SLICE /\ n # 0
    BY <1>3, <1>5
  <2> QED BY <1>4, <2>1
<1>7. Behind(d) = Joined(d)
  BY <1>3, <1>6
<1> HIDE DEF d
<1> DEFINE byte == rest[d + 1]
           H == Shr(crc, d * BITS)
           X == XorOf(LookedUp(d), d)
           M == Mixed(d + 1)
           Y == XorOf(LookedUp(d + 1), d)
<1>8. /\ byte \in ByteWord /\ byte \in Word /\ H \in Word /\ X \in Word
      /\ M \in ByteWord /\ Y \in Word
      /\ LookedUp(d) \in [1 .. d -> Word]
      /\ LookedUp(d + 1) \in [1 .. d + 1 -> Word]
  <2>1. d + 1 \in 1 .. Len(rest) /\ d + 1 \in 0 .. SLICE
    BY <1>4, <1>6
  <2>2. byte \in ByteWord /\ byte \in Word
    BY <1>4, <2>1, ElementOfSeq, Sizes
  <2>3. H \in Word
    <3>1. d * BITS \in Nat
      BY <1>4, <1>6, Product
    <3> QED BY <1>4, <3>1, ShrType
  <2> QED BY <1>4, <1>6, <2>1, <2>2, <2>3, XorOfType, LookedUpType
<1>9. Behind(d + 1) = AfterByte(Xor(Behind(d), byte))
  <2>1. /\ seen \o SubSeq(rest, 1, d) \in Seq(ByteWord)
        /\ seen \o SubSeq(rest, 1, d + 1) = Append(seen \o SubSeq(rest, 1, d), byte)
    <3>1. d \in 0 .. Len(rest) - 1
      BY <1>4, <1>6
    <3> QED BY <1>4, <3>1, TakeOneMore
  <2> QED BY <1>8, <2>1, RegisterOfAppend
<1>10. Behind(d + 1) = Xor(AfterByte(Xor(H, byte)), AfterByte(X))
  <2>1. Behind(d) = Xor(H, X)
    BY <1>7
  <2> HIDE DEF H, X, byte, Behind
  <2>2. Xor(Xor(H, X), byte) = Xor(Xor(H, byte), X)
    BY DEF Xor
  <2>3. Xor(H, byte) \in Word
    BY <1>8, XorType
  <2> QED BY <1>8, <1>9, <2>1, <2>2, <2>3, AfterByteProperties
<1>11. AfterByte(Xor(H, byte)) = Xor(Shr(crc, (d + 1) * BITS), TABLE[0][M])
  <2>1. Xor(H, byte) \in Word
    BY <1>8, XorType
  <2>2. AfterByte(Xor(H, byte))
          = Xor(Shr(Xor(H, byte), BITS), byte_table[BITS][Low(Xor(H, byte))])
    BY <2>1, AfterByteProperties
  <2>3. Shr(Xor(H, byte), BITS) = Shr(crc, (d + 1) * BITS)
    <3>1. Shr(Xor(H, byte), BITS) = Xor(Shr(H, BITS), Shr(byte, BITS))
      BY <1>4, <1>8, ShrOfXor
    <3>2. Shr(byte, BITS) = {}
      BY <1>4, <1>8, ShrIsEmpty
    <3>3. Shr(H, BITS) = Shr(crc, d * BITS + BITS)
      <4>1. d * BITS \in Nat
        BY <1>4, <1>6, Product
      <4> QED BY <1>4, <4>1, ShrOfShr
    <3>4. d * BITS + BITS = (d + 1) * BITS
      BY <1>4, <1>6
    <3> QED BY <3>1, <3>2, <3>3, <3>4, XorLaws
  <2>4. Low(Xor(H, byte)) = M
    <3>1. Low(byte) = byte
      BY <1>8 DEF Low, ByteWord
    <3>2. Low(Xor(H, byte)) = Xor(byte, Low(H))
      BY <3>1, LowOfXor, XorLaws
    <3>3. (d + 1) - 1 = d
      BY <1>6
    <3> QED BY <3>2, <3>3 DEF Mixed
  <2>5. byte_table[BITS][M] = TABLE[0][M]
    BY <1>8, TableEquations DEF AfterByte
  <2> QED BY <2>2, <2>3, <2>4, <2>5
<1>12. AfterByte(X) = Y
  <2>1. AfterByte(X) = XorOf([k \in 1 .. d |-> AfterByte(LookedUp(d)[k])], d)
    <3>1. d \in 0 .. d
      BY <1>6
    <3> QED BY <1>6, <1>8, <3>1, AfterByteOfXorOf
  <2>2. ASSUME NEW k \in 1 .. d
        PROVE  AfterByte(LookedUp(d)[k]) = LookedUp(d + 1)[k]
    <3>1. k \in 1 .. SLICE
      BY <1>4, <1>6
    <3>2. Mixed(k) \in ByteWord
      BY <1>4, <1>6, <3>1, LookedUpType
    <3>3. LookedUp(d)[k] = TABLE[d - k][Mixed(k)]
      BY DEF LookedUp
    <3> DEFINE m == d + 1
    <3> HIDE DEF m
    <3>4. k \in 1 .. m /\ m - k \in 1 .. SLICE - 1 /\ (m - k) - 1 = d - k
      BY <1>4, <1>6 DEF m
    <3>5. LookedUp(m)[k] = TABLE[m - k][Mixed(k)]
      BY <3>4 DEF LookedUp
    <3>6. TABLE[m - k][Mixed(k)] = AfterByte(TABLE[(m - k) - 1][Mixed(k)])
      BY <3>2, <3>4, TableEquations
    <3>7. AfterByte(LookedUp(d)[k]) = LookedUp(m)[k]
      BY <3>3, <3>4, <3>5, <3>6
    <3> QED BY <3>7 DEF m
  <2>3. \A k \in 1 .. d : [m \in 1 .. d |-> AfterByte(LookedUp(d)[m])][k]
                            = LookedUp(d + 1)[k]
    BY <2>2
  <2> DEFINE after == [k \in 1 .. d |-> AfterByte(LookedUp(d)[k])]
  <2> HIDE DEF after
  <2>4. XorOf(after, d) = XorOf(LookedUp(d + 1), d)
    <3>1. \A k \in 1 .. d : after[k] = LookedUp(d + 1)[k]
      BY <2>3 DEF after
    <3> QED BY <3>1, XorOfSame
  <2> QED BY <2>1, <2>4 DEF after
<1>13. XorOf(LookedUp(d + 1), d + 1) = Xor(Y, TABLE[0][M])
  <2>1. d + 1 \in 1 .. d + 1 /\ (d + 1) - (d + 1) = 0
    BY <1>6
  <2>2. LookedUp(d + 1)[d + 1] = TABLE[0][M] /\ LookedUp(d + 1)[d + 1] \in Word
    BY <1>8, <2>1 DEF LookedUp
  <2> QED BY <1>6, <2>2, XorOfOneMore
<1>14. Behind(d + 1) = Joined(d + 1)
  <2> DEFINE h == Shr(crc, (d + 1) * BITS)
             t == TABLE[0][M]
  <2>1. Behind(d + 1) = Xor(Xor(h, t), Y)
    BY <1>10, <1>11, <1>12
  <2>2. Joined(d + 1) = Xor(h, Xor(Y, t))
    BY <1>13
  <2> HIDE DEF h, t, Y, Behind, Joined
  <2>3. Xor(Xor(h, t), Y) = Xor(h, Xor(Y, t))
    BY DEF Xor
  <2> QED BY <2>1, <2>2, <2>3
<1> HIDE DEF Behind, Joined
<1> QED BY <1>3, <1>6, <1>14

(* Of the register as it was before the slice nothing is left.             *)
LEMMA SliceIsRegister ==
  ASSUME crc \in Word, rest \in Seq(ByteWord), seen \in Seq(ByteWord),
         SLICE <= Len(rest), Register(seen) = crc
  PROVE  Register(seen \o SubSeq(rest, 1, SLICE))
           = XorAll([k \in 1 .. SLICE |-> TABLE[SLICE - k][Mixed(k)]])
<1>1. SLICE \in Nat /\ SLICE \in 0 .. SLICE /\ BITS \in Nat
  BY Sizes
<1>2. Shr(crc, SLICE * BITS) = {}
  <2>1. SLICE * BITS \in Nat /\ SLICE * BITS >= WIDTH
    BY <1>1, Product, Crc32Assumption
  <2> HIDE <1>1
  <2> QED BY <2>1, ShrIsEmpty
<1>3. Register(seen \o SubSeq(rest, 1, SLICE)) = XorOf(LookedUp(SLICE), SLICE)
  <2>1. Register(seen \o SubSeq(rest, 1, SLICE))
          = Xor(Shr(crc, SLICE * BITS), XorOf(LookedUp(SLICE), SLICE))
    BY <1>1, SliceByBytes
  <2> QED BY <1>2, <2>1, XorLaws
<1>4. DOMAIN LookedUp(SLICE) = 1 .. SLICE
  BY DEF LookedUp
<1>5. XorAll(LookedUp(SLICE)) = XorOf(LookedUp(SLICE), SLICE)
  BY <1>4 DEF XorAll, XorOf
<1> QED BY <1>3, <1>5 DEF LookedUp
-----------------------------------------------------------------------------
CrcInv ==
  /\ state \in Word /\ crc \in Word
  /\ rest \in Seq(ByteWord) /\ seen \in Seq(ByteWord)
  /\ step \in {"idle", "sliced", "bytes"}
  /\ ChecksumIsCrc

LEMMA CrcInvInit == CInit => CrcInv
<1>1. {} \in Word /\ 0 .. WIDTH - 1 \in Word /\ << >> \in Seq(ByteWord)
  BY DEF Word
<1> QED BY <1>1, RegisterOfNone DEF CInit, CrcInv, ChecksumIsCrc

LEMMA ReadKeeps ==
  ASSUME CrcInv, NEW n \in 0 .. Len(rest), Read(n)
  PROVE  /\ rest' \in Seq(ByteWord) /\ seen' \in Seq(ByteWord)
         /\ seen' = seen \o SubSeq(rest, 1, n)
<1>1. rest \in Seq(ByteWord) /\ seen \in Seq(ByteWord)
  BY DEF CrcInv
<1>2. SubSeq(rest, 1, n) \in Seq(ByteWord)
      /\ SubSeq(rest, n + 1, Len(rest)) \in Seq(ByteWord)
  BY <1>1, TakeProperties, DropProperties
<1> QED BY <1>1, <1>2, ConcatProperties DEF Read

LEMMA CrcInvStep == CrcInv /\ [CNext]_cvars => CrcInv'
<1> SUFFICES ASSUME CrcInv, [CNext]_cvars PROVE CrcInv'
  OBVIOUS
<1>1. /\ state \in Word /\ crc \in Word
      /\ rest \in Seq(ByteWord) /\ seen \in Seq(ByteWord)
      /\ Register(seen) = IF step = "idle" THEN state ELSE crc
  BY DEF CrcInv, ChecksumIsCrc
<1>2. SLICE \in Nat \ {0} /\ Len(rest) \in Nat
  BY <1>1, Sizes, LenProperties
<1>3. ASSUME NEW data \in Data, CrcUpdate(data) PROVE CrcInv'
  <2>1. data \in Seq(ByteWord)
    BY Crc32Assumption
  <2> QED BY <1>1, <1>3, <2>1 DEF CrcUpdate, CrcInv, ChecksumIsCrc
<1>4. CASE Slice
  <2>1. /\ step = "sliced" /\ step' = step /\ state' = state /\ Read(SLICE)
        /\ SLICE <= Len(rest) /\ SLICE \in 0 .. Len(rest)
        /\ crc' = XorAll([k \in 1 .. SLICE |-> TABLE[SLICE - k][Mixed(k)]])
    BY <1>2, <1>4 DEF Slice
  <2>2. rest' \in Seq(ByteWord) /\ seen' \in Seq(ByteWord)
        /\ seen' = seen \o SubSeq(rest, 1, SLICE)
    BY <2>1, ReadKeeps
  <2>3. Register(seen') = crc'
    BY <1>1, <2>1, <2>2, SliceIsRegister
  <2>4. crc' \in Word
    BY <2>1 DEF XorAll, Word
  <2> QED BY <1>1, <2>1, <2>2, <2>3, <2>4 DEF CrcInv, ChecksumIsCrc
<1>5. CASE SlicedDone
  BY <1>1, <1>5 DEF SlicedDone, CrcInv, ChecksumIsCrc
<1>6. CASE OneByte
  <2> DEFINE byte == rest[1]
  <2>1. /\ step = "bytes" /\ step' = step /\ state' = state /\ Read(1)
        /\ crc' = Xor(Shr(crc, BITS), TABLE[0][Low(Xor(crc, byte))])
        /\ rest # << >>
    BY <1>6 DEF OneByte
  <2>2. 1 \in 0 .. Len(rest) /\ 1 \in 1 .. Len(rest) /\ 0 \in 0 .. Len(rest) - 1
    <3>1. Len(rest) # 0
      BY <1>1, <2>1, EmptySeq
    <3> QED BY <1>2, <3>1
  <2>3. byte \in ByteWord /\ byte \in Word
    BY <1>1, <2>2, ElementOfSeq, Sizes
  <2>4. rest' \in Seq(ByteWord) /\ seen' \in Seq(ByteWord)
        /\ seen' = seen \o SubSeq(rest, 1, 1)
    BY <2>1, <2>2, ReadKeeps
  <2>5. seen \o SubSeq(rest, 1, 1) = Append(seen, byte)
    <3>1. seen \o SubSeq(rest, 1, 0) = seen
      BY <1>1, TakeNone
    <3>2. seen \o SubSeq(rest, 1, 0 + 1)
            = Append(seen \o SubSeq(rest, 1, 0), rest[0 + 1])
      BY <1>1, <2>2, TakeOneMore
    <3> QED BY <3>1, <3>2
  <2>6. Register(seen') = AfterByte(Xor(crc, byte))
    BY <1>1, <2>1, <2>3, <2>4, <2>5, RegisterOfAppend
  <2> HIDE DEF byte
  <2>7. AfterByte(Xor(crc, byte)) = crc' /\ crc' \in Word
    <3>1. Xor(crc, byte) \in Word /\ BITS \in Nat
      BY <1>1, <2>3, XorType, Sizes
    <3>2. Shr(Xor(crc, byte), BITS) = Shr(crc, BITS)
      <4>1. Shr(Xor(crc, byte), BITS) = Xor(Shr(crc, BITS), Shr(byte, BITS))
        BY <1>1, <2>3, <3>1, ShrOfXor
      <4>2. Shr(byte, BITS) = {}
        BY <2>3, <3>1, ShrIsEmpty
      <4> QED BY <4>1, <4>2, XorLaws
    <3>3. byte_table[BITS][Low(Xor(crc, byte))] = TABLE[0][Low(Xor(crc, byte))]
      BY <3>1, LowType, TableEquations DEF AfterByte
    <3> QED BY <2>1, <3>1, <3>2, <3>3, AfterByteProperties
  <2> QED BY <1>1, <2>1, <2>4, <2>6, <2>7 DEF CrcInv, ChecksumIsCrc
<1>7. CASE CrcReturns
  BY <1>1, <1>7 DEF CrcReturns, CrcInv, ChecksumIsCrc
<1>8. CASE CrcValue \/ UNCHANGED cvars
  BY <1>1, <1>8 DEF CrcValue, cvars, CrcInv, ChecksumIsCrc
<1> QED BY <1>3, <1>4, <1>5, <1>6, <1>7, <1>8 DEF CNext

(* The checksum is the CRC of all that was fed, however it was cut up into *)
(* updates and slices: the tables, which make SLICE bytes of it at a time, *)
(* agree with the definition, which goes bit by bit.                       *)
THEOREM CrcIsTheRegister == CSpec => []ChecksumIsCrc
<1>1. CrcInv => ChecksumIsCrc
  BY DEF CrcInv
<1> QED BY <1>1, CrcInvInit, CrcInvStep, PTL DEF CSpec
=============================================================================
