---------------------------- MODULE CodesProofs ----------------------------
(***************************************************************************)
(* Proofs, for every value of the constants, about the codes: that the     *)
(* description of the codes in a dynamic block and the symbols of a match  *)
(* are read back as they were written, and the steps of the encoder's      *)
(* numbering and of the decoder's table, with their inductive invariant.   *)
(* That it holds from the start, for the lengths the encoder makes too, is *)
(* for CodeLengthsProofs.                                                  *)
(*                                                                         *)
(* The arithmetic is that of bits turned round.  Of two sequences of bits, *)
(* read from the first on, the one that is greater as a number with the    *)
(* first bit the highest comes behind the other, and in this order the     *)
(* codes lie side by side, the shorter ones first.                         *)
(***************************************************************************)
EXTENDS MCCodes, DataLemmas, FiniteSetTheorems

(* Powers, as far as codes are wide; the provers know them by number.      *)
Two(n) == 2 ^ n

LEMMA Powers ==
  /\ Two(0) = 1
  /\ \A n \in 0 .. MAX_BITS : Two(n) \in Nat \ {0}
  /\ \A n \in 1 .. MAX_BITS : Two(n) = 2 * Two(n - 1)
<1>1. /\ Two(0) = 1 /\ Two(1) = 2 /\ Two(2) = 4 /\ Two(3) = 8 /\ Two(4) = 16
      /\ Two(5) = 32 /\ Two(6) = 64 /\ Two(7) = 128 /\ Two(8) = 256
      /\ Two(9) = 512 /\ Two(10) = 1024 /\ Two(11) = 2048 /\ Two(12) = 4096
      /\ Two(13) = 8192 /\ Two(14) = 16384 /\ Two(15) = 32768
  BY DEF Two
<1>2. \A n \in 0 .. 15 : \/ n = 0 \/ n = 1 \/ n = 2 \/ n = 3 \/ n = 4 \/ n = 5
                         \/ n = 6 \/ n = 7 \/ n = 8 \/ n = 9 \/ n = 10 \/ n = 11
                         \/ n = 12 \/ n = 13 \/ n = 14 \/ n = 15
  OBVIOUS
<1>3. \A n \in 0 .. 15 : Two(n) \in Nat \ {0}
  BY <1>1, <1>2
<1>4. \A n \in 1 .. 15 : Two(n) = 2 * Two(n - 1)
  <2> TAKE n \in 1 .. 15
  <2>1. \E m \in 0 .. 14 : m = n - 1 /\ n = m + 1
    OBVIOUS
  <2> QED BY <1>1, <1>2, <2>1
<1> QED BY <1>1, <1>3, <1>4 DEF MAX_BITS

LEMMA PowerSum ==
  ASSUME NEW m \in 0 .. MAX_BITS, NEW n \in 0 .. MAX_BITS - m
  PROVE  /\ Two(m + n) = Two(m) * Two(n)
         /\ Two(m) <= Two(m + n)
<1> DEFINE T == {k \in 0 .. MAX_BITS - m : Two(m + k) # Two(m) * Two(k)}
<1>1. T = {}
  <2> SUFFICES ASSUME T # {} PROVE FALSE
    OBVIOUS
  <2>1. PICK k \in T : \A j \in T : k <= j
    <3>1. T \in SUBSET Nat
      BY DEF MAX_BITS
    <3> QED BY <3>1, LeastOf
  <2>2. k # 0
    <3>1. Two(m) \in Nat /\ Two(0) = 1
      BY Powers
    <3> QED BY <2>1, <3>1
  <2>3. /\ k \in 1 .. MAX_BITS - m /\ k - 1 \in 0 .. MAX_BITS - m /\ ~ (k <= k - 1)
        /\ m + k \in 1 .. MAX_BITS /\ k \in 1 .. MAX_BITS
        /\ (m + k) - 1 = m + (k - 1) /\ m \in 0 .. MAX_BITS
        /\ k - 1 \in 0 .. MAX_BITS
    BY <2>1, <2>2 DEF MAX_BITS
  <2>4. Two(m + (k - 1)) = Two(m) * Two(k - 1)
    BY <2>1, <2>3
  <2>5. Two(m + k) = 2 * Two(m + (k - 1)) /\ Two(k) = 2 * Two(k - 1)
    BY <2>3, Powers
  <2>6. Two(m) \in Nat /\ Two(k - 1) \in Nat
    BY <2>3, Powers
  <2> DEFINE a == Two(m)
             b == Two(k - 1)
  <2> HIDE DEF a, b
  <2>7. 2 * (a * b) = a * (2 * b)
    BY <2>6 DEF a, b
  <2> QED BY <2>1, <2>4, <2>5, <2>7 DEF a, b
<1>2. Two(m + n) = Two(m) * Two(n)
  BY <1>1
<1>3. Two(m) \in Nat /\ Two(n) \in Nat \ {0}
  BY Powers DEF MAX_BITS
<1> DEFINE a == Two(m)
           b == Two(n)
<1> HIDE DEF a, b
<1>4. a * 1 <= a * b
  BY <1>3, Monotone DEF a, b
<1> QED BY <1>2, <1>3, <1>4 DEF a, b

(* Division by a product.                                                  *)
LEMMA DivideTwice ==
  \A b \in Nat : \A d, k \in Nat \ {0} : (b \div d) \div k = b \div (d * k)
<1> TAKE b \in Nat
<1> TAKE d, k \in Nat \ {0}
<1> DEFINE q == b \div d
           r == b % d
           q1 == q \div k
           r1 == q % k
           s == r + d * r1
<1>1. r \in 0 .. d - 1 /\ q \in Nat /\ b = r + d * q
  BY Division
<1>2. r1 \in 0 .. k - 1 /\ q1 \in Nat /\ q = r1 + k * q1
  BY <1>1, Division
<1> HIDE DEF q, r, q1, r1
<1>3. d * k \in Nat \ {0}
  OBVIOUS
<1>4. d * q = d * r1 + (d * k) * q1
  BY <1>1, <1>2
<1>5. d * r1 <= d * (k - 1) /\ d * (k - 1) = d * k - d /\ d * r1 \in Nat
  <2>1. r1 \in Nat /\ k - 1 \in Nat /\ r1 <= k - 1
    BY <1>2
  <2>2. d * r1 <= d * (k - 1)
    BY <2>1, Monotone
  <2> QED BY <2>1, <2>2
<1>6. s \in 0 .. (d * k) - 1 /\ b = s + (d * k) * q1
  BY <1>1, <1>2, <1>3, <1>4, <1>5
<1> DEFINE p == d * k
<1> HIDE DEF s, p
<1>7. (s + p * q1) \div p = q1
  BY <1>2, <1>3, <1>6, Remainder DEF p
<1> QED BY <1>6, <1>7 DEF p, q, q1
-----------------------------------------------------------------------------
(* The bits of a number turned round.                                      *)
Bit(b, n) == (b \div Two(n)) % 2

LEMMA BitValues ==
  ASSUME NEW b \in Nat, NEW n \in 0 .. MAX_BITS
  PROVE  Bit(b, n) \in 0 .. 1
<1>1. b \div Two(n) \in Nat
  BY Powers, Division
<1> QED BY <1>1 DEF Bit

IsReversal(f, b, width) ==
  /\ f[0] = 0
  /\ \A n \in 1 .. width : f[n] = 2 * f[n - 1] + Bit(b, n - 1)
  /\ f \in [0 .. width -> Nat]

LEMMA ReversalExists ==
  ASSUME NEW b \in Nat, NEW width \in 0 .. MAX_BITS
  PROVE  \E f : IsReversal(f, b, width) /\ reverse_bits(b, width) = f[width]
<1> DEFINE turn == [n \in 1 .. width |-> [t \in Nat |-> 2 * t + Bit(b, n - 1)]]
           Body(f) == [n \in 0 .. width |->
                         IF n = 0 THEN 0
                         ELSE 2 * f[n - 1] + ((b \div 2 ^ (n - 1)) % 2)]
<1>1. turn \in [1 .. width -> [Nat -> Nat]]
  <2>1. ASSUME NEW n \in 1 .. width, NEW t \in Nat
        PROVE  2 * t + Bit(b, n - 1) \in Nat
    <3>1. n - 1 \in 0 .. MAX_BITS
      BY DEF MAX_BITS
    <3>2. Bit(b, n - 1) \in 0 .. 1
      BY <3>1, BitValues
    <3> QED BY <3>2
  <2> QED BY <2>1
<1>2. PICK f \in [0 .. width -> Nat] :
             f[0] = 0 /\ \A n \in 1 .. width : f[n] = turn[n][f[n - 1]]
  <2>1. width \in Nat
    BY DEF MAX_BITS
  <2> HIDE DEF turn
  <2>2. Recursions(width, Nat, 0, turn) # {}
    BY <1>1, <2>1, RecursionExists
  <2> QED BY <2>2 DEF Recursions, Follows
<1>3. ASSUME NEW n \in 1 .. width
      PROVE  f[n] = 2 * f[n - 1] + Bit(b, n - 1) /\ f[n - 1] \in Nat
  <2>1. n - 1 \in 0 .. width
    BY DEF MAX_BITS
  <2> QED BY <1>2, <2>1
<1>4. f = Body(f)
  <2>1. ASSUME NEW n \in 0 .. width
        PROVE  f[n] = IF n = 0 THEN 0
                      ELSE 2 * f[n - 1] + ((b \div 2 ^ (n - 1)) % 2)
    <3>1. n # 0 => n \in 1 .. width
      BY DEF MAX_BITS
    <3> QED BY <1>2, <1>3, <3>1 DEF Bit, Two
  <2> QED BY <1>2, <2>1
<1> DEFINE g == CHOOSE f1 : f1 = Body(f1)
<1>5. g = Body(g) /\ reverse_bits(b, width) = g[width]
  <2>1. reverse_bits(b, width) = g[width]
    BY DEF reverse_bits
  <2> HIDE DEF Body
  <2> QED BY <1>4, <2>1
<1> HIDE DEF g
<1>6. g[0] = 0 /\ \A n \in 1 .. width : g[n] = 2 * g[n - 1] + Bit(b, n - 1)
  <2>1. \A n \in 0 .. width :
           g[n] = IF n = 0 THEN 0 ELSE 2 * g[n - 1] + ((b \div 2 ^ (n - 1)) % 2)
    BY <1>5
  <2>2. 0 \in 0 .. width /\ \A n \in 1 .. width : n \in 0 .. width /\ n # 0
    BY DEF MAX_BITS
  <2> QED BY <2>1, <2>2 DEF Bit, Two
<1>7. \A n \in 0 .. width : f[n] = g[n]
  <2>1. /\ width \in Nat /\ f[0] = g[0]
        /\ \A n \in 1 .. width : f[n] = 2 * f[n - 1] + Bit(b, n - 1)
    BY <1>2, <1>3, <1>6 DEF MAX_BITS
  <2> DEFINE T == {n \in 0 .. width : f[n] # g[n]}
  <2> SUFFICES ASSUME T # {} PROVE FALSE
    OBVIOUS
  <2>2. PICK n \in T : \A k \in T : n <= k
    <3>1. T \in SUBSET Nat
      BY <2>1
    <3> QED BY <3>1, LeastOf
  <2>3. n \in 1 .. width /\ n - 1 \in 0 .. width /\ ~ (n <= n - 1)
    BY <2>1, <2>2
  <2>4. f[n - 1] = g[n - 1]
    BY <2>2, <2>3
  <2> QED BY <1>6, <2>1, <2>2, <2>3, <2>4
<1>8. IsReversal(f, b, width)
  BY <1>2, <1>3 DEF IsReversal
<1> QED
  <2>1. width \in 0 .. width
    BY DEF MAX_BITS
  <2> QED BY <1>5, <1>7, <1>8, <2>1
-----------------------------------------------------------------------------
(* The symbols of a match.  A row is found, and it is the one.             *)
LEMMA RowExists ==
  ASSUME NEW tab, NEW v \in Nat, NEW n \in Nat \ {0},
         DOMAIN tab = 1 .. n, Len(tab) = n,
         \A i \in 1 .. n : tab[i].base \in Nat,
         tab[1].base <= v
  PROVE  /\ row(tab, v) \in 1 .. n
         /\ tab[row(tab, v)].base <= v
         /\ \A j \in row(tab, v) + 1 .. n : tab[j].base > v
<1> DEFINE T == {k \in 0 .. n - 1 : tab[n - k].base <= v}
           Is(i) == /\ tab[i].base <= v
                    /\ \A j \in i + 1 .. Len(tab) : tab[j].base > v
<1>1. n - 1 \in T /\ T \in SUBSET Nat
  <2>1. n - 1 \in 0 .. n - 1 /\ n - (n - 1) = 1
    OBVIOUS
  <2> QED BY <2>1
<1>2. PICK k \in T : \A j \in T : k <= j
  <2> HIDE DEF T
  <2>1. T # {}
    BY <1>1
  <2> QED BY <1>1, <2>1, LeastOf
<1>3. n - k \in 1 .. n /\ tab[n - k].base <= v /\ k \in 0 .. n - 1
  BY <1>2
<1>4. ASSUME NEW j \in (n - k) + 1 .. n
      PROVE  tab[j].base > v
  <2>1. j \in 1 .. n /\ n - j \in 0 .. n - 1 /\ n - (n - j) = j /\ n - j < k
    BY <1>3
  <2>2. n - j \notin T
    <3> HIDE DEF T
    <3>1. k \in Nat /\ n - j \in Nat /\ ~ (k <= n - j)
      BY <1>3, <2>1
    <3> QED BY <1>2, <3>1
  <2>3. ~ (tab[j].base <= v) /\ tab[j].base \in Nat
    BY <2>1, <2>2
  <2> QED BY <2>3
<1>5. \E i \in DOMAIN tab : Is(i)
  BY <1>3, <1>4
<1>6. row(tab, v) = CHOOSE i \in DOMAIN tab : Is(i)
  BY DEF row
<1>7. row(tab, v) \in DOMAIN tab /\ Is(row(tab, v))
  <2> HIDE DEF Is
  <2> QED BY <1>5, <1>6
<1> QED BY <1>7

LEMMA LengthRows ==
  /\ DOMAIN LENGTH_TABLE = 1 .. 29 /\ Len(LENGTH_TABLE) = 29
  /\ \A i \in 1 .. 29 : LENGTH_TABLE[i].base \in Nat
  /\ \A i \in 1 .. 29 : LENGTH_TABLE[i].extra_bits \in 0 .. 5
  /\ \A i \in 1 .. 28 :
       LENGTH_TABLE[i + 1].base
         <= LENGTH_TABLE[i].base + Two(LENGTH_TABLE[i].extra_bits)
  /\ LENGTH_TABLE[1].base = 3
  /\ LENGTH_TABLE[29].base = 258 /\ LENGTH_TABLE[29].extra_bits = 0
<1>1. /\ Two(0) = 1 /\ Two(1) = 2 /\ Two(2) = 4 /\ Two(3) = 8 /\ Two(4) = 16
      /\ Two(5) = 32
  BY DEF Two
<1>2. \A i \in 1 .. 29 : \/ i \in 1 .. 10
                         \/ i \in 11 .. 20
                         \/ i \in 21 .. 29
  OBVIOUS
<1>3. DOMAIN LENGTH_TABLE = 1 .. 29 /\ Len(LENGTH_TABLE) = 29
  BY SMTT(60) DEF LENGTH_TABLE
<1>4. /\ LENGTH_TABLE[1] = Row(3, 0) /\ LENGTH_TABLE[2] = Row(4, 0)
      /\ LENGTH_TABLE[3] = Row(5, 0) /\ LENGTH_TABLE[4] = Row(6, 0)
      /\ LENGTH_TABLE[5] = Row(7, 0) /\ LENGTH_TABLE[6] = Row(8, 0)
      /\ LENGTH_TABLE[7] = Row(9, 0) /\ LENGTH_TABLE[8] = Row(10, 0)
      /\ LENGTH_TABLE[9] = Row(11, 1) /\ LENGTH_TABLE[10] = Row(13, 1)
      /\ LENGTH_TABLE[11] = Row(15, 1) /\ LENGTH_TABLE[12] = Row(17, 1)
      /\ LENGTH_TABLE[13] = Row(19, 2) /\ LENGTH_TABLE[14] = Row(23, 2)
      /\ LENGTH_TABLE[15] = Row(27, 2) /\ LENGTH_TABLE[16] = Row(31, 2)
      /\ LENGTH_TABLE[17] = Row(35, 3) /\ LENGTH_TABLE[18] = Row(43, 3)
      /\ LENGTH_TABLE[19] = Row(51, 3) /\ LENGTH_TABLE[20] = Row(59, 3)
      /\ LENGTH_TABLE[21] = Row(67, 4) /\ LENGTH_TABLE[22] = Row(83, 4)
      /\ LENGTH_TABLE[23] = Row(99, 4) /\ LENGTH_TABLE[24] = Row(115, 4)
      /\ LENGTH_TABLE[25] = Row(131, 5) /\ LENGTH_TABLE[26] = Row(163, 5)
      /\ LENGTH_TABLE[27] = Row(195, 5) /\ LENGTH_TABLE[28] = Row(227, 5)
      /\ LENGTH_TABLE[29] = Row(258, 0)
  <2>1. /\ LENGTH_TABLE[1] = Row(3, 0) /\ LENGTH_TABLE[2] = Row(4, 0)
        /\ LENGTH_TABLE[3] = Row(5, 0) /\ LENGTH_TABLE[4] = Row(6, 0)
        /\ LENGTH_TABLE[5] = Row(7, 0) /\ LENGTH_TABLE[6] = Row(8, 0)
        /\ LENGTH_TABLE[7] = Row(9, 0) /\ LENGTH_TABLE[8] = Row(10, 0)
        /\ LENGTH_TABLE[9] = Row(11, 1) /\ LENGTH_TABLE[10] = Row(13, 1)
    BY SMTT(60) DEF LENGTH_TABLE
  <2>2. /\ LENGTH_TABLE[11] = Row(15, 1) /\ LENGTH_TABLE[12] = Row(17, 1)
        /\ LENGTH_TABLE[13] = Row(19, 2) /\ LENGTH_TABLE[14] = Row(23, 2)
        /\ LENGTH_TABLE[15] = Row(27, 2) /\ LENGTH_TABLE[16] = Row(31, 2)
        /\ LENGTH_TABLE[17] = Row(35, 3) /\ LENGTH_TABLE[18] = Row(43, 3)
        /\ LENGTH_TABLE[19] = Row(51, 3) /\ LENGTH_TABLE[20] = Row(59, 3)
    BY SMTT(60) DEF LENGTH_TABLE
  <2>3. /\ LENGTH_TABLE[21] = Row(67, 4) /\ LENGTH_TABLE[22] = Row(83, 4)
        /\ LENGTH_TABLE[23] = Row(99, 4) /\ LENGTH_TABLE[24] = Row(115, 4)
        /\ LENGTH_TABLE[25] = Row(131, 5) /\ LENGTH_TABLE[26] = Row(163, 5)
        /\ LENGTH_TABLE[27] = Row(195, 5) /\ LENGTH_TABLE[28] = Row(227, 5)
        /\ LENGTH_TABLE[29] = Row(258, 0)
    BY SMTT(60) DEF LENGTH_TABLE
  <2> QED BY <2>1, <2>2, <2>3
<1>5. \A b, e : Row(b, e).base = b /\ Row(b, e).extra_bits = e
  BY DEF Row
<1> DEFINE base(i) == LENGTH_TABLE[i].base
           extra(i) == LENGTH_TABLE[i].extra_bits
<1>6. /\ base(1) = 3 /\ base(2) = 4 /\ base(3) = 5 /\ base(4) = 6
      /\ base(5) = 7 /\ base(6) = 8 /\ base(7) = 9 /\ base(8) = 10
      /\ base(9) = 11 /\ base(10) = 13 /\ base(11) = 15 /\ base(12) = 17
      /\ base(13) = 19 /\ base(14) = 23 /\ base(15) = 27 /\ base(16) = 31
      /\ base(17) = 35 /\ base(18) = 43 /\ base(19) = 51 /\ base(20) = 59
      /\ base(21) = 67 /\ base(22) = 83 /\ base(23) = 99 /\ base(24) = 115
      /\ base(25) = 131 /\ base(26) = 163 /\ base(27) = 195 /\ base(28) = 227
      /\ base(29) = 258
  BY <1>4, <1>5
<1>7. /\ extra(1) = 0 /\ extra(2) = 0 /\ extra(3) = 0 /\ extra(4) = 0
      /\ extra(5) = 0 /\ extra(6) = 0 /\ extra(7) = 0 /\ extra(8) = 0
      /\ extra(9) = 1 /\ extra(10) = 1 /\ extra(11) = 1 /\ extra(12) = 1
      /\ extra(13) = 2 /\ extra(14) = 2 /\ extra(15) = 2 /\ extra(16) = 2
      /\ extra(17) = 3 /\ extra(18) = 3 /\ extra(19) = 3 /\ extra(20) = 3
      /\ extra(21) = 4 /\ extra(22) = 4 /\ extra(23) = 4 /\ extra(24) = 4
      /\ extra(25) = 5 /\ extra(26) = 5 /\ extra(27) = 5 /\ extra(28) = 5
      /\ extra(29) = 0
  BY <1>4, <1>5
<1> HIDE DEF base, extra
<1>8. /\ \A i \in 1 .. 29 : base(i) \in Nat
      /\ \A i \in 1 .. 29 : extra(i) \in 0 .. 5
  BY <1>6, <1>7
<1>9. \A i \in 1 .. 28 : base(i + 1) <= base(i) + Two(extra(i))
  BY <1>1, <1>6, <1>7
<1> QED BY <1>3, <1>6, <1>7, <1>8, <1>9 DEF base, extra

LEMMA DistanceRows ==
  /\ DOMAIN DISTANCE_TABLE = 1 .. 30 /\ Len(DISTANCE_TABLE) = 30
  /\ \A i \in 1 .. 30 : DISTANCE_TABLE[i].base \in Nat
  /\ \A i \in 1 .. 30 : DISTANCE_TABLE[i].extra_bits \in 0 .. 13
  /\ \A i \in 1 .. 29 :
       DISTANCE_TABLE[i + 1].base
         <= DISTANCE_TABLE[i].base + Two(DISTANCE_TABLE[i].extra_bits)
  /\ DISTANCE_TABLE[1].base = 1
  /\ 32769 <= DISTANCE_TABLE[30].base + Two(DISTANCE_TABLE[30].extra_bits)
<1>1. /\ Two(0) = 1 /\ Two(1) = 2 /\ Two(2) = 4 /\ Two(3) = 8 /\ Two(4) = 16
      /\ Two(5) = 32 /\ Two(6) = 64 /\ Two(7) = 128 /\ Two(8) = 256
      /\ Two(9) = 512 /\ Two(10) = 1024 /\ Two(11) = 2048 /\ Two(12) = 4096
      /\ Two(13) = 8192
  BY DEF Two
<1>3. DOMAIN DISTANCE_TABLE = 1 .. 30 /\ Len(DISTANCE_TABLE) = 30
  BY SMTT(60) DEF DISTANCE_TABLE
<1>4. /\ DISTANCE_TABLE[1] = Row(1, 0) /\ DISTANCE_TABLE[2] = Row(2, 0)
      /\ DISTANCE_TABLE[3] = Row(3, 0) /\ DISTANCE_TABLE[4] = Row(4, 0)
      /\ DISTANCE_TABLE[5] = Row(5, 1) /\ DISTANCE_TABLE[6] = Row(7, 1)
      /\ DISTANCE_TABLE[7] = Row(9, 2) /\ DISTANCE_TABLE[8] = Row(13, 2)
      /\ DISTANCE_TABLE[9] = Row(17, 3) /\ DISTANCE_TABLE[10] = Row(25, 3)
      /\ DISTANCE_TABLE[11] = Row(33, 4) /\ DISTANCE_TABLE[12] = Row(49, 4)
      /\ DISTANCE_TABLE[13] = Row(65, 5) /\ DISTANCE_TABLE[14] = Row(97, 5)
      /\ DISTANCE_TABLE[15] = Row(129, 6) /\ DISTANCE_TABLE[16] = Row(193, 6)
      /\ DISTANCE_TABLE[17] = Row(257, 7) /\ DISTANCE_TABLE[18] = Row(385, 7)
      /\ DISTANCE_TABLE[19] = Row(513, 8) /\ DISTANCE_TABLE[20] = Row(769, 8)
      /\ DISTANCE_TABLE[21] = Row(1025, 9) /\ DISTANCE_TABLE[22] = Row(1537, 9)
      /\ DISTANCE_TABLE[23] = Row(2049, 10) /\ DISTANCE_TABLE[24] = Row(3073, 10)
      /\ DISTANCE_TABLE[25] = Row(4097, 11) /\ DISTANCE_TABLE[26] = Row(6145, 11)
      /\ DISTANCE_TABLE[27] = Row(8193, 12) /\ DISTANCE_TABLE[28] = Row(12289, 12)
      /\ DISTANCE_TABLE[29] = Row(16385, 13) /\ DISTANCE_TABLE[30] = Row(24577, 13)
  <2>1. /\ DISTANCE_TABLE[1] = Row(1, 0) /\ DISTANCE_TABLE[2] = Row(2, 0)
        /\ DISTANCE_TABLE[3] = Row(3, 0) /\ DISTANCE_TABLE[4] = Row(4, 0)
        /\ DISTANCE_TABLE[5] = Row(5, 1) /\ DISTANCE_TABLE[6] = Row(7, 1)
        /\ DISTANCE_TABLE[7] = Row(9, 2) /\ DISTANCE_TABLE[8] = Row(13, 2)
        /\ DISTANCE_TABLE[9] = Row(17, 3) /\ DISTANCE_TABLE[10] = Row(25, 3)
    BY SMTT(60) DEF DISTANCE_TABLE
  <2>2. /\ DISTANCE_TABLE[11] = Row(33, 4) /\ DISTANCE_TABLE[12] = Row(49, 4)
        /\ DISTANCE_TABLE[13] = Row(65, 5) /\ DISTANCE_TABLE[14] = Row(97, 5)
        /\ DISTANCE_TABLE[15] = Row(129, 6) /\ DISTANCE_TABLE[16] = Row(193, 6)
        /\ DISTANCE_TABLE[17] = Row(257, 7) /\ DISTANCE_TABLE[18] = Row(385, 7)
        /\ DISTANCE_TABLE[19] = Row(513, 8) /\ DISTANCE_TABLE[20] = Row(769, 8)
    BY SMTT(60) DEF DISTANCE_TABLE
  <2>3. /\ DISTANCE_TABLE[21] = Row(1025, 9) /\ DISTANCE_TABLE[22] = Row(1537, 9)
        /\ DISTANCE_TABLE[23] = Row(2049, 10) /\ DISTANCE_TABLE[24] = Row(3073, 10)
        /\ DISTANCE_TABLE[25] = Row(4097, 11) /\ DISTANCE_TABLE[26] = Row(6145, 11)
        /\ DISTANCE_TABLE[27] = Row(8193, 12) /\ DISTANCE_TABLE[28] = Row(12289, 12)
        /\ DISTANCE_TABLE[29] = Row(16385, 13) /\ DISTANCE_TABLE[30] = Row(24577, 13)
    BY SMTT(60) DEF DISTANCE_TABLE
  <2> QED BY <2>1, <2>2, <2>3
<1>5. \A b, e : Row(b, e).base = b /\ Row(b, e).extra_bits = e
  BY DEF Row
<1> DEFINE base(i) == DISTANCE_TABLE[i].base
           extra(i) == DISTANCE_TABLE[i].extra_bits
<1>6. /\ base(1) = 1 /\ base(2) = 2 /\ base(3) = 3 /\ base(4) = 4
      /\ base(5) = 5 /\ base(6) = 7 /\ base(7) = 9 /\ base(8) = 13
      /\ base(9) = 17 /\ base(10) = 25 /\ base(11) = 33 /\ base(12) = 49
      /\ base(13) = 65 /\ base(14) = 97 /\ base(15) = 129 /\ base(16) = 193
      /\ base(17) = 257 /\ base(18) = 385 /\ base(19) = 513 /\ base(20) = 769
      /\ base(21) = 1025 /\ base(22) = 1537 /\ base(23) = 2049
      /\ base(24) = 3073 /\ base(25) = 4097 /\ base(26) = 6145
      /\ base(27) = 8193 /\ base(28) = 12289 /\ base(29) = 16385
      /\ base(30) = 24577
  BY <1>4, <1>5
<1>7. /\ extra(1) = 0 /\ extra(2) = 0 /\ extra(3) = 0 /\ extra(4) = 0
      /\ extra(5) = 1 /\ extra(6) = 1 /\ extra(7) = 2 /\ extra(8) = 2
      /\ extra(9) = 3 /\ extra(10) = 3 /\ extra(11) = 4 /\ extra(12) = 4
      /\ extra(13) = 5 /\ extra(14) = 5 /\ extra(15) = 6 /\ extra(16) = 6
      /\ extra(17) = 7 /\ extra(18) = 7 /\ extra(19) = 8 /\ extra(20) = 8
      /\ extra(21) = 9 /\ extra(22) = 9 /\ extra(23) = 10 /\ extra(24) = 10
      /\ extra(25) = 11 /\ extra(26) = 11 /\ extra(27) = 12 /\ extra(28) = 12
      /\ extra(29) = 13 /\ extra(30) = 13
  BY <1>4, <1>5
<1> HIDE DEF base, extra
<1>8. /\ \A i \in 1 .. 30 : base(i) \in Nat
      /\ \A i \in 1 .. 30 : extra(i) \in 0 .. 13
  BY <1>6, <1>7
<1>9. \A i \in 1 .. 29 : base(i + 1) <= base(i) + Two(extra(i))
  BY <1>1, <1>6, <1>7
<1> QED BY <1>1, <1>3, <1>6, <1>7, <1>8, <1>9 DEF base, extra

(* What is over the base fits the extra bits.                              *)
LEMMA LengthSymbol ==
  ASSUME NEW v \in Nat, 3 <= v, v <= 258
  PROVE  LET s == length_to_symbol(v) IN
         /\ s.code \in 257 .. 285 /\ s.extra_bits \in 0 .. 5
         /\ s.extra \in 0 .. Two(s.extra_bits) - 1
         /\ value_of(LENGTH_TABLE, 257, s) = v
         /\ v = 258 => s.code = 285
<1> DEFINE i == row(LENGTH_TABLE, v)
           b == LENGTH_TABLE[i].base
           e == LENGTH_TABLE[i].extra_bits
           s == length_to_symbol(v)
<1>1. i \in 1 .. 29 /\ b <= v /\ \A j \in i + 1 .. 29 : LENGTH_TABLE[j].base > v
  <2>1. /\ DOMAIN LENGTH_TABLE = 1 .. 29 /\ Len(LENGTH_TABLE) = 29
        /\ \A j \in 1 .. 29 : LENGTH_TABLE[j].base \in Nat
        /\ LENGTH_TABLE[1].base <= v
    BY LengthRows
  <2>2. v \in Nat /\ 29 \in Nat \ {0}
    OBVIOUS
  <2> QED BY <2>1, <2>2, RowExists
<1>2. b \in Nat /\ e \in 0 .. 5
  BY <1>1, LengthRows
<1>3. Two(e) \in Nat \ {0} /\ Two(0) = 1
  BY <1>2, Powers DEF MAX_BITS
<1>4. v - b \in 0 .. Two(e) - 1
  <2>1. CASE i = 29
    BY <1>1, <1>2, <1>3, <2>1, LengthRows
  <2>2. CASE i \in 1 .. 28
    <3>1. i + 1 \in i + 1 .. 29 /\ i + 1 \in 1 .. 29
      BY <2>2
    <3>2. LENGTH_TABLE[i + 1].base > v /\ LENGTH_TABLE[i + 1].base \in Nat
      BY <1>1, <3>1, LengthRows
    <3>3. LENGTH_TABLE[i + 1].base <= b + Two(e)
      BY <2>2, LengthRows
    <3> HIDE DEF i, b, e
    <3> QED BY <1>1, <1>2, <1>3, <3>2, <3>3
  <2> QED BY <1>1, <2>1, <2>2
<1>5. v = 258 => i = 29
  <2>1. i < 29 => 29 \in i + 1 .. 29
    BY <1>1
  <2> QED BY <1>1, <2>1, LengthRows
<1>6. s.code = 257 + i - 1 /\ s.extra_bits = e /\ s.extra = v - b
  BY DEF length_to_symbol, symbol
<1> HIDE DEF i
<1>7. s.code - 257 + 1 = i
  BY <1>1, <1>6
<1>8. value_of(LENGTH_TABLE, 257, s) = b + ((v - b) % Two(e))
  BY <1>6, <1>7 DEF value_of, Two
<1> HIDE DEF b, e, s
<1>9. (v - b) % Two(e) = v - b
  BY <1>3, <1>4
<1>10. value_of(LENGTH_TABLE, 257, s) = v
  BY <1>2, <1>8, <1>9
<1>11. s.code \in 257 .. 285 /\ (v = 258 => s.code = 285)
  BY <1>1, <1>5, <1>6
<1>12. s.extra_bits \in 0 .. 5 /\ s.extra \in 0 .. Two(s.extra_bits) - 1
  BY <1>2, <1>4, <1>6
<1> QED BY <1>10, <1>11, <1>12 DEF s

LEMMA DistanceSymbol ==
  ASSUME NEW v \in Nat, 1 <= v, v <= 32768
  PROVE  LET s == distance_to_symbol(v) IN
         /\ s.code \in 0 .. 29 /\ s.extra_bits \in 0 .. 13
         /\ s.extra \in 0 .. Two(s.extra_bits) - 1
         /\ value_of(DISTANCE_TABLE, 0, s) = v
<1> DEFINE i == row(DISTANCE_TABLE, v)
           b == DISTANCE_TABLE[i].base
           e == DISTANCE_TABLE[i].extra_bits
           s == distance_to_symbol(v)
<1>1. i \in 1 .. 30 /\ b <= v /\ \A j \in i + 1 .. 30 : DISTANCE_TABLE[j].base > v
  <2>1. /\ DOMAIN DISTANCE_TABLE = 1 .. 30 /\ Len(DISTANCE_TABLE) = 30
        /\ \A j \in 1 .. 30 : DISTANCE_TABLE[j].base \in Nat
        /\ DISTANCE_TABLE[1].base <= v
    BY DistanceRows
  <2> DEFINE n == 30
             r == row(DISTANCE_TABLE, v)
  <2>2. v \in Nat /\ n \in Nat \ {0}
    OBVIOUS
  <2>3. /\ DOMAIN DISTANCE_TABLE = 1 .. n /\ Len(DISTANCE_TABLE) = n
        /\ \A j \in 1 .. n : DISTANCE_TABLE[j].base \in Nat
        /\ DISTANCE_TABLE[1].base <= v
    BY <2>1
  <2> HIDE DEF n
  <2>4. /\ r \in 1 .. n /\ DISTANCE_TABLE[r].base <= v
        /\ \A j \in r + 1 .. n : DISTANCE_TABLE[j].base > v
    BY ONLY <2>2, <2>3, RowExists
  <2> HIDE DEF r
  <2> QED BY <2>4 DEF n, r
<1>2. b \in Nat /\ e \in 0 .. 13
  BY <1>1, DistanceRows
<1>3. Two(e) \in Nat \ {0}
  BY <1>2, Powers DEF MAX_BITS
<1>4. v - b \in 0 .. Two(e) - 1
  <2>1. CASE i = 30
    <3>1. 32769 <= b + Two(e)
      BY <2>1, DistanceRows
    <3>2. v + 1 <= 32769
      OBVIOUS
    <3> HIDE DEF i, b, e
    <3> QED BY <1>1, <1>2, <1>3, <3>1, <3>2
  <2>2. CASE i \in 1 .. 29
    <3>1. i + 1 \in i + 1 .. 30 /\ i + 1 \in 1 .. 30
      BY <2>2
    <3>2. /\ DISTANCE_TABLE[i + 1].base > v
          /\ DISTANCE_TABLE[i + 1].base \in Nat
      BY <1>1, <3>1, DistanceRows
    <3>3. DISTANCE_TABLE[i + 1].base <= b + Two(e)
      BY <2>2, DistanceRows
    <3> HIDE DEF i, b, e
    <3> QED BY <1>1, <1>2, <1>3, <3>2, <3>3
  <2> QED BY <1>1, <2>1, <2>2
<1>5. s.code = 0 + i - 1 /\ s.extra_bits = e /\ s.extra = v - b
  BY DEF distance_to_symbol, symbol
<1> HIDE DEF i
<1>6. s.code - 0 + 1 = i
  BY <1>1, <1>5
<1>7. value_of(DISTANCE_TABLE, 0, s) = b + ((v - b) % Two(e))
  BY <1>5, <1>6 DEF value_of, Two
<1> HIDE DEF b, e, s
<1>8. (v - b) % Two(e) = v - b
  BY <1>3, <1>4
<1>9. value_of(DISTANCE_TABLE, 0, s) = v
  BY <1>2, <1>7, <1>8
<1>10. s.code \in 0 .. 29
  BY <1>1, <1>5
<1>11. s.extra_bits \in 0 .. 13 /\ s.extra \in 0 .. Two(s.extra_bits) - 1
  BY <1>2, <1>4, <1>5
<1> QED BY <1>9, <1>10, <1>11 DEF s

(* A match that is written is the symbols of its length and distance.      *)
MatchInv ==
  /\ length \in Nat /\ 3 <= length /\ length <= 258
  /\ backward_distance \in Nat
  /\ 1 <= backward_distance /\ backward_distance <= 32768
  /\ step \in {"write", "read", "done"}
  /\ step = "write" => written = << >>
  /\ step # "done" => read = << >>
  /\ step # "write" => written = <<length_to_symbol(length),
                                   distance_to_symbol(backward_distance)>>
  /\ step = "done" => read = <<length, backward_distance>>

LEMMA MatchInit == SInit => MatchInv
BY SymbolTablesAssumption DEF SInit, MatchInv

LEMMA MatchStep == MatchInv /\ [SNext]_svars => MatchInv'
<1> SUFFICES ASSUME MatchInv, [SNext]_svars PROVE MatchInv'
  OBVIOUS
<1>1. CASE WriteMatch
  BY <1>1 DEF WriteMatch, MatchInv
<1>2. CASE ReadMatch
  <2>1. /\ written[1] = length_to_symbol(length)
        /\ written[2] = distance_to_symbol(backward_distance)
    BY <1>2 DEF ReadMatch, MatchInv
  <2>2. /\ length \in Nat /\ 3 <= length /\ length <= 258
        /\ backward_distance \in Nat
        /\ 1 <= backward_distance /\ backward_distance <= 32768
    BY DEF MatchInv
  <2>3. /\ value_of(LENGTH_TABLE, 257, written[1]) = length
        /\ value_of(DISTANCE_TABLE, 0, written[2]) = backward_distance
    BY <2>1, <2>2, LengthSymbol, DistanceSymbol
  <2>4. InTables
    <3>1. /\ written[1].code \in 257 .. 285
          /\ written[2].code \in 0 .. 29
      BY <2>1, <2>2, LengthSymbol, DistanceSymbol
    <3>2. Len(DISTANCE_TABLE) = 30
      BY DistanceRows
    <3> QED BY <3>1, <3>2 DEF InTables
  <2> QED BY <1>2, <2>3, <2>4 DEF ReadMatch, MatchInv
<1>3. CASE UNCHANGED svars
  BY <1>3 DEF svars, MatchInv
<1> QED BY <1>1, <1>2, <1>3 DEF SNext, BothRead

LEMMA MatchInvHolds == MatchInv => MatchReadsBack
<1> SUFFICES ASSUME MatchInv PROVE MatchReadsBack
  OBVIOUS
<1>1. /\ length \in Nat /\ 3 <= length /\ length <= 258
      /\ backward_distance \in Nat
      /\ 1 <= backward_distance /\ backward_distance <= 32768
  BY DEF MatchInv
<1> DEFINE a == length_to_symbol(length)
           b == distance_to_symbol(backward_distance)
<1>2. /\ a.extra \in 0 .. Two(a.extra_bits) - 1
      /\ b.extra \in 0 .. Two(b.extra_bits) - 1
      /\ length = 258 => a.code = 285
  BY <1>1, LengthSymbol, DistanceSymbol
<1> HIDE DEF a, b
<1>3. written = << >> \/ written = <<a, b>>
  BY DEF MatchInv, a, b
<1>4. \A i \in DOMAIN written :
        written[i].extra \in 0 .. Two(written[i].extra_bits) - 1
  <2>1. CASE written = << >>
    BY <2>1
  <2>2. CASE written = <<a, b>>
    <3>1. written[1] = a /\ written[2] = b /\ DOMAIN written = 1 .. 2
      BY <2>2
    <3>2. \A i \in 1 .. 2 : i = 1 \/ i = 2
      OBVIOUS
    <3> QED BY <1>2, <3>1, <3>2
  <2> QED BY <1>3, <2>1, <2>2
<1>5. read # << >> => read = <<length, backward_distance>>
  BY DEF MatchInv
<1>6. (written # << >> /\ length = 258) => written[1].code = 285
  BY <1>2, <1>3
<1>7. step # "refused"
  BY DEF MatchInv
<1> QED BY <1>4, <1>5, <1>6, <1>7 DEF MatchReadsBack, Two
-----------------------------------------------------------------------------
(* The description of the codes.  A width that is greater than zero is the *)
(* last one.                                                               *)
LEMMA UsedUpToExists ==
  ASSUME NEW S \in SUBSET Nat, NEW w \in Seq(S)
  PROVE  /\ UsedUpTo(w) \in 0 .. Len(w)
         /\ \A i \in UsedUpTo(w) + 1 .. Len(w) : w[i] = 0
<1> DEFINE T == {k \in 0 .. Len(w) : k = Len(w) \/ w[Len(w) - k] > 0}
           Is(n) == /\ n > 0 => w[n] > 0
                    /\ \A i \in n + 1 .. Len(w) : w[i] = 0
<1>1. Len(w) \in Nat /\ \A i \in 1 .. Len(w) : w[i] \in Nat
  BY LenProperties, ElementOfSeq
<1>2. PICK k \in T : \A j \in T : k <= j
  <2>1. T \in SUBSET Nat /\ T # {}
    BY <1>1
  <2> HIDE DEF T
  <2> QED BY <2>1, LeastOf
<1>3. k \in 0 .. Len(w) /\ Len(w) - k \in 0 .. Len(w)
  BY <1>1, <1>2
<1>4. Len(w) - k > 0 => w[Len(w) - k] > 0
  BY <1>1, <1>2, <1>3
<1>5. ASSUME NEW i \in (Len(w) - k) + 1 .. Len(w)
      PROVE  w[i] = 0
  <2>1. /\ i \in 1 .. Len(w) /\ Len(w) - i \in 0 .. Len(w) /\ Len(w) - i < k
        /\ Len(w) - (Len(w) - i) = i
    BY <1>1, <1>3
  <2>2. Len(w) - i \notin T
    <3> HIDE DEF T
    <3>1. k \in Nat /\ Len(w) - i \in Nat /\ ~ (k <= Len(w) - i)
      BY <1>1, <1>3, <2>1
    <3> QED BY <1>2, <3>1
  <2>3. ~ (w[i] > 0) /\ w[i] \in Nat
    BY <1>1, <2>1, <2>2
  <2> QED BY <2>3
<1>6. \E n \in 0 .. Len(w) : Is(n)
  BY <1>3, <1>4, <1>5
<1>7. UsedUpTo(w) = CHOOSE n \in 0 .. Len(w) : Is(n)
  BY DEF UsedUpTo
<1>8. UsedUpTo(w) \in 0 .. Len(w) /\ Is(UsedUpTo(w))
  <2> HIDE DEF Is
  <2> QED BY <1>6, <1>7
<1> QED BY <1>8

(* There is a run at the beginning.                                        *)
LEMMA RunLengthExists ==
  ASSUME NEW S, NEW w \in Seq(S), w # << >>
  PROVE  /\ RunLength(w) \in 1 .. Len(w)
         /\ \A i \in 1 .. RunLength(w) : w[i] = w[1]
<1> DEFINE T == {k \in 1 .. Len(w) : k = Len(w) \/ w[k + 1] # w[1]}
           Is(n) == /\ n < Len(w) => w[n + 1] # w[1]
                    /\ \A i \in 1 .. n : w[i] = w[1]
<1>1. Len(w) \in Nat \ {0}
  BY EmptySeq, LenProperties
<1>2. PICK k \in T : \A j \in T : k <= j
  <2>1. T \in SUBSET Nat /\ T # {}
    BY <1>1
  <2> HIDE DEF T
  <2> QED BY <2>1, LeastOf
<1>3. k \in 1 .. Len(w) /\ (k < Len(w) => w[k + 1] # w[1])
  BY <1>1, <1>2
<1>4. ASSUME NEW i \in 1 .. k
      PROVE  w[i] = w[1]
  <2>1. CASE i = 1
    BY <2>1
  <2>2. CASE i \in 2 .. k
    <3>1. i - 1 \in 1 .. Len(w) /\ i - 1 < k /\ (i - 1) + 1 = i /\ i - 1 # Len(w)
      BY <1>1, <1>3, <2>2
    <3>2. i - 1 \notin T
      <4> HIDE DEF T
      <4>1. k \in Nat /\ i - 1 \in Nat /\ ~ (k <= i - 1)
        BY <1>1, <1>3, <3>1
      <4> QED BY <1>2, <4>1
    <3> QED BY <3>1, <3>2
  <2> QED BY <1>1, <1>3, <2>1, <2>2
<1>5. \E n \in 1 .. Len(w) : Is(n)
  BY <1>3, <1>4
<1>6. RunLength(w) = CHOOSE n \in 1 .. Len(w) : Is(n)
  BY DEF RunLength
<1>7. RunLength(w) \in 1 .. Len(w) /\ Is(RunLength(w))
  <2> HIDE DEF Is
  <2> QED BY <1>5, <1>6
<1> QED BY <1>7

(* An element stands for the widths behind the first `from', as far as     *)
(* `to'; elements stand for one stretch after the other.                   *)
Describes(w, element, from, to) ==
  /\ from < to /\ to <= Len(w)
  /\ \/ element = <<w[to], 0, 0>> /\ to = from + 1
     \/ /\ element[1] = 16 /\ element[2] = 2 /\ element[3] \in 0 .. 3
        /\ to = from + (element[3] + 3) /\ from > 0
        /\ \A i \in from + 1 .. to : w[i] = w[from]
     \/ /\ element[1] = 17 /\ element[2] = 3 /\ element[3] \in 0 .. 7
        /\ to = from + (element[3] + 3)
        /\ \A i \in from + 1 .. to : w[i] = 0
     \/ /\ element[1] = 18 /\ element[2] = 7 /\ element[3] \in 0 .. 127
        /\ to = from + (element[3] + 11)
        /\ \A i \in from + 1 .. to : w[i] = 0

Path(w, cs, from, to) ==
  \E P \in [0 .. Len(cs) -> Nat] :
    /\ P[0] = from /\ P[Len(cs)] = to
    /\ \A i \in 1 .. Len(cs) : Describes(w, cs[i], P[i - 1], P[i])

LEMMA PathOfNone ==
  ASSUME NEW w, NEW from \in Nat
  PROVE  /\ Path(w, << >>, from, from)
         /\ \A to : Path(w, << >>, from, to) => to = from
<1>1. Len(<< >>) = 0
  OBVIOUS
<1>2. Path(w, << >>, from, from)
  <2> DEFINE P == [i \in 0 .. 0 |-> from]
  <2>1. P \in [0 .. Len(<< >>) -> Nat] /\ P[0] = from
    BY <1>1
  <2>2. \A i \in 1 .. 0 : FALSE
    OBVIOUS
  <2> HIDE DEF P
  <2> QED BY <1>1, <2>1, <2>2 DEF Path
<1> QED BY <1>1, <1>2 DEF Path

LEMMA PathAppend ==
  ASSUME NEW S, NEW w, NEW cs \in Seq(S), NEW element \in S,
         NEW from \in Nat, NEW to \in Nat, NEW next \in Nat,
         Path(w, cs, from, to), Describes(w, element, to, next)
  PROVE  Path(w, Append(cs, element), from, next)
<1> DEFINE n == Len(cs)
           ds == Append(cs, element)
<1>1. PICK P \in [0 .. n -> Nat] :
             /\ P[0] = from /\ P[n] = to
             /\ \A i \in 1 .. n : Describes(w, cs[i], P[i - 1], P[i])
  BY DEF Path
<1>2. /\ n \in Nat /\ Len(ds) = n + 1 /\ ds[n + 1] = element
      /\ \A i \in 1 .. n : ds[i] = cs[i]
  BY LenProperties, AppendProperties
<1> DEFINE Q == [i \in 0 .. n + 1 |-> IF i = n + 1 THEN next ELSE P[i]]
<1>3. Q \in [0 .. n + 1 -> Nat] /\ Q[n + 1] = next /\ \A i \in 0 .. n : Q[i] = P[i]
  <2>1. \A i \in 0 .. n + 1 : i # n + 1 => i \in 0 .. n
    BY <1>2
  <2>2. \A i \in 0 .. n : i \in 0 .. n + 1 /\ i # n + 1
    BY <1>2
  <2>3. n + 1 \in 0 .. n + 1
    BY <1>2
  <2> HIDE DEF n
  <2> QED BY <1>1, <2>1, <2>2, <2>3
<1> HIDE DEF n, ds, Q
<1>4. ASSUME NEW i \in 1 .. n + 1
      PROVE  Describes(w, ds[i], Q[i - 1], Q[i])
  <2>1. CASE i = n + 1
    <3>1. i - 1 = n /\ n \in 0 .. n
      BY <1>2, <2>1
    <3>2. Q[i - 1] = to /\ Q[i] = next /\ ds[i] = element
      BY <1>1, <1>2, <1>3, <2>1, <3>1
    <3> QED BY <3>2
  <2>2. CASE i \in 1 .. n
    <3>1. i - 1 \in 0 .. n /\ i \in 0 .. n
      BY <1>2, <2>2
    <3>2. Q[i - 1] = P[i - 1] /\ Q[i] = P[i] /\ ds[i] = cs[i]
      BY <1>2, <1>3, <2>2, <3>1
    <3> QED BY <1>1, <2>2, <3>2
  <2> QED BY <1>2, <2>1, <2>2
<1>5. Q[0] = from /\ 0 \in 0 .. n
  BY <1>1, <1>2, <1>3
<1> QED BY <1>2, <1>3, <1>4, <1>5 DEF Path, ds

LEMMA PathTail ==
  ASSUME NEW S, NEW w, NEW cs \in Seq(S), cs # << >>,
         NEW from \in Nat, NEW to \in Nat, Path(w, cs, from, to)
  PROVE  \E at \in Nat : /\ Describes(w, cs[1], from, at)
                         /\ Path(w, Tail(cs), at, to)
<1> DEFINE n == Len(cs)
           ds == Tail(cs)
<1>1. PICK P \in [0 .. n -> Nat] :
             /\ P[0] = from /\ P[n] = to
             /\ \A i \in 1 .. n : Describes(w, cs[i], P[i - 1], P[i])
  BY DEF Path
<1>2. /\ n \in Nat \ {0} /\ Len(ds) = n - 1
      /\ \A i \in 1 .. n - 1 : ds[i] = cs[i + 1]
  BY EmptySeq, LenProperties, HeadTailProperties
<1> DEFINE Q == [i \in 0 .. n - 1 |-> P[i + 1]]
<1>3. Q \in [0 .. n - 1 -> Nat] /\ \A i \in 0 .. n - 1 : Q[i] = P[i + 1]
  <2>1. \A i \in 0 .. n - 1 : i + 1 \in 0 .. n
    BY <1>2
  <2> HIDE DEF n
  <2> QED BY <1>1, <2>1
<1> HIDE DEF n, ds, Q
<1>4. ASSUME NEW i \in 1 .. n - 1
      PROVE  Describes(w, ds[i], Q[i - 1], Q[i])
  <2>1. /\ i - 1 \in 0 .. n - 1 /\ i \in 0 .. n - 1 /\ (i - 1) + 1 = i
        /\ i + 1 \in 1 .. n /\ (i + 1) - 1 = i
    BY <1>2
  <2>2. Q[i - 1] = P[i] /\ Q[i] = P[i + 1] /\ ds[i] = cs[i + 1]
    BY <1>2, <1>3, <2>1
  <2>3. Describes(w, cs[i + 1], P[i], P[i + 1])
    BY <1>1, <2>1
  <2> QED BY <2>2, <2>3
<1>5. Q[0] = P[1] /\ Q[n - 1] = to
  <2>1. 0 \in 0 .. n - 1 /\ n - 1 \in 0 .. n - 1 /\ (n - 1) + 1 = n /\ 0 + 1 = 1
    BY <1>2
  <2> QED BY <1>1, <1>3, <2>1
<1>6. P[1] \in Nat /\ Describes(w, cs[1], from, P[1])
  <2>1. 1 \in 0 .. n /\ 1 \in 1 .. n /\ 1 - 1 = 0
    BY <1>2
  <2> QED BY <1>1, <2>1
<1>7. Path(w, ds, P[1], to)
  BY <1>2, <1>3, <1>4, <1>5 DEF Path
<1> QED BY <1>6, <1>7 DEF ds

(* The widths that are described: those of the literal codes, and behind   *)
(* them those of the distance codes; the ones left out are zero.           *)
Widths == 0 .. 15
Elements == (0 .. 18) \X (0 .. 7) \X Nat

LEMMA NeededIs ==
  ASSUME literal \in Literals, distance \in Distances
  PROVE  LET L == literal_code_count
             D == distance_code_count
         IN /\ literal \in Seq(Widths) /\ distance \in Seq(Widths)
            /\ L \in 1 .. Len(literal) /\ L - LITERALS_AT_LEAST \in 0 .. 31
            /\ D \in 1 .. Len(distance) /\ D - DISTANCES_AT_LEAST \in 0 .. 31
            /\ Needed \in Seq(Widths) /\ Len(Needed) = L + D
            /\ \A i \in 1 .. L : Needed[i] = literal[i]
            /\ \A i \in 1 .. D : Needed[L + i] = distance[i]
            /\ \A i \in L + 1 .. Len(literal) : literal[i] = 0
            /\ \A i \in D + 1 .. Len(distance) : distance[i] = 0
<1> DEFINE L == literal_code_count
           D == distance_code_count
           a == SubSeq(literal, 1, L)
           b == SubSeq(distance, 1, D)
<1>1. /\ literal \in Seq(Widths) /\ distance \in Seq(Widths)
      /\ Len(literal) \in LITERALS_AT_LEAST .. LITERALS_AT_LEAST + 31
      /\ Len(distance) \in DISTANCES_AT_LEAST .. DISTANCES_AT_LEAST + 31
      /\ LITERALS_AT_LEAST \in Nat \ {0} /\ DISTANCES_AT_LEAST \in Nat \ {0}
  BY DynamicHeaderAssumption DEF Widths
<1>2. Widths \in SUBSET Nat
  BY DEF Widths
<1>3. /\ UsedUpTo(literal) \in 0 .. Len(literal)
      /\ \A i \in UsedUpTo(literal) + 1 .. Len(literal) : literal[i] = 0
      /\ UsedUpTo(distance) \in 0 .. Len(distance)
      /\ \A i \in UsedUpTo(distance) + 1 .. Len(distance) : distance[i] = 0
  BY <1>1, <1>2, UsedUpToExists
<1>4. L \in LITERALS_AT_LEAST .. Len(literal) /\ UsedUpTo(literal) <= L
  BY <1>1, <1>3 DEF literal_code_count, Max2
<1>5. D \in DISTANCES_AT_LEAST .. Len(distance) /\ UsedUpTo(distance) <= D
  BY <1>1, <1>3 DEF distance_code_count, Max2
<1>6. Needed = a \o b
  BY DEF Needed
<1> HIDE DEF L, D
<1>7. /\ L \in 1 .. Len(literal) /\ L - LITERALS_AT_LEAST \in 0 .. 31
      /\ D \in 1 .. Len(distance) /\ D - DISTANCES_AT_LEAST \in 0 .. 31
  BY <1>1, <1>4, <1>5
<1>8. /\ a \in Seq(Widths) /\ Len(a) = L /\ \A i \in 1 .. L : a[i] = literal[i]
      /\ b \in Seq(Widths) /\ Len(b) = D /\ \A i \in 1 .. D : b[i] = distance[i]
  <2>1. L \in 0 .. Len(literal) /\ D \in 0 .. Len(distance)
    BY <1>1, <1>7
  <2> QED BY <1>1, <2>1, TakeProperties
<1> HIDE DEF a, b
<1>9. /\ Needed \in Seq(Widths) /\ Len(Needed) = L + D
      /\ \A i \in 1 .. L + D : Needed[i] = IF i <= L THEN a[i] ELSE b[i - L]
  BY <1>6, <1>8, ConcatProperties
<1>10. \A i \in 1 .. L : Needed[i] = literal[i]
  BY <1>1, <1>7, <1>8, <1>9
<1>11. ASSUME NEW i \in 1 .. D
       PROVE  Needed[L + i] = distance[i]
  <2>1. L + i \in 1 .. L + D /\ ~ (L + i <= L) /\ (L + i) - L = i
    BY <1>1, <1>7
  <2> QED BY <1>8, <1>9, <2>1
<1>12. ASSUME NEW i \in L + 1 .. Len(literal)
       PROVE  literal[i] = 0
  <2>1. i \in UsedUpTo(literal) + 1 .. Len(literal)
    BY <1>1, <1>3, <1>4, <1>7
  <2> QED BY <1>3, <2>1
<1>13. ASSUME NEW i \in D + 1 .. Len(distance)
       PROVE  distance[i] = 0
  <2>1. i \in UsedUpTo(distance) + 1 .. Len(distance)
    BY <1>1, <1>3, <1>5, <1>7
  <2> QED BY <1>3, <2>1
<1> QED BY <1>1, <1>7, <1>9, <1>10, <1>11, <1>12, <1>13 DEF L, D

(* How many of the widths the elements written so far describe.            *)
Behind  == Len(Needed) - Len(rest)
Covered == CASE pc = "run" -> Behind
             [] pc \in {"zeros", "repeats"} -> Behind + RunLength(rest) - count
             [] OTHER -> Len(Needed)

(* What is still to be written is the end of the widths; those of a run    *)
(* are alike.                                                              *)
RestInv ==
  /\ rest \in Seq(Widths) /\ Len(rest) <= Len(Needed)
  /\ rest = SubSeq(Needed, Behind + 1, Len(Needed))
  /\ pc \in {"zeros", "repeats"} =>
       /\ rest # << >> /\ count \in 0 .. RunLength(rest)
       /\ pc = "zeros" => rest[1] = 0
       /\ pc = "repeats" => count < RunLength(rest)

(* What was read is the beginning of the widths, and what is in the        *)
(* elements comes behind it.                                               *)
ReadInv ==
  /\ Len(all_code_lengths) \in 0 .. Len(Needed)
  /\ all_code_lengths = SubSeq(Needed, 1, Len(all_code_lengths))
  /\ pc \in {"run", "zeros", "repeats", "widths"} => all_code_lengths = << >>
  /\ pc = "done" => Len(all_code_lengths) = Len(Needed)
  /\ Path(Needed, codes, Len(all_code_lengths), Covered)

CountsInv ==
  /\ pc \in {"widths", "elements", "done"} =>
       hlit = literal_code_count /\ hdist = distance_code_count
  /\ pc = "widths" => /\ hclen = bitwidth_code_count
                      /\ slots = SubSeq(Ordered, 1, bitwidth_code_count)
  /\ pc = "elements" => \A i \in DOMAIN codes : code_lengths[codes[i][1]] # 0

HeaderInv ==
  /\ literal \in Literals /\ distance \in Distances
  /\ pc \in {"run", "zeros", "repeats", "widths", "elements", "done"}
  /\ codes \in Seq(Elements)
  /\ RestInv /\ ReadInv /\ CountsInv

LEMMA HeaderInit == DInit => HeaderInv
<1> SUFFICES ASSUME DInit PROVE HeaderInv
  OBVIOUS
<1>1. literal \in Literals /\ distance \in Distances
  BY DEF DInit
<1>2. Needed \in Seq(Widths) /\ Len(Needed) \in Nat
  BY <1>1, NeededIs, LenProperties
<1>3. rest = Needed /\ Behind = 0 /\ pc = "run" /\ codes = << >>
  BY <1>2 DEF DInit, Behind
<1>4. SubSeq(Needed, 1, Len(Needed)) = Needed /\ SubSeq(Needed, 1, 0) = << >>
  BY <1>2, SubSeqFull, SubSeqEmpty
<1>5. RestInv
  BY <1>2, <1>3, <1>4 DEF RestInv
<1>6. all_code_lengths = << >> /\ Len(all_code_lengths) = 0
  BY DEF DInit
<1>7. Covered = 0
  BY <1>3 DEF Covered
<1>8. ReadInv
  <2>1. Path(Needed, codes, 0, 0)
    BY <1>3, PathOfNone
  <2> QED BY <1>2, <1>3, <1>4, <1>6, <1>7, <2>1 DEF ReadInv
<1>9. CountsInv
  BY <1>3 DEF CountsInv
<1>10. codes \in Seq(Elements)
  BY <1>3, EmptySeq
<1> QED BY <1>1, <1>3, <1>5, <1>8, <1>9, <1>10 DEF HeaderInv

(* A run lies behind what is described before it.                          *)
LEMMA RunIs ==
  ASSUME HeaderInv, rest # << >>
  PROVE  /\ Len(Needed) \in Nat /\ Behind \in Nat
         /\ RunLength(rest) \in 1 .. Len(rest)
         /\ Behind + RunLength(rest) <= Len(Needed)
         /\ rest[1] \in Widths /\ Needed \in Seq(Widths)
         /\ \A i \in Behind + 1 .. Behind + RunLength(rest) : Needed[i] = rest[1]
<1> DEFINE r == RunLength(rest)
           b == Behind
<1>1. /\ rest \in Seq(Widths) /\ Len(rest) <= Len(Needed)
      /\ rest = SubSeq(Needed, b + 1, Len(Needed))
  BY DEF HeaderInv, RestInv
<1>2. Needed \in Seq(Widths) /\ Len(Needed) \in Nat /\ Len(rest) \in Nat
  BY <1>1, NeededIs, LenProperties DEF HeaderInv
<1>3. b \in 0 .. Len(Needed) /\ Len(Needed) - b = Len(rest)
  BY <1>1, <1>2 DEF Behind
<1>4. r \in 1 .. Len(rest) /\ \A i \in 1 .. r : rest[i] = rest[1]
  BY <1>1, RunLengthExists
<1> HIDE DEF r, b
<1>5. \A i \in 1 .. Len(rest) : rest[i] = Needed[b + i]
  BY <1>1, <1>2, <1>3, DropProperties
<1>6. b + r <= Len(Needed)
  BY <1>2, <1>3, <1>4
<1>7. ASSUME NEW i \in b + 1 .. b + r
      PROVE  Needed[i] = rest[1]
  <2>1. i - b \in 1 .. r /\ i - b \in 1 .. Len(rest) /\ b + (i - b) = i
    BY <1>2, <1>3, <1>4
  <2> QED BY <1>4, <1>5, <2>1
<1>8. rest[1] \in Widths
  <2>1. 1 \in 1 .. Len(rest)
    BY <1>2, <1>4
  <2> QED BY <1>1, <2>1, ElementOfSeq
<1> QED BY <1>2, <1>3, <1>4, <1>6, <1>7, <1>8 DEF r, b

(* An element is written behind the others.                                *)
LEMMA WriteElement ==
  ASSUME HeaderInv, NEW element \in Elements,
         pc \in {"run", "zeros", "repeats"}, pc' \in {"run", "zeros", "repeats"},
         codes' = Append(codes, element),
         UNCHANGED <<literal, distance, rest, decoded>>,
         RestInv', Covered \in Nat, Covered' \in Nat,
         Describes(Needed, element, Covered, Covered')
  PROVE  HeaderInv'
<1>1. Needed' = Needed /\ all_code_lengths' = all_code_lengths
  BY DEF Needed, literal_code_count, distance_code_count, decoded
<1>2. Len(all_code_lengths) = 0 /\ all_code_lengths = << >>
  BY DEF HeaderInv, ReadInv
<1>3. Path(Needed, Append(codes, element), Len(all_code_lengths), Covered')
  <2>1. Path(Needed, codes, 0, Covered)
    BY <1>2 DEF HeaderInv, ReadInv
  <2>2. codes \in Seq(Elements)
    BY DEF HeaderInv
  <2> QED BY <1>2, <2>1, <2>2, PathAppend
<1>4. ReadInv'
  BY <1>1, <1>2, <1>3 DEF HeaderInv, ReadInv
<1>5. CountsInv'
  BY DEF CountsInv
<1>6. codes' \in Seq(Elements)
  BY AppendProperties DEF HeaderInv
<1> QED BY <1>4, <1>5, <1>6 DEF HeaderInv

Writing == {"run", "zeros", "repeats"}

LEMMA BeginRunStep == HeaderInv /\ BeginRun => HeaderInv'
<1> SUFFICES ASSUME HeaderInv, BeginRun PROVE HeaderInv'
  OBVIOUS
<1> DEFINE r == RunLength(rest)
           b == Behind
<1>1. /\ pc = "run" /\ rest # << >>
      /\ UNCHANGED <<literal, distance, rest, decoded>>
  BY DEF BeginRun
<1>2. /\ Len(Needed) \in Nat /\ b \in Nat /\ r \in 1 .. Len(rest)
      /\ b + r <= Len(Needed) /\ rest[1] \in Widths
      /\ \A i \in b + 1 .. b + r : Needed[i] = rest[1]
  BY <1>1, RunIs
<1>3. Needed' = Needed /\ all_code_lengths' = all_code_lengths
  BY <1>1 DEF Needed, literal_code_count, distance_code_count, decoded
<1>4. b' = b /\ r' = r /\ Covered = b
  BY <1>1, <1>3 DEF Behind, RunLength, Covered
<1>5. Len(rest) \in Nat
  BY LenProperties DEF HeaderInv, RestInv
<1>6. CASE rest[1] = 0
  <2>1. count' = r /\ pc' = "zeros" /\ codes' = codes
    BY <1>6 DEF BeginRun
  <2>2. Covered' = b + r - r
    BY <1>4, <2>1 DEF Covered
  <2> HIDE DEF r, b
  <2>3. Covered' = b
    BY <1>2, <1>5, <2>2
  <2>4. count' \in 0 .. r
    BY <1>2, <1>5, <2>1
  <2>5. RestInv'
    BY <1>1, <1>3, <1>4, <1>6, <2>1, <2>4 DEF HeaderInv, RestInv, r, b
  <2>6. ReadInv'
    BY <1>1, <1>3, <1>4, <2>1, <2>3 DEF HeaderInv, ReadInv
  <2>7. CountsInv'
    BY <2>1 DEF CountsInv
  <2> QED BY <1>1, <2>1, <2>5, <2>6, <2>7 DEF HeaderInv
<1>7. CASE rest[1] # 0
  <2> DEFINE e == <<rest[1], 0, 0>>
  <2>1. count' = r - 1 /\ pc' = "repeats" /\ codes' = Append(codes, e)
    BY <1>7 DEF BeginRun, Write
  <2>2. Covered' = b + r - (r - 1)
    BY <1>4, <2>1 DEF Covered
  <2>3. e \in Elements
    <3>1. rest[1] \in 0 .. 15
      BY <1>2 DEF Widths
    <3> QED BY <3>1 DEF Elements
  <2> HIDE DEF r, b
  <2>4. Covered' = b + 1 /\ b + 1 \in b + 1 .. b + r /\ b < b + 1
    BY <1>2, <1>5, <2>2
  <2>5. Needed[b + 1] = rest[1] /\ b + 1 <= Len(Needed)
    BY <1>2, <1>5, <2>4
  <2>6. Describes(Needed, e, b, b + 1)
    BY <2>4, <2>5 DEF Describes
  <2>7. count' \in 0 .. r /\ count' < r
    BY <1>2, <1>5, <2>1
  <2>8. RestInv'
    BY <1>1, <1>3, <1>4, <2>1, <2>7 DEF HeaderInv, RestInv, r, b
  <2>9. Covered \in Nat /\ Covered' \in Nat
    BY <1>2, <1>4, <2>4 DEF b
  <2>10. Describes(Needed, e, Covered, Covered')
    BY <1>4, <2>4, <2>6 DEF b
  <2>11. pc \in Writing /\ pc' \in Writing
    BY <1>1, <2>1 DEF Writing
  <2> HIDE DEF e
  <2> QED BY <1>1, <2>1, <2>3, <2>8, <2>9, <2>10, <2>11, WriteElement DEF Writing
<1> QED BY <1>6, <1>7

(* Some of a run is written.                                               *)
LEMMA EmitSome ==
  ASSUME HeaderInv, pc \in {"zeros", "repeats"},
         NEW element \in Elements, NEW amount \in 1 .. count,
         codes' = Append(codes, element), count' = count - amount,
         UNCHANGED <<literal, distance, rest, decoded, pc>>,
         \/ element[1] \in Widths /\ element = <<rest[1], 0, 0>> /\ amount = 1
         \/ /\ element[1] = 16 /\ element[2] = 2 /\ element[3] \in 0 .. 3
            /\ amount = element[3] + 3 /\ pc = "repeats"
         \/ /\ element[1] = 17 /\ element[2] = 3 /\ element[3] \in 0 .. 7
            /\ amount = element[3] + 3 /\ pc = "zeros"
         \/ /\ element[1] = 18 /\ element[2] = 7 /\ element[3] \in 0 .. 127
            /\ amount = element[3] + 11 /\ pc = "zeros"
  PROVE  HeaderInv'
<1> DEFINE r == RunLength(rest)
           b == Behind
           from == b + r - count
           to == from + amount
<1>1. /\ rest # << >> /\ count \in 0 .. r
      /\ pc = "zeros" => rest[1] = 0
      /\ pc = "repeats" => count < r
  BY DEF HeaderInv, RestInv
<1>2. /\ Len(Needed) \in Nat /\ b \in Nat /\ r \in 1 .. Len(rest)
      /\ b + r <= Len(Needed)
      /\ \A i \in b + 1 .. b + r : Needed[i] = rest[1]
  BY <1>1, RunIs
<1>3. Needed' = Needed
  BY DEF Needed, literal_code_count, distance_code_count
<1>4. b' = b /\ r' = r /\ Covered = from
  BY <1>3 DEF Behind, RunLength, Covered
<1>5. Len(rest) \in Nat
  BY LenProperties DEF HeaderInv, RestInv
<1>6. Covered' = b + r - (count - amount)
  BY <1>4 DEF Covered
<1> HIDE DEF b, r
<1>7. /\ Covered' = to /\ from \in Nat /\ to \in Nat /\ b <= from /\ from < to
      /\ to <= b + r /\ to <= Len(Needed) /\ count \in Nat /\ r \in Nat
  BY <1>1, <1>2, <1>5, <1>6
<1>8. pc = "repeats" => from > b
  BY <1>1, <1>2, <1>5, <1>7
<1> HIDE DEF from, to
<1>9. \A i \in from + 1 .. to : i \in b + 1 .. b + r
  BY <1>2, <1>7
<1>10. \A i \in from + 1 .. to : Needed[i] = rest[1]
  BY <1>2, <1>9
<1>11. to = from + amount
  BY DEF to
<1>12. Describes(Needed, element, from, to)
  <2>1. CASE element[1] \in Widths /\ element = <<rest[1], 0, 0>> /\ amount = 1
    <3>1. to = from + 1 /\ to \in from + 1 .. to
      BY <1>7, <1>11, <2>1
    <3> QED BY <1>7, <1>10, <2>1, <3>1 DEF Describes
  <2>2. CASE /\ element[1] = 16 /\ element[2] = 2 /\ element[3] \in 0 .. 3
             /\ amount = element[3] + 3 /\ pc = "repeats"
    <3>1. from \in b + 1 .. b + r /\ from > 0
      BY <1>2, <1>7, <1>8, <2>2
    <3>2. Needed[from] = rest[1]
      BY <1>2, <3>1
    <3> QED BY <1>7, <1>10, <1>11, <2>2, <3>1, <3>2 DEF Describes
  <2>3. CASE /\ element[1] = 17 /\ element[2] = 3 /\ element[3] \in 0 .. 7
             /\ amount = element[3] + 3 /\ pc = "zeros"
    BY <1>1, <1>7, <1>10, <1>11, <2>3 DEF Describes
  <2>4. CASE /\ element[1] = 18 /\ element[2] = 7 /\ element[3] \in 0 .. 127
             /\ amount = element[3] + 11 /\ pc = "zeros"
    BY <1>1, <1>7, <1>10, <1>11, <2>4 DEF Describes
  <2> QED BY <2>1, <2>2, <2>3, <2>4
<1>13. RestInv'
  <2>1. count' \in 0 .. r /\ (count < r => count' < r)
    BY <1>1, <1>7
  <2> QED BY <1>1, <1>3, <1>4, <2>1 DEF HeaderInv, RestInv, r, b
<1>14. Covered \in Nat /\ Covered' \in Nat /\ Describes(Needed, element, Covered, Covered')
  BY <1>4, <1>7, <1>12
<1>15. /\ pc \in Writing /\ pc' \in Writing
       /\ UNCHANGED <<literal, distance, rest, decoded>>
  BY DEF Writing
<1> QED BY <1>13, <1>14, <1>15, WriteElement DEF Writing

LEMMA EmitStep ==
  HeaderInv /\ (LongZeros \/ Zeros \/ SingleZero \/ Repeat \/ SingleWidth)
    => HeaderInv'
<1> SUFFICES ASSUME HeaderInv, LongZeros \/ Zeros \/ SingleZero \/ Repeat \/ SingleWidth
             PROVE  HeaderInv'
  OBVIOUS
<1>1. pc \in {"zeros", "repeats"}
  BY DEF LongZeros, Zeros, SingleZero, Repeat, SingleWidth
<1>2. /\ rest # << >> /\ count \in 0 .. RunLength(rest)
      /\ pc = "zeros" => rest[1] = 0
  BY <1>1 DEF HeaderInv, RestInv
<1>3. RunLength(rest) \in 1 .. Len(rest) /\ rest[1] \in Widths /\ Len(rest) \in Nat
  BY <1>2, RunIs, LenProperties DEF HeaderInv, RestInv
<1> DEFINE r == RunLength(rest)
<1> HIDE DEF r
<1>4. count \in Nat
  <2>1. r \in 1 .. Len(rest) /\ count \in 0 .. r
    BY <1>2, <1>3 DEF r
  <2> QED BY <1>3, <2>1
<1>5. ASSUME LongZeros PROVE HeaderInv'
  <2> DEFINE a == Amount(138)
             e == <<18, 7, a - 11>>
  <2>1. a \in 11 .. 138 /\ a <= count
    BY <1>4, <1>5 DEF LongZeros, Amount
  <2>2. e \in Elements /\ e[1] = 18 /\ e[2] = 7 /\ e[3] \in 0 .. 127 /\ a = e[3] + 11
    BY <2>1 DEF Elements
  <2>3. /\ codes' = Append(codes, e) /\ count' = count - a /\ pc = "zeros"
        /\ UNCHANGED <<literal, distance, rest, decoded, pc>>
    BY <1>5 DEF LongZeros, Emit, Write
  <2>4. a \in 1 .. count
    BY <1>4, <2>1
  <2> HIDE DEF a, e
  <2> QED BY <1>1, <2>2, <2>3, <2>4, EmitSome
<1>6. ASSUME Zeros PROVE HeaderInv'
  <2> DEFINE e == <<17, 3, count - 3>>
  <2>1. count \in 3 .. 10
    BY <1>6 DEF Zeros
  <2>2. e \in Elements /\ e[1] = 17 /\ e[2] = 3 /\ e[3] \in 0 .. 7 /\ count = e[3] + 3
    BY <2>1 DEF Elements
  <2>3. /\ codes' = Append(codes, e) /\ count' = count - count /\ pc = "zeros"
        /\ UNCHANGED <<literal, distance, rest, decoded, pc>>
    BY <1>6 DEF Zeros, Emit, Write
  <2>4. count \in 1 .. count
    BY <2>1
  <2> HIDE DEF e
  <2> QED BY <1>1, <2>2, <2>3, <2>4, EmitSome
<1>7. ASSUME SingleZero PROVE HeaderInv'
  <2> DEFINE e == <<0, 0, 1 - 1>>
  <2>1. /\ codes' = Append(codes, e) /\ count' = count - 1 /\ pc = "zeros"
        /\ UNCHANGED <<literal, distance, rest, decoded, pc>>
        /\ count \in 1 .. 2
    BY <1>7 DEF SingleZero, Emit, Write
  <2>2. e \in Elements /\ e = <<rest[1], 0, 0>> /\ e[1] \in Widths
    BY <1>2, <2>1 DEF Elements, Widths
  <2>3. 1 \in 1 .. count
    BY <2>1
  <2> HIDE DEF e
  <2> QED BY <1>1, <2>1, <2>2, <2>3, EmitSome
<1>8. ASSUME Repeat PROVE HeaderInv'
  <2> DEFINE a == Amount(6)
             e == <<16, 2, a - 3>>
  <2>1. a \in 3 .. 6 /\ a <= count
    BY <1>4, <1>8 DEF Repeat, Amount
  <2>2. e \in Elements /\ e[1] = 16 /\ e[2] = 2 /\ e[3] \in 0 .. 3 /\ a = e[3] + 3
    BY <2>1 DEF Elements
  <2>3. /\ codes' = Append(codes, e) /\ count' = count - a /\ pc = "repeats"
        /\ UNCHANGED <<literal, distance, rest, decoded, pc>>
    BY <1>8 DEF Repeat, Emit, Write
  <2>4. a \in 1 .. count
    BY <1>4, <2>1
  <2> HIDE DEF a, e
  <2> QED BY <1>1, <2>2, <2>3, <2>4, EmitSome
<1>9. ASSUME SingleWidth PROVE HeaderInv'
  <2> DEFINE e == <<rest[1], 0, 0>>
  <2>1. /\ codes' = Append(codes, e) /\ count' = count - 1
        /\ UNCHANGED <<literal, distance, rest, decoded, pc>>
        /\ count \in 1 .. 2
    BY <1>9 DEF SingleWidth, Write
  <2>2. e \in Elements /\ e[1] \in Widths /\ e = <<rest[1], 0, 0>>
    BY <1>3 DEF Elements, Widths
  <2>3. 1 \in 1 .. count
    BY <2>1
  <2> HIDE DEF e
  <2> QED BY <1>1, <2>1, <2>2, <2>3, EmitSome DEF e
<1> QED BY <1>5, <1>6, <1>7, <1>8, <1>9

LEMMA EndRunStep == HeaderInv /\ EndRun => HeaderInv'
<1> SUFFICES ASSUME HeaderInv, EndRun PROVE HeaderInv'
  OBVIOUS
<1> DEFINE r == RunLength(rest)
           b == Behind
           w == Needed
<1>1. /\ pc \in {"zeros", "repeats"} /\ count = 0 /\ pc' = "run"
      /\ rest' = SubSeq(rest, r + 1, Len(rest))
      /\ UNCHANGED <<literal, distance, count, codes, decoded>>
  BY DEF EndRun
<1>2. rest # << >>
  BY <1>1 DEF HeaderInv, RestInv
<1>3. /\ Len(w) \in Nat /\ b \in Nat /\ r \in 1 .. Len(rest) /\ w \in Seq(Widths)
      /\ b + r <= Len(w)
  BY <1>2, RunIs
<1>4. w' = w /\ all_code_lengths' = all_code_lengths
  BY <1>1 DEF Needed, literal_code_count, distance_code_count, decoded
<1>5. /\ rest \in Seq(Widths) /\ Len(rest) \in Nat /\ b = Len(w) - Len(rest)
      /\ rest = SubSeq(w, b + 1, Len(w))
  BY LenProperties DEF HeaderInv, RestInv, Behind
<1>6. Covered = b + r - count
  BY <1>1 DEF Covered
<1>7. Covered' = Len(w) - Len(rest')
  BY <1>1, <1>4 DEF Covered, Behind
<1> HIDE DEF r, b, w
<1>8. rest' \in Seq(Widths) /\ Len(rest') = Len(rest) - r
  <2>1. r \in 0 .. Len(rest)
    BY <1>3, <1>5
  <2> QED BY <1>1, <1>5, <2>1, DropProperties
<1>9. Covered' = Covered /\ Covered' = b + r /\ Len(rest') <= Len(w)
  <2> DEFINE m == Len(w)
             n == Len(rest)
  <2>1. m \in Nat /\ n \in Nat /\ b \in Nat /\ r \in 1 .. n /\ b = m - n
    BY <1>3, <1>5
  <2>2. Covered' = m - (n - r) /\ Len(rest') = n - r
    BY <1>7, <1>8
  <2>3. Covered = b + r - 0
    BY <1>1, <1>6
  <2> HIDE DEF m, n
  <2>4. n - r <= m /\ m - (n - r) = b + r /\ b + r - 0 = b + r
    BY <2>1
  <2> QED BY <2>2, <2>3, <2>4 DEF m
<1>10. rest' = SubSeq(w, b + r + 1, Len(w))
  <2>1. b \in 0 .. Len(w) /\ r \in 0 .. Len(w) - b /\ Len(w) - b = Len(rest)
    BY <1>3, <1>5
  <2>2. SubSeq(SubSeq(w, b + 1, Len(w)), r + 1, Len(w) - b)
          = SubSeq(w, b + r + 1, Len(w))
    BY <1>3, <2>1, DropOfDrop
  <2> QED BY <1>1, <1>5, <2>1, <2>2
<1>11. Behind' = b + r
  BY <1>4, <1>7, <1>9 DEF Behind, w
<1>12. RestInv'
  BY <1>1, <1>4, <1>8, <1>9, <1>10, <1>11 DEF RestInv, w
<1>13. ReadInv'
  BY <1>1, <1>4, <1>9 DEF HeaderInv, ReadInv, w
<1>14. CountsInv'
  BY <1>1 DEF CountsInv
<1> QED BY <1>1, <1>12, <1>13, <1>14 DEF HeaderInv

LEMMA OrderedIs ==
  /\ Ordered \in Seq({0, 7}) /\ Len(Ordered) = 19
  /\ bitwidth_code_count \in BITWIDTHS_AT_LEAST .. 19
  /\ bitwidth_code_count - BITWIDTHS_AT_LEAST \in 0 .. 15
  /\ SubSeq(Ordered, 1, bitwidth_code_count) \in Seq({0, 7})
  /\ Len(SubSeq(Ordered, 1, bitwidth_code_count)) = bitwidth_code_count
  /\ \A i \in 1 .. bitwidth_code_count :
       SubSeq(Ordered, 1, bitwidth_code_count)[i] = Ordered[i]
  /\ \A i \in bitwidth_code_count + 1 .. 19 : Ordered[i] = 0
<1> DEFINE n == bitwidth_code_count
           u == UsedUpTo(Ordered)
<1>1. \A i \in 1 .. 19 : Ordered[i] \in {0, 7}
  BY DEF Ordered, bitwidth
<1>2. Ordered \in [1 .. 19 -> {0, 7}]
  BY <1>1 DEF Ordered
<1>3. Ordered \in Seq({0, 7}) /\ Len(Ordered) = 19
  <2> DEFINE k == 19
  <2>1. Ordered \in [1 .. k -> {0, 7}] /\ k \in Nat
    BY <1>2
  <2> HIDE DEF k
  <2>2. Ordered \in Seq({0, 7}) /\ Len(Ordered) = k
    BY <2>1
  <2> QED BY <2>2 DEF k
<1>4. u \in 0 .. 19 /\ \A i \in u + 1 .. 19 : Ordered[i] = 0
  <2>1. {0, 7} \in SUBSET Nat
    OBVIOUS
  <2>2. u \in 0 .. Len(Ordered) /\ \A i \in u + 1 .. Len(Ordered) : Ordered[i] = 0
    BY <1>3, <2>1, UsedUpToExists
  <2> QED BY <1>3, <2>2
<1>5. BITWIDTHS_AT_LEAST \in 4 .. 19
  BY DynamicHeaderAssumption
<1>6. n \in BITWIDTHS_AT_LEAST .. 19 /\ u <= n
  <2>1. n = Max2(BITWIDTHS_AT_LEAST, u)
    BY DEF bitwidth_code_count
  <2> HIDE DEF n, u
  <2> QED BY <1>4, <1>5, <2>1 DEF Max2
<1> HIDE DEF n, u
<1>7. n - BITWIDTHS_AT_LEAST \in 0 .. 15 /\ n \in 0 .. Len(Ordered)
  BY <1>3, <1>5, <1>6
<1>8. /\ SubSeq(Ordered, 1, n) \in Seq({0, 7}) /\ Len(SubSeq(Ordered, 1, n)) = n
      /\ \A i \in 1 .. n : SubSeq(Ordered, 1, n)[i] = Ordered[i]
  BY <1>3, <1>7, TakeProperties, ZenonT(60)
<1>9. \A i \in n + 1 .. 19 : Ordered[i] = 0
  <2>1. \A i \in n + 1 .. 19 : i \in u + 1 .. 19
    BY <1>4, <1>5, <1>6
  <2> QED BY <1>4, <2>1
<1> QED BY <1>3, <1>6, <1>7, <1>8, <1>9 DEF n

LEMMA WriteCountsStep == HeaderInv /\ WriteCounts => HeaderInv'
<1> SUFFICES ASSUME HeaderInv, WriteCounts PROVE HeaderInv'
  OBVIOUS
<1>1. /\ pc = "run" /\ rest = << >> /\ pc' = "widths"
      /\ hlit' = literal_code_count /\ hdist' = distance_code_count
      /\ hclen' = bitwidth_code_count
      /\ slots' = SubSeq(Ordered, 1, bitwidth_code_count)
      /\ UNCHANGED <<literal, distance, rest, count, codes, code_lengths,
                     all_code_lengths>>
  BY DEF WriteCounts
<1>2. /\ Needed' = Needed /\ literal_code_count' = literal_code_count
      /\ distance_code_count' = distance_code_count /\ Behind' = Behind
  BY <1>1 DEF Needed, literal_code_count, distance_code_count, Behind
<1>3. Ordered' = Ordered /\ bitwidth_code_count' = bitwidth_code_count
  BY <1>1 DEF Ordered, bitwidth, bitwidth_code_count
<1>4. Covered' = Covered
  <2>1. Len(rest) = 0 /\ Len(Needed) \in Nat
    BY <1>1, NeededIs, LenProperties DEF HeaderInv
  <2>2. Covered = Len(Needed) - Len(rest) /\ Covered' = Len(Needed)
    BY <1>1, <1>2 DEF Covered, Behind
  <2> QED BY <2>1, <2>2
<1>5. RestInv'
  BY <1>1, <1>2 DEF HeaderInv, RestInv
<1>6. ReadInv'
  BY <1>1, <1>2, <1>4 DEF HeaderInv, ReadInv
<1>7. CountsInv'
  BY <1>1, <1>2, <1>3 DEF CountsInv
<1> QED BY <1>1, <1>5, <1>6, <1>7 DEF HeaderInv

(* The decoder finds the width of every code that occurs.                  *)
LEMMA ReadWidthsStep == HeaderInv /\ ReadWidths => HeaderInv'
<1> SUFFICES ASSUME HeaderInv, ReadWidths PROVE HeaderInv'
  OBVIOUS
<1> DEFINE n == bitwidth_code_count
           At(c, i) == i \in DOMAIN slots /\ BITWIDTH_CODE_ORDER[i] = c
<1>1. /\ pc = "widths" /\ pc' = "elements"
      /\ UNCHANGED <<literal, distance, rest, count, codes, counts,
                     all_code_lengths>>
      /\ code_lengths' =
           [c \in 0 .. 18 |->
              IF \E i \in DOMAIN slots : BITWIDTH_CODE_ORDER[i] = c
                THEN slots[CHOOSE i \in DOMAIN slots : BITWIDTH_CODE_ORDER[i] = c]
                ELSE 0]
  BY DEF ReadWidths
<1>2. /\ Needed' = Needed /\ literal_code_count' = literal_code_count
      /\ distance_code_count' = distance_code_count /\ Behind' = Behind
  BY <1>1 DEF Needed, literal_code_count, distance_code_count, Behind
<1>3. slots = SubSeq(Ordered, 1, n)
  BY <1>1 DEF HeaderInv, CountsInv
<1>4. /\ n \in 0 .. 19 /\ DOMAIN slots = 1 .. n
      /\ \A i \in 1 .. n : slots[i] = Ordered[i]
      /\ \A i \in n + 1 .. 19 : Ordered[i] = 0
  <2>1. BITWIDTHS_AT_LEAST \in 4 .. 19
    BY DynamicHeaderAssumption
  <2>2. n \in 0 .. 19
    BY <2>1, OrderedIs
  <2>3. DOMAIN slots = 1 .. Len(slots)
    BY <1>3, OrderedIs, LenProperties
  <2> QED BY <1>3, <2>2, <2>3, OrderedIs
<1>5. ASSUME NEW k \in DOMAIN codes
      PROVE  code_lengths'[codes[k][1]] # 0
  <2> DEFINE c == codes[k][1]
             m == CHOOSE i \in DOMAIN slots : BITWIDTH_CODE_ORDER[i] = c
  <2>1. c \in 0 .. 18
    <3>1. codes[k] \in Elements
      <4>1. codes \in Seq(Elements)
        BY DEF HeaderInv
      <4>2. k \in 1 .. Len(codes)
        BY <4>1, LenProperties
      <4> QED BY <4>1, <4>2, ElementOfSeq
    <3> QED BY <3>1 DEF Elements
  <2>2. PICK j \in 1 .. 19 : BITWIDTH_CODE_ORDER[j] = c
    <3>1. Contains(BITWIDTH_CODE_ORDER, c) /\ Len(BITWIDTH_CODE_ORDER) = 19
      BY <2>1, DynamicHeaderAssumption
    <3>2. \E i \in 1 .. Len(BITWIDTH_CODE_ORDER) : BITWIDTH_CODE_ORDER[i] = c
      BY <3>1 DEF Contains
    <3> QED BY <3>1, <3>2
  <2>3. bitwidth(c) = 7
    BY DEF bitwidth
  <2>4. Ordered[j] = 7
    BY <2>2, <2>3 DEF Ordered
  <2>5. j \in DOMAIN slots
    <3> HIDE DEF n
    <3>1. j <= n
      BY <1>4, <2>2, <2>4
    <3> QED BY <1>4, <2>2, <3>1
  <2>6. m \in DOMAIN slots /\ BITWIDTH_CODE_ORDER[m] = c
    BY <2>2, <2>5
  <2> HIDE DEF c, m
  <2>7. m \in 1 .. 19 /\ slots[m] = Ordered[m]
    <3> HIDE DEF n
    <3> QED BY <1>4, <2>6, SMTT(30)
  <2>8. Ordered[m] = 7
    BY <2>3, <2>6, <2>7 DEF Ordered
  <2>9. code_lengths'[c] = slots[m]
    BY <1>1, <2>1, <2>6 DEF m
  <2> QED BY <2>7, <2>8, <2>9 DEF c
<1>6. Covered' = Covered
  BY <1>1, <1>2 DEF Covered
<1>7. RestInv'
  BY <1>1, <1>2 DEF HeaderInv, RestInv
<1>8. ReadInv'
  BY <1>1, <1>2, <1>6 DEF HeaderInv, ReadInv
<1>9. CountsInv'
  BY <1>1, <1>2, <1>5 DEF HeaderInv, CountsInv, counts
<1> QED BY <1>1, <1>7, <1>8, <1>9 DEF HeaderInv

LEMMA ExpandedIs ==
  ASSUME NEW w \in Seq(Widths), NEW element \in Elements,
         NEW n \in 0 .. Len(w), NEW to \in Nat,
         all_code_lengths = SubSeq(w, 1, n), Describes(w, element, n, to)
  PROVE  /\ all_code_lengths \o Expanded(element) = SubSeq(w, 1, to)
         /\ Len(all_code_lengths \o Expanded(element)) = to
         /\ to \in n + 1 .. Len(w)
         /\ element[1] = 16 => all_code_lengths # << >>
<1> DEFINE a == all_code_lengths
           e == Expanded(element)
<1>1. n < to /\ to <= Len(w) /\ Len(w) \in Nat
  BY LenProperties DEF Describes
<1>2. to \in n + 1 .. Len(w) /\ to \in 0 .. Len(w) /\ n \in Nat
  BY <1>1
<1>3. /\ a \in Seq(Widths) /\ Len(a) = n /\ \A i \in 1 .. n : a[i] = w[i]
  BY TakeProperties
<1>4. /\ SubSeq(w, 1, to) \in Seq(Widths) /\ Len(SubSeq(w, 1, to)) = to
      /\ \A i \in 1 .. to : SubSeq(w, 1, to)[i] = w[i]
  BY <1>2, TakeProperties
<1>5. \A i \in 1 .. Len(w) : w[i] \in Widths
  BY ElementOfSeq
<1>6. /\ e \in Seq(Widths) /\ Len(e) = to - n
      /\ \A i \in 1 .. to - n : e[i] = w[n + i]
  <2>1. ASSUME NEW v \in Widths, NEW k \in Nat, e = Copies(v, k), to = n + k,
               \A i \in n + 1 .. to : w[i] = v
        PROVE  /\ e \in Seq(Widths) /\ Len(e) = to - n
               /\ \A i \in 1 .. to - n : e[i] = w[n + i]
    <3>1. e \in [1 .. k -> Widths] /\ \A i \in 1 .. k : e[i] = v
      BY <2>1 DEF Copies
    <3> HIDE DEF e
    <3>2. e \in Seq(Widths) /\ Len(e) = k
      BY <3>1
    <3>3. to - n = k /\ \A i \in 1 .. k : n + i \in n + 1 .. to
      BY <1>2, <2>1
    <3> QED BY <2>1, <3>1, <3>2, <3>3
  <2>2. CASE element = <<w[to], 0, 0>> /\ to = n + 1
    <3>1. to \in 1 .. Len(w) /\ w[to] \in 0 .. 15
      BY <1>2, <1>5 DEF Widths
    <3>2. element[1] <= 15 /\ element[1] = w[to]
      BY <2>2, <3>1
    <3>3. e = <<w[to]>>
      BY <3>2 DEF Expanded
    <3> HIDE DEF e
    <3>4. to - n = 1 /\ \A i \in 1 .. 1 : i = 1
      BY <1>2, <2>2
    <3>5. e \in Seq(Widths) /\ Len(e) = 1 /\ e[1] = w[to]
      BY <3>1, <3>3 DEF Widths
    <3> QED BY <2>2, <3>4, <3>5
  <2>3. CASE /\ element[1] = 16 /\ element[3] \in 0 .. 3
             /\ to = n + (element[3] + 3) /\ n > 0
             /\ \A i \in n + 1 .. to : w[i] = w[n]
    <3>1. n \in 1 .. Len(w) /\ n \in 1 .. n /\ w[n] \in Widths
      BY <1>2, <1>5, <2>3
    <3>2. Last(a) = w[n]
      BY <1>3, <3>1 DEF Last
    <3>3. e = Copies(w[n], element[3] + 3)
      BY <2>3, <3>2 DEF Expanded
    <3>4. element[3] + 3 \in Nat
      BY <2>3
    <3> QED BY <2>1, <2>3, <3>1, <3>3, <3>4
  <2>4. CASE /\ element[1] = 17 /\ element[3] \in 0 .. 7
             /\ to = n + (element[3] + 3)
             /\ \A i \in n + 1 .. to : w[i] = 0
    <3>1. e = Copies(0, element[3] + 3)
      BY <2>4 DEF Expanded
    <3>2. element[3] + 3 \in Nat /\ 0 \in Widths
      BY <2>4 DEF Widths
    <3> QED BY <2>1, <2>4, <3>1, <3>2
  <2>5. CASE /\ element[1] = 18 /\ element[3] \in 0 .. 127
             /\ to = n + (element[3] + 11)
             /\ \A i \in n + 1 .. to : w[i] = 0
    <3>1. e = Copies(0, element[3] + 11)
      BY <2>5 DEF Expanded
    <3>2. element[3] \in 0 .. 127 /\ 0 \in Widths
      BY <2>5 DEF Widths
    <3>3. element[3] + 11 \in Nat
      <4> DEFINE m == 127
                 x == element[3]
      <4>1. m \in Nat /\ x \in 0 .. m
        BY <3>2
      <4> HIDE DEF m, x
      <4>2. x + 11 \in Nat
        BY <4>1
      <4> QED BY <4>2 DEF x
    <3> QED BY <3>3, <2>1, <2>5, <3>1, <3>2
  <2> QED BY <2>2, <2>3, <2>4, <2>5 DEF Describes
<1> HIDE DEF a, e
<1>7. /\ a \o e \in Seq(Widths) /\ Len(a \o e) = Len(a) + Len(e)
      /\ \A i \in 1 .. Len(a) + Len(e) :
           (a \o e)[i] = IF i <= Len(a) THEN a[i] ELSE e[i - Len(a)]
  BY <1>3, <1>6, ConcatProperties
<1>8. n + (to - n) = to
  BY <1>2
<1>9. ASSUME NEW i \in 1 .. to
      PROVE  (a \o e)[i] = w[i]
  <2>1. CASE i <= n
    <3>1. i \in 1 .. n
      BY <1>2, <2>1
    <3> QED BY <1>3, <1>6, <1>7, <1>8, <2>1, <3>1
  <2>2. CASE ~ (i <= n)
    <3>1. i - n \in 1 .. to - n /\ n + (i - n) = i
      BY <1>2, <2>2
    <3> QED BY <1>3, <1>6, <1>7, <1>8, <2>2, <3>1
  <2> QED BY <2>1, <2>2
<1>10. a \o e = SubSeq(w, 1, to)
  <2> DEFINE p == a \o e
             q == SubSeq(w, 1, to)
  <2>1. /\ p \in Seq(Widths) /\ q \in Seq(Widths) /\ Len(p) = Len(q)
        /\ \A i \in 1 .. Len(p) : p[i] = q[i]
    BY <1>3, <1>4, <1>6, <1>7, <1>8, <1>9
  <2> HIDE DEF p, q
  <2>2. p = q
    BY <2>1, SeqEqual
  <2> QED BY <2>2 DEF p, q
<1>11. ASSUME element[1] = 16 PROVE a # << >>
  <2>1. n > 0
    <3>1. \A i : element = <<i, 0, 0>> => element[1] = i
      OBVIOUS
    <3>2. to \in 1 .. Len(w) /\ w[to] \in 0 .. 15
      BY <1>2, <1>5 DEF Widths
    <3> QED BY <1>11, <3>1, <3>2 DEF Describes
  <2> QED BY <1>3, <2>1
<1> QED BY <1>2, <1>4, <1>10, <1>11 DEF a, e

LEMMA ReadElementStep == HeaderInv /\ ReadElement => HeaderInv'
<1> SUFFICES ASSUME HeaderInv, ReadElement PROVE HeaderInv'
  OBVIOUS
<1> DEFINE w == Needed
           n == Len(all_code_lengths)
<1>1. /\ pc = "elements" /\ n < hlit + hdist
      /\ UNCHANGED <<literal, distance, rest, count, counts, code_lengths>>
  BY DEF ReadElement
<1>2. w \in Seq(Widths) /\ Len(w) = hlit + hdist /\ Len(w) \in Nat
  BY <1>1, NeededIs, LenProperties DEF HeaderInv, CountsInv
<1>3. /\ codes \in Seq(Elements) /\ Path(w, codes, n, Len(w))
      /\ n \in 0 .. Len(w) /\ all_code_lengths = SubSeq(w, 1, n)
  BY <1>1 DEF HeaderInv, ReadInv, Covered
<1>4. codes # << >>
  <2> SUFFICES ASSUME codes = << >> PROVE FALSE
    OBVIOUS
  <2>1. Path(w, << >>, n, Len(w)) /\ n \in Nat /\ n < Len(w)
    BY <1>1, <1>2, <1>3
  <2> HIDE DEF w, n
  <2>2. Len(w) = n
    BY <2>1, PathOfNone
  <2> QED BY <2>1, <2>2
<1>5. PICK to \in Nat : Describes(w, codes[1], n, to) /\ Path(w, Tail(codes), to, Len(w))
  <2>1. n \in Nat
    BY <1>3
  <2> HIDE DEF w, n
  <2> QED BY <1>2, <1>3, <1>4, <2>1, PathTail
<1>6. /\ Len(codes) \in Nat \ {0} /\ 1 \in DOMAIN codes /\ codes[1] \in Elements
      /\ Tail(codes) \in Seq(Elements) /\ Len(Tail(codes)) = Len(codes) - 1
      /\ \A i \in 1 .. Len(codes) - 1 : Tail(codes)[i] = codes[i + 1]
  <2>1. Len(codes) \in Nat \ {0} /\ DOMAIN codes = 1 .. Len(codes)
    BY <1>3, <1>4, EmptySeq, LenProperties
  <2>2. 1 \in 1 .. Len(codes)
    BY <2>1
  <2> QED BY <1>3, <1>4, <2>1, <2>2, ElementOfSeq, HeadTailProperties
<1> DEFINE e == codes[1]
           longer == all_code_lengths \o Expanded(e)
<1>7. /\ longer = SubSeq(w, 1, to) /\ Len(longer) = to
      /\ to \in n + 1 .. Len(w)
      /\ e[1] = 16 => all_code_lengths # << >>
  <2> HIDE DEF w, n
  <2> QED BY <1>2, <1>3, <1>5, <1>6, ExpandedIs
<1>8. code_lengths[e[1]] # 0
  BY <1>1, <1>6 DEF HeaderInv, CountsInv
<1>9. Len(longer) <= hlit + hdist /\ to \in 0 .. Len(w)
  <2> HIDE DEF longer, w, n
  <2> QED BY <1>2, <1>3, <1>7
<1>10. /\ all_code_lengths' = longer /\ codes' = Tail(codes) /\ pc' = pc
  <2>1. ~ (Len(longer) > hlit + hdist)
    <3> HIDE DEF longer, w
    <3> QED BY <1>2, <1>7, <1>9
  <2> QED BY <1>4, <1>7, <1>8, <2>1 DEF ReadElement
<1> HIDE DEF longer, e
<1>11. /\ Needed' = w /\ Behind' = Behind
       /\ literal_code_count' = literal_code_count
       /\ distance_code_count' = distance_code_count
  BY <1>1 DEF Needed, literal_code_count, distance_code_count, Behind
<1>12. Covered' = Len(w)
  BY <1>1, <1>10, <1>11 DEF Covered
<1>13. RestInv'
  BY <1>1, <1>10, <1>11 DEF HeaderInv, RestInv
<1>14. ReadInv'
  BY <1>1, <1>5, <1>7, <1>9, <1>10, <1>11, <1>12 DEF ReadInv
<1>15. CountsInv'
  <2>1. ASSUME NEW i \in DOMAIN codes'
        PROVE  code_lengths'[codes'[i][1]] # 0
    <3>1. i \in 1 .. Len(codes) - 1 /\ Len(codes) \in Nat
      BY <1>6, <1>10, LenProperties
    <3>2. i + 1 \in 1 .. Len(codes) /\ DOMAIN codes = 1 .. Len(codes)
      BY <1>3, <3>1, LenProperties
    <3>3. codes'[i] = codes[i + 1]
      BY <1>6, <1>10, <3>1
    <3>4. code_lengths[codes[i + 1][1]] # 0
      BY <1>1, <3>2 DEF HeaderInv, CountsInv
    <3> QED BY <1>1, <3>3, <3>4
  <2> QED BY <1>1, <1>10, <1>11, <2>1 DEF HeaderInv, CountsInv, counts
<1> QED BY <1>1, <1>6, <1>10, <1>13, <1>14, <1>15 DEF HeaderInv

LEMMA HeaderStep == HeaderInv /\ [DNext]_dvars => HeaderInv'
<1> SUFFICES ASSUME HeaderInv, [DNext]_dvars PROVE HeaderInv'
  OBVIOUS
<1>1. CASE UNCHANGED dvars
  <2>1. Needed' = Needed /\ Behind' = Behind /\ Covered' = Covered
    BY <1>1 DEF dvars, Needed, literal_code_count, distance_code_count, Behind,
                Covered, counts
  <2>2. /\ literal_code_count' = literal_code_count
        /\ distance_code_count' = distance_code_count
        /\ bitwidth_code_count' = bitwidth_code_count /\ Ordered' = Ordered
    BY <1>1 DEF dvars, literal_code_count, distance_code_count, Ordered, bitwidth,
                bitwidth_code_count
  <2>3. RestInv'
    BY <1>1, <2>1 DEF HeaderInv, RestInv, dvars
  <2>4. ReadInv'
    BY <1>1, <2>1 DEF HeaderInv, ReadInv, dvars
  <2>5. CountsInv'
    BY <1>1, <2>2 DEF HeaderInv, CountsInv, dvars, counts
  <2> QED BY <1>1, <2>3, <2>4, <2>5 DEF HeaderInv, dvars
<1>2. CASE ReadDone
  <2>1. /\ Needed' = Needed /\ Behind' = Behind
        /\ literal_code_count' = literal_code_count
        /\ distance_code_count' = distance_code_count
    BY <1>2 DEF ReadDone, Needed, literal_code_count, distance_code_count, Behind
  <2>2. Covered' = Covered
    BY <1>2, <2>1 DEF ReadDone, Covered
  <2>3. RestInv'
    BY <1>2, <2>1 DEF HeaderInv, RestInv, ReadDone
  <2>4. Len(all_code_lengths) = Len(Needed)
    BY <1>2, NeededIs DEF HeaderInv, CountsInv, ReadDone
  <2>5. ReadInv'
    BY <1>2, <2>1, <2>2, <2>4 DEF HeaderInv, ReadInv, ReadDone
  <2>6. CountsInv'
    BY <1>2, <2>1 DEF HeaderInv, CountsInv, ReadDone, counts
  <2> QED BY <1>2, <2>3, <2>5, <2>6 DEF HeaderInv, ReadDone
<1> QED BY <1>1, <1>2, BeginRunStep, EmitStep, EndRunStep, WriteCountsStep,
           ReadWidthsStep, ReadElementStep DEF DNext, AllRead

LEMMA PathBounds ==
  ASSUME NEW w, NEW cs, NEW from, NEW to, Path(w, cs, from, to), NEW i \in 1 .. Len(cs)
  PROVE  \E at, next : Describes(w, cs[i], at, next)
BY DEF Path

LEMMA HeaderInvHolds == HeaderInv => ReadsBack
<1> SUFFICES ASSUME HeaderInv PROVE ReadsBack
  OBVIOUS
<1> DEFINE w == Needed
           L == literal_code_count
           D == distance_code_count
<1>1. \A i \in DOMAIN codes : codes[i][3] \in 0 .. 2 ^ codes[i][2] - 1
  <2> TAKE i \in DOMAIN codes
  <2>1. i \in 1 .. Len(codes)
    BY LenProperties DEF HeaderInv
  <2> DEFINE e == codes[i]
  <2>2. PICK at, next : Describes(w, e, at, next)
    BY <2>1, PathBounds DEF HeaderInv, ReadInv
  <2> HIDE DEF e
  <2>3. /\ Two(0) - 1 = 0 /\ Two(2) - 1 = 3 /\ Two(3) - 1 = 7 /\ Two(7) - 1 = 127
    BY DEF Two
  <2>4. \A x : <<x, 0, 0>>[2] = 0 /\ <<x, 0, 0>>[3] = 0
    OBVIOUS
  <2>5. e[3] \in 0 .. Two(e[2]) - 1
    <3>1. \/ e[2] = 0 /\ e[3] = 0
          \/ e[2] = 2 /\ e[3] \in 0 .. 3
          \/ e[2] = 3 /\ e[3] \in 0 .. 7
          \/ e[2] = 7 /\ e[3] \in 0 .. 127
      BY <2>2, <2>4 DEF Describes
    <3>2. 0 \in 0 .. 0
      OBVIOUS
    <3>3. CASE e[2] = 0 /\ e[3] = 0
      BY <2>3, <3>2, <3>3
    <3>4. CASE e[2] = 2 /\ e[3] \in 0 .. 3
      BY <2>3, <3>4
    <3>5. CASE e[2] = 3 /\ e[3] \in 0 .. 7
      BY <2>3, <3>5
    <3>6. CASE e[2] = 7 /\ e[3] \in 0 .. 127
      BY <2>3, <3>6
    <3> QED BY <3>1, <3>3, <3>4, <3>5, <3>6
  <2> QED BY <2>5 DEF e, Two
<1>2. /\ L \in 1 .. Len(literal) /\ L - LITERALS_AT_LEAST \in 0 .. 31
      /\ D \in 1 .. Len(distance) /\ D - DISTANCES_AT_LEAST \in 0 .. 31
      /\ w \in Seq(Widths) /\ Len(w) = L + D
      /\ \A i \in 1 .. L : w[i] = literal[i]
      /\ \A i \in 1 .. D : w[L + i] = distance[i]
      /\ \A i \in L + 1 .. Len(literal) : literal[i] = 0
      /\ \A i \in D + 1 .. Len(distance) : distance[i] = 0
      /\ literal \in Seq(Widths) /\ distance \in Seq(Widths)
  BY NeededIs DEF HeaderInv
<1>3. /\ Len(literal) \in Nat /\ DOMAIN literal = 1 .. Len(literal)
      /\ Len(distance) \in Nat /\ DOMAIN distance = 1 .. Len(distance)
  BY <1>2, LenProperties
<1> HIDE DEF L, D
<1>4. ASSUME pc = "widths"
      PROVE  /\ hlit - LITERALS_AT_LEAST \in 0 .. 31
             /\ hdist - DISTANCES_AT_LEAST \in 0 .. 31 /\ hdist <= Len(distance)
             /\ hclen - BITWIDTHS_AT_LEAST \in 0 .. 15
  <2>1. hlit = L /\ hdist = D /\ hclen = bitwidth_code_count
    BY <1>4 DEF HeaderInv, CountsInv, L, D
  <2>2. D <= Len(distance)
    BY <1>2, <1>3
  <2> QED BY <1>2, <2>1, <2>2, OrderedIs
<1>5. pc # "refused"
  BY DEF HeaderInv
<1>6. ASSUME pc = "done"
      PROVE  /\ codes = << >>
             /\ \A i \in DOMAIN literal :
                  literal[i] = WidthOf(SubSeq(all_code_lengths, 1, hlit), i)
             /\ \A i \in DOMAIN distance :
                  distance[i] = WidthOf(SubSeq(all_code_lengths, hlit + 1,
                                               hlit + hdist), i)
  <2>1. hlit = L /\ hdist = D
    BY <1>6 DEF HeaderInv, CountsInv, L, D
  <2>2. Len(all_code_lengths) = Len(w) /\ all_code_lengths = w
    <3>1. /\ Len(all_code_lengths) = Len(w)
          /\ all_code_lengths = SubSeq(w, 1, Len(all_code_lengths))
      BY <1>6 DEF HeaderInv, ReadInv
    <3>2. SubSeq(w, 1, Len(w)) = w
      BY <1>2, SubSeqFull
    <3> QED BY <3>1, <3>2
  <2>3. Len(w) \in Nat /\ L \in 0 .. Len(w) /\ L \in Nat /\ D \in Nat /\ Len(w) - L = D
    BY <1>2, <1>3
  <2>4. codes = << >>
    <3> SUFFICES ASSUME codes # << >> PROVE FALSE
      OBVIOUS
    <3>1. codes \in Seq(Elements) /\ Path(w, codes, Len(w), Len(w))
      BY <1>6, <2>2 DEF HeaderInv, ReadInv, Covered
    <3>2. PICK at \in Nat : Describes(w, codes[1], Len(w), at)
      BY <2>3, <3>1, PathTail
    <3> QED BY <2>3, <3>2 DEF Describes
  <2> DEFINE a == SubSeq(w, 1, L)
             b == SubSeq(w, L + 1, Len(w))
  <2>5. /\ a \in Seq(Widths) /\ Len(a) = L /\ \A i \in 1 .. L : a[i] = w[i]
        /\ b \in Seq(Widths) /\ Len(b) = D /\ \A i \in 1 .. D : b[i] = w[L + i]
    BY <1>2, <2>3, TakeProperties, DropProperties
  <2>6. SubSeq(all_code_lengths, 1, hlit) = a
        /\ SubSeq(all_code_lengths, hlit + 1, hlit + hdist) = b
    BY <1>2, <2>1, <2>2
  <2>7. DOMAIN a = 1 .. L /\ DOMAIN b = 1 .. D
    BY <2>5, LenProperties
  <2> HIDE DEF a, b
  <2>8. ASSUME NEW i \in DOMAIN literal
        PROVE  literal[i] = WidthOf(a, i)
    <3>1. CASE i \in 1 .. L
      BY <1>2, <2>5, <2>7, <3>1 DEF WidthOf
    <3>2. CASE i \notin 1 .. L
      <4>1. i \in L + 1 .. Len(literal)
        BY <1>2, <1>3, <2>3, <3>2
      <4> QED BY <1>2, <2>7, <3>2, <4>1 DEF WidthOf
    <3> QED BY <3>1, <3>2
  <2>9. ASSUME NEW i \in DOMAIN distance
        PROVE  distance[i] = WidthOf(b, i)
    <3>1. CASE i \in 1 .. D
      BY <1>2, <2>5, <2>7, <3>1 DEF WidthOf
    <3>2. CASE i \notin 1 .. D
      <4>1. i \in D + 1 .. Len(distance)
        BY <1>2, <1>3, <2>3, <3>2
      <4> QED BY <1>2, <2>7, <3>2, <4>1 DEF WidthOf
    <3> QED BY <3>1, <3>2
  <2> QED BY <2>4, <2>6, <2>8, <2>9
<1> QED BY <1>1, <1>4, <1>5, <1>6 DEF ReadsBack

(* What the encoder says of its codes in the head of a dynamic block, and  *)
(* of a match in two symbols, the decoder reads back as it was said.       *)
THEOREM CodesAreReadBack == CodesSpec => []CodesReadBack
<1>1. CodesInit => HeaderInv /\ MatchInv
  BY HeaderInit, MatchInit DEF CodesInit
<1>2. HeaderInv /\ MatchInv /\ [CodesNext]_codesvars => (HeaderInv /\ MatchInv)'
  <2> SUFFICES ASSUME HeaderInv, MatchInv, [CodesNext]_codesvars
               PROVE  (HeaderInv /\ MatchInv)'
    OBVIOUS
  <2>1. [DNext]_dvars /\ [SNext]_svars
    BY DEF CodesNext, codesvars
  <2> QED BY <2>1, HeaderStep, MatchStep
<1>3. HeaderInv /\ MatchInv => CodesReadBack
  BY HeaderInvHolds, MatchInvHolds DEF CodesReadBack
<1> QED BY <1>1, <1>2, <1>3, PTL DEF CodesSpec
-----------------------------------------------------------------------------
(* Bits turned round, one after the other.                                 *)
LEMMA ReverseStep ==
  ASSUME NEW b \in Nat, NEW w \in 0 .. MAX_BITS
  PROVE  /\ reverse_bits(b, 0) = 0
         /\ reverse_bits(b, w) \in Nat
         /\ w > 0 => reverse_bits(b, w) = 2 * reverse_bits(b, w - 1) + Bit(b, w - 1)
<1> DEFINE turn == [n \in 1 .. w |-> [t \in Nat |-> 2 * t + Bit(b, n - 1)]]
<1>1. PICK f : IsReversal(f, b, w) /\ reverse_bits(b, w) = f[w]
  BY ReversalExists
<1>2. reverse_bits(b, 0) = 0
  <2>1. PICK g : IsReversal(g, b, 0) /\ reverse_bits(b, 0) = g[0]
    <3>1. 0 \in 0 .. MAX_BITS
      BY DEF MAX_BITS
    <3> QED BY <3>1, ReversalExists
  <2> QED BY <2>1 DEF IsReversal
<1>3. w \in Nat /\ w \in 0 .. w /\ f[w] \in Nat
  BY <1>1 DEF IsReversal, MAX_BITS
<1>4. ASSUME w > 0
      PROVE  reverse_bits(b, w) = 2 * reverse_bits(b, w - 1) + Bit(b, w - 1)
  <2>1. w - 1 \in 0 .. MAX_BITS /\ w \in 1 .. w /\ w - 1 \in Nat
    BY <1>4 DEF MAX_BITS
  <2>2. PICK g : IsReversal(g, b, w - 1) /\ reverse_bits(b, w - 1) = g[w - 1]
    BY <2>1, ReversalExists
  <2>3. ASSUME NEW n \in 1 .. w - 1
        PROVE  f[n] = turn[n][f[n - 1]] /\ g[n] = turn[n][g[n - 1]]
    <3>1. n \in 1 .. w /\ n - 1 \in 0 .. w /\ n - 1 \in 0 .. w - 1
      BY <1>3
    <3>2. f[n - 1] \in Nat /\ g[n - 1] \in Nat
      BY <1>1, <2>2, <3>1 DEF IsReversal
    <3> QED BY <1>1, <2>2, <3>1, <3>2 DEF IsReversal
  <2>4. f[0] = g[0]
    BY <1>1, <2>2 DEF IsReversal
  <2>5. Follows(f, w - 1, turn) /\ Follows(g, w - 1, turn)
    <3> HIDE DEF turn
    <3> QED BY <2>3 DEF Follows
  <2>6. f[w - 1] = g[w - 1]
    <3>1. w - 1 \in 0 .. w - 1
      BY <2>1
    <3> HIDE DEF turn
    <3>2. \A n \in 0 .. w - 1 : f[n] = g[n]
      BY <2>1, <2>4, <2>5, RecursionUnique
    <3> QED BY <3>1, <3>2
  <2> QED BY <1>1, <2>1, <2>2, <2>6 DEF IsReversal
<1> QED BY <1>1, <1>2, <1>3, <1>4

LEMMA ReverseRange ==
  ASSUME NEW b \in Nat, NEW w \in 0 .. MAX_BITS
  PROVE  reverse_bits(b, w) \in 0 .. Two(w) - 1
<1> DEFINE T == {n \in 0 .. MAX_BITS : reverse_bits(b, n) \notin 0 .. Two(n) - 1}
<1> SUFFICES ASSUME T # {} PROVE FALSE
  OBVIOUS
<1>1. PICK n \in T : \A k \in T : n <= k
  <2>1. T \in SUBSET Nat
    BY DEF MAX_BITS
  <2> HIDE DEF T
  <2> QED BY <2>1, LeastOf
<1>2. n # 0
  BY <1>1, ReverseStep, Powers
<1>3. n \in 1 .. MAX_BITS /\ n - 1 \in 0 .. MAX_BITS /\ ~ (n <= n - 1) /\ n > 0
  BY <1>1, <1>2 DEF MAX_BITS
<1>4. reverse_bits(b, n - 1) \in 0 .. Two(n - 1) - 1
  BY <1>1, <1>3
<1>5. /\ reverse_bits(b, n) = 2 * reverse_bits(b, n - 1) + Bit(b, n - 1)
      /\ Bit(b, n - 1) \in 0 .. 1 /\ Two(n) = 2 * Two(n - 1)
      /\ Two(n - 1) \in Nat
  BY <1>1, <1>3, ReverseStep, BitValues, Powers
<1> DEFINE p == Two(n - 1)
           r == reverse_bits(b, n - 1)
           c == Bit(b, n - 1)
           q == 2 * r + c
<1>6. p \in Nat /\ r \in 0 .. p - 1 /\ c \in 0 .. 1
  BY <1>4, <1>5
<1> HIDE DEF p, r, c
<1>7. q \in 0 .. 2 * p - 1
  BY <1>6
<1> QED BY <1>1, <1>5, <1>7 DEF p, r, c

(* Two stretches of bits are turned round one by one.                      *)
LEMMA LowBits ==
  ASSUME NEW n \in 0 .. MAX_BITS, NEW a \in 0 .. Two(n) - 1, NEW y \in Nat,
         NEW i \in 0 .. n - 1
  PROVE  Bit(a + Two(n) * y, i) = Bit(a, i)
<1> DEFINE p == Two(i)
           k == Two(n - i - 1)
           q == a \div p
           r == a % p
           z == k * y
<1>1. /\ i \in 0 .. MAX_BITS /\ n - i - 1 \in 0 .. MAX_BITS
      /\ n - i \in 1 .. MAX_BITS /\ n - i \in 0 .. MAX_BITS - i
      /\ i + (n - i) = n /\ (n - i) - 1 = n - i - 1
  BY DEF MAX_BITS
<1>2. p \in Nat \ {0} /\ k \in Nat /\ Two(n) \in Nat
  BY <1>1, Powers
<1>3. Two(n) = p * (2 * k)
  <2>1. Two(i + (n - i)) = Two(i) * Two(n - i)
    BY <1>1, PowerSum
  <2>2. Two(n - i) = 2 * Two((n - i) - 1)
    BY <1>1, Powers
  <2> QED BY <1>1, <2>1, <2>2
<1>4. a \in Nat
  BY <1>2
<1>5. r \in 0 .. p - 1 /\ q \in Nat /\ a = r + p * q
  BY <1>2, <1>4, Division
<1>6. z \in Nat
  BY <1>2, Product
<1>7. Two(n) * y = p * (2 * z)
  <2> HIDE DEF p, k
  <2> QED BY <1>2, <1>3
<1> HIDE DEF p, k, q, r, z
<1>8. a + Two(n) * y = r + p * (q + 2 * z)
  <2>1. p * (q + 2 * z) = p * q + p * (2 * z)
    BY <1>2, <1>5, <1>6
  <2>2. r \in Int /\ p * q \in Int /\ p * (2 * z) \in Int
    BY <1>2, <1>5, <1>6
  <2> QED BY <1>5, <1>7, <2>1, <2>2
<1>9. (a + Two(n) * y) \div p = q + 2 * z
  <2>1. q + 2 * z \in Nat
    BY <1>5, <1>6
  <2>2. (r + p * (q + 2 * z)) \div p = q + 2 * z
    BY <1>2, <1>5, <2>1, Remainder
  <2> QED BY <1>8, <2>2
<1>10. (q + 2 * z) % 2 = q % 2
  BY <1>5, <1>6
<1> QED BY <1>9, <1>10 DEF Bit, p, q

LEMMA ReverseLow ==
  ASSUME NEW n \in 0 .. MAX_BITS, NEW a \in 0 .. Two(n) - 1, NEW y \in Nat
  PROVE  reverse_bits(a + Two(n) * y, n) = reverse_bits(a, n)
<1> DEFINE b == a + Two(n) * y
           T == {k \in 0 .. n : reverse_bits(b, k) # reverse_bits(a, k)}
<1>1. b \in Nat /\ a \in Nat
  <2>1. Two(n) \in Nat
    BY Powers
  <2>2. Two(n) * y \in Nat
    BY <2>1, Product
  <2> QED BY <2>1, <2>2
<1>2. \A i \in 0 .. n - 1 : Bit(b, i) = Bit(a, i)
  BY LowBits
<1> HIDE DEF b
<1>3. T = {}
  <2> SUFFICES ASSUME T # {} PROVE FALSE
    OBVIOUS
  <2>1. PICK k \in T : \A j \in T : k <= j
    <3>1. T \in SUBSET Nat
      BY DEF MAX_BITS
    <3> HIDE DEF T
    <3> QED BY <3>1, LeastOf
  <2>2. 0 \in 0 .. MAX_BITS
    BY DEF MAX_BITS
  <2>3. k # 0
    BY <1>1, <2>1, <2>2, ReverseStep
  <2>4. /\ k \in 0 .. MAX_BITS /\ k > 0 /\ k - 1 \in 0 .. n /\ ~ (k <= k - 1)
        /\ k - 1 \in 0 .. n - 1
    BY <2>1, <2>3 DEF MAX_BITS
  <2>5. reverse_bits(b, k - 1) = reverse_bits(a, k - 1)
    BY <2>1, <2>4
  <2> QED BY <1>1, <1>2, <2>1, <2>4, <2>5, ReverseStep
<1>4. n \in 0 .. n
  BY DEF MAX_BITS
<1> QED BY <1>3, <1>4 DEF b

LEMMA ReverseJoin ==
  ASSUME NEW n \in 0 .. MAX_BITS, NEW m \in 0 .. MAX_BITS - n,
         NEW a \in 0 .. Two(n) - 1, NEW y \in Nat
  PROVE  reverse_bits(a + Two(n) * y, n + m)
           = reverse_bits(a, n) * Two(m) + reverse_bits(y, m)
<1> DEFINE b == a + Two(n) * y
           r == reverse_bits(a, n)
           T == {k \in 0 .. m : reverse_bits(b, n + k) # r * Two(k) + reverse_bits(y, k)}
<1>1. Two(n) \in Nat \ {0} /\ a \in Nat
  BY Powers
<1>2. b \in Nat /\ b \div Two(n) = y
  <2> DEFINE d == Two(n)
  <2>1. d \in Nat \ {0} /\ a \in 0 .. d - 1
    BY <1>1
  <2> HIDE DEF d
  <2>2. d * y \in Nat
    BY <2>1, Product
  <2>3. (a + d * y) \div d = y
    BY <2>1, Remainder
  <2> QED BY <1>1, <2>2, <2>3 DEF d
<1>3. r \in Nat /\ reverse_bits(b, n) = r
  BY <1>1, ReverseStep, ReverseLow
<1> HIDE DEF b, r
<1>4. T = {}
  <2> SUFFICES ASSUME T # {} PROVE FALSE
    OBVIOUS
  <2>1. PICK k \in T : \A j \in T : k <= j
    <3>1. T \in SUBSET Nat
      BY DEF MAX_BITS
    <3> HIDE DEF T
    <3> QED BY <3>1, LeastOf
  <2>2. k # 0
    <3>1. n + 0 = n /\ 0 \in 0 .. MAX_BITS
      BY DEF MAX_BITS
    <3>2. reverse_bits(y, 0) = 0 /\ Two(0) = 1
      BY <3>1, ReverseStep, Powers
    <3>3. r * 1 + 0 = r
      BY <1>3
    <3> QED BY <1>3, <2>1, <3>1, <3>2, <3>3
  <2>3. /\ k \in 1 .. MAX_BITS /\ k \in 0 .. MAX_BITS /\ k > 0
        /\ k - 1 \in 0 .. m /\ ~ (k <= k - 1) /\ k - 1 \in 0 .. MAX_BITS
        /\ n + k \in 0 .. MAX_BITS /\ n + k > 0 /\ (n + k) - 1 = n + (k - 1)
        /\ k - 1 \in 0 .. MAX_BITS - n
    BY <2>1, <2>2 DEF MAX_BITS
  <2>4. reverse_bits(b, n + (k - 1)) = r * Two(k - 1) + reverse_bits(y, k - 1)
    BY <2>1, <2>3
  <2>5. /\ reverse_bits(b, n + k)
             = 2 * reverse_bits(b, n + (k - 1)) + Bit(b, n + (k - 1))
        /\ reverse_bits(y, k) = 2 * reverse_bits(y, k - 1) + Bit(y, k - 1)
    BY <1>2, <2>3, ReverseStep
  <2>6. Bit(b, n + (k - 1)) = Bit(y, k - 1)
    <3>1. Two(n + (k - 1)) = Two(n) * Two(k - 1) /\ Two(k - 1) \in Nat \ {0}
      BY <2>3, PowerSum, Powers
    <3>2. (b \div Two(n)) \div Two(k - 1) = b \div (Two(n) * Two(k - 1))
      <4> DEFINE d == Two(n)
                 e == Two(k - 1)
      <4>1. d \in Nat \ {0} /\ e \in Nat \ {0} /\ b \in Nat
        BY <1>1, <1>2, <3>1
      <4> HIDE DEF d, e
      <4>2. (b \div d) \div e = b \div (d * e)
        BY <4>1, DivideTwice
      <4> QED BY <4>2 DEF d, e
    <3> QED BY <1>2, <3>1, <3>2 DEF Bit
  <2>7. /\ Two(k) = 2 * Two(k - 1) /\ Two(k - 1) \in Nat
        /\ reverse_bits(y, k - 1) \in Nat /\ Bit(y, k - 1) \in 0 .. 1
    BY <2>3, Powers, ReverseStep, BitValues
  <2> DEFINE p == Two(k - 1)
             u == reverse_bits(y, k - 1)
             c == Bit(y, k - 1)
  <2> HIDE DEF p, u, c
  <2>8. 2 * (r * p + u) + c = r * (2 * p) + (2 * u + c)
    <3>1. r * p \in Nat /\ r * (2 * p) = 2 * (r * p) /\ u \in Nat /\ c \in Nat
      BY <1>3, <2>7, Product DEF p, u, c
    <3> QED BY <3>1
  <2> QED BY <2>1, <2>4, <2>5, <2>6, <2>7, <2>8 DEF p, u, c
<1>5. m \in 0 .. m
  BY DEF MAX_BITS
<1> QED BY <1>4, <1>5 DEF b, r

(* Of bits turned round, the first m and the rest.                         *)
LEMMA ReverseSplit ==
  ASSUME NEW w \in 0 .. MAX_BITS, NEW m \in 0 .. w, NEW c \in Nat
  PROVE  /\ reverse_bits(c, w) % Two(m) = reverse_bits(c \div Two(w - m), m)
         /\ reverse_bits(c, w) \div Two(m) = reverse_bits(c % Two(w - m), w - m)
<1> DEFINE n == w - m
           a == c % Two(n)
           y == c \div Two(n)
<1>1. /\ n \in 0 .. MAX_BITS /\ m \in 0 .. MAX_BITS - n /\ n + m = w
      /\ m \in 0 .. MAX_BITS
  BY DEF MAX_BITS
<1>2. Two(n) \in Nat \ {0} /\ Two(m) \in Nat \ {0}
  BY <1>1, Powers
<1>3. a \in 0 .. Two(n) - 1 /\ y \in Nat /\ c = a + Two(n) * y /\ a \in Nat
  <2> DEFINE d == Two(n)
  <2>1. d \in Nat \ {0}
    BY <1>2
  <2> HIDE DEF d
  <2>2. /\ c % d \in 0 .. d - 1 /\ c \div d \in Nat
        /\ c = (c % d) + d * (c \div d)
    BY <2>1, Division
  <2>3. c % d \in Nat
    BY <2>1, <2>2
  <2> QED BY <2>2, <2>3 DEF d
<1> HIDE DEF n, a, y
<1>4. reverse_bits(c, w) = reverse_bits(a, n) * Two(m) + reverse_bits(y, m)
  BY <1>1, <1>3, ReverseJoin
<1> DEFINE r == reverse_bits(y, m)
           k == reverse_bits(a, n)
<1>5. r \in 0 .. Two(m) - 1 /\ k \in Nat
  BY <1>1, <1>3, ReverseRange, ReverseStep
<1> HIDE DEF r, k
<1>6. k * Two(m) + r = r + Two(m) * k
  BY <1>2, <1>5
<1>7. (r + Two(m) * k) % Two(m) = r /\ (r + Two(m) * k) \div Two(m) = k
  BY <1>2, <1>5, Remainder
<1> QED BY <1>4, <1>6, <1>7 DEF r, k, a, y, n

LEMMA ReverseBit ==
  ASSUME NEW x \in 0 .. 1
  PROVE  reverse_bits(x, 1) = x
<1>1. /\ 1 \in 0 .. MAX_BITS /\ 1 > 0 /\ 1 - 1 = 0 /\ x \in Nat
  BY DEF MAX_BITS
<1>2. reverse_bits(x, 1) = 2 * 0 + Bit(x, 0)
  BY <1>1, ReverseStep
<1>3. Bit(x, 0) = x
  <2>1. Two(0) = 1
    BY Powers
  <2>2. x \div 1 = x /\ x % 2 = x
    OBVIOUS
  <2> QED BY <2>1, <2>2 DEF Bit
<1> QED BY <1>2, <1>3

LEMMA ReverseTwice ==
  ASSUME NEW w \in 0 .. MAX_BITS, NEW c \in 0 .. Two(w) - 1
  PROVE  reverse_bits(reverse_bits(c, w), w) = c
<1> DEFINE T == {n \in 0 .. MAX_BITS : \E x \in 0 .. Two(n) - 1 :
                   reverse_bits(reverse_bits(x, n), n) # x}
<1> SUFFICES ASSUME T # {} PROVE FALSE
  BY DEF MAX_BITS
<1>1. PICK n \in T : \A k \in T : n <= k
  <2>1. T \in SUBSET Nat
    BY DEF MAX_BITS
  <2> HIDE DEF T
  <2> QED BY <2>1, LeastOf
<1>2. PICK x \in 0 .. Two(n) - 1 : reverse_bits(reverse_bits(x, n), n) # x
  BY <1>1
<1>3. n \in 0 .. MAX_BITS /\ Two(n) \in Nat \ {0} /\ x \in Nat
  BY <1>1, <1>2, Powers
<1>4. n # 0
  <2> SUFFICES ASSUME n = 0 PROVE FALSE
    OBVIOUS
  <2>1. Two(0) = 1 /\ x = 0
    BY <1>2, Powers
  <2> QED BY <1>2, <1>3, <2>1, ReverseStep
<1> DEFINE k == n - 1
           p == Two(k)
           a == x % p
           y == x \div p
           r == reverse_bits(a, k)
<1>5. /\ k \in 0 .. MAX_BITS /\ k + 1 = n /\ 1 + k = n /\ ~ (n <= k)
      /\ 1 \in 0 .. MAX_BITS - k /\ 1 \in 0 .. MAX_BITS /\ k \in 0 .. MAX_BITS - 1
      /\ n \in 1 .. MAX_BITS
  BY <1>3, <1>4 DEF MAX_BITS
<1>6. p \in Nat \ {0} /\ Two(n) = 2 * p /\ Two(1) = 2
  BY <1>5, Powers DEF Two
<1>7. a \in 0 .. p - 1 /\ y \in Nat /\ x = a + p * y /\ a \in Nat
  <2> HIDE DEF p
  <2>1. /\ x % p \in 0 .. p - 1 /\ x \div p \in Nat
        /\ x = (x % p) + p * (x \div p)
    BY <1>3, <1>6, Division
  <2>2. x % p \in Nat
    BY <1>6, <2>1
  <2> QED BY <2>1, <2>2
<1> HIDE DEF k, a, y, p
<1>8. y \in 0 .. 1
  <2> SUFFICES ASSUME 2 <= y PROVE FALSE
    BY <1>7
  <2>1. p * 2 <= p * y
    BY <1>6, <1>7, Monotone
  <2>2. p * y \in Nat
    BY <1>6, <1>7, Product
  <2> QED BY <1>2, <1>6, <1>7, <2>1, <2>2
<1>9. reverse_bits(x, n) = r * 2 + y
  <2>1. reverse_bits(a + Two(k) * y, k + 1) = reverse_bits(a, k) * Two(1) + reverse_bits(y, 1)
    BY <1>5, <1>7 , ReverseJoin DEF p
  <2> QED BY <1>5, <1>6, <1>7, <1>8, <2>1, ReverseBit DEF p
<1>10. r \in Nat
  BY <1>5, <1>7, ReverseStep
<1>11. reverse_bits(r, k) = a
  BY <1>1, <1>5, <1>7 DEF p
<1> HIDE DEF r
<1>12. r * 2 + y = y + Two(1) * r /\ y \in 0 .. Two(1) - 1
  BY <1>6, <1>8, <1>10
<1>13. reverse_bits(y + Two(1) * r, 1 + k) = reverse_bits(y, 1) * Two(k) + reverse_bits(r, k)
  BY <1>5, <1>10, <1>12, ReverseJoin
<1>14. reverse_bits(y, 1) = y
  BY <1>8, ReverseBit
<1>15. y * p + a = x
  <2>1. y * p = p * y /\ p * y \in Nat
    BY <1>6, <1>7, Product
  <2> QED BY <1>7, <2>1
<1> QED BY <1>2, <1>5, <1>9, <1>11, <1>12, <1>13, <1>14, <1>15 DEF p
-----------------------------------------------------------------------------
(* Of two numbers, the lesser and the greater.                             *)
LEMMA LeastOfTwo ==
  ASSUME NEW a \in Nat, NEW b \in Nat
  PROVE  /\ Min({a, b}) \in Nat /\ Min({a, b}) <= a /\ Min({a, b}) <= b
         /\ Min({a, b}) \in {a, b}
<1>1. \E y \in {a, b} : \A z \in {a, b} : y <= z
  <2>1. CASE a <= b
    BY <2>1
  <2>2. CASE b <= a
    BY <2>2
  <2> QED BY <2>1, <2>2
<1>2. Min({a, b}) \in {a, b} /\ \A z \in {a, b} : Min({a, b}) <= z
  BY <1>1 DEF Min
<1> QED BY <1>2

LEMMA GreatestOfTwo ==
  ASSUME NEW a \in Nat, NEW b \in Nat
  PROVE  /\ Max({a, b}) \in Nat /\ a <= Max({a, b}) /\ b <= Max({a, b})
         /\ Max({a, b}) \in {a, b}
<1>1. \E y \in {a, b} : \A z \in {a, b} : y >= z
  <2>1. CASE a >= b
    BY <2>1
  <2>2. CASE b >= a
    BY <2>2
  <2> QED BY <2>1, <2>2
<1>2. Max({a, b}) \in {a, b} /\ \A z \in {a, b} : Max({a, b}) >= z
  BY <1>1 DEF Max
<1> QED BY <1>2

(* A symbol that comes before all others that are left, and the widest     *)
(* code.                                                                   *)
LEMMA FirstExists ==
  ASSUME NEW f \in [Symbols -> Nat], NEW left \in SUBSET Symbols, left # {}
  PROVE  /\ First(f, left) \in left
         /\ \A t \in left \ {First(f, left)} : Earlier(f, First(f, left), t)
<1> DEFINE Widths1 == {f[s] : s \in left}
           Is(s) == \A t \in left \ {s} : Earlier(f, s, t)
<1>1. \A s \in Symbols : s \in Nat /\ f[s] \in Nat
  BY HuffmanAssumption DEF Symbols
<1>2. PICK m \in Widths1 : \A k \in Widths1 : m <= k
  <2>1. Widths1 \in SUBSET Nat /\ Widths1 # {}
    BY <1>1
  <2> HIDE DEF Widths1
  <2> QED BY <2>1, LeastOf
<1> DEFINE Same == {s \in left : f[s] = m}
<1>3. PICK s \in Same : \A t \in Same : s <= t
  <2>1. Same \in SUBSET Nat /\ Same # {}
    BY <1>1, <1>2
  <2> HIDE DEF Same
  <2> QED BY <2>1, LeastOf
<1>4. s \in left /\ f[s] = m /\ s \in Nat /\ m \in Nat
  BY <1>1, <1>3
<1>5. ASSUME NEW t \in left \ {s}
      PROVE  Earlier(f, s, t)
  <2>1. m <= f[t] /\ f[t] \in Nat /\ t \in Nat
    BY <1>1, <1>2
  <2>2. CASE f[t] = m
    <3>1. s <= t
      BY <1>3, <2>2
    <3>2. s < t
      BY <1>4, <2>1, <3>1
    <3> QED BY <1>4, <2>2, <3>2 DEF Earlier
  <2>3. CASE f[t] # m
    <3>1. m < f[t]
      BY <1>4, <2>1, <2>3
    <3> QED BY <1>4, <3>1 DEF Earlier
  <2> QED BY <2>2, <2>3
<1>6. \E u \in left : Is(u)
  BY <1>4, <1>5
<1>7. First(f, left) = CHOOSE u \in left : Is(u)
  BY DEF First
<1> HIDE DEF Is
<1>8. First(f, left) \in left /\ Is(First(f, left))
  BY <1>6, <1>7
<1> QED BY <1>8 DEF Is

LEMMA MaxExists ==
  ASSUME lengths \in [Symbols -> Nat]
  PROVE  /\ max_bits \in Nat
         /\ \A s \in Symbols : lengths[s] \in 0 .. max_bits
         /\ \E s \in Symbols : lengths[s] = max_bits
<1> DEFINE All == {lengths[s] : s \in Symbols}
           Bound(n) == \E m \in Symbols : /\ m < n
                                          /\ \A t \in 0 .. n - 1 : lengths[t] <= lengths[m]
           T == {n \in 1 .. N : ~ Bound(n)}
<1>1. N \in Nat \ {0} /\ Symbols = 0 .. N - 1 /\ \A s \in Symbols : lengths[s] \in Nat
  BY HuffmanAssumption DEF Symbols
<1>2. T = {}
  <2> SUFFICES ASSUME T # {} PROVE FALSE
    OBVIOUS
  <2>1. PICK n \in T : \A k \in T : n <= k
    <3>1. T \in SUBSET Nat
      BY <1>1
    <3> HIDE DEF T
    <3> QED BY <3>1, LeastOf
  <2>2. n \in 1 .. N /\ ~ Bound(n)
    BY <2>1
  <2>3. n # 1
    <3>1. 0 \in Symbols /\ \A t \in 0 .. 1 - 1 : t = 0
      BY <1>1
    <3>2. lengths[0] <= lengths[0]
      BY <1>1, <3>1
    <3>3. Bound(1)
      BY <3>1, <3>2
    <3> QED BY <2>2, <3>3
  <2>4. n - 1 \in 1 .. N /\ ~ (n <= n - 1) /\ n - 1 \in Symbols
    BY <1>1, <2>2, <2>3
  <2>5. Bound(n - 1)
    <3>1. n - 1 \notin T
      <4> HIDE DEF T
      <4> QED BY <2>1, <2>4
    <3> QED BY <2>4, <3>1
  <2>6. PICK m \in Symbols : m < n - 1 /\ \A t \in 0 .. (n - 1) - 1 : lengths[t] <= lengths[m]
    BY <2>5
  <2>7. \A t \in 0 .. n - 1 : t \in 0 .. (n - 1) - 1 \/ t = n - 1
    BY <1>1, <2>2
  <2>8. m < n /\ n - 1 < n /\ \A t \in 0 .. n - 1 : t \in Symbols
    BY <1>1, <2>2, <2>4, <2>6
  <2>9. CASE lengths[n - 1] <= lengths[m]
    <3>1. \A t \in 0 .. n - 1 : lengths[t] <= lengths[m]
      BY <2>6, <2>7, <2>9
    <3> QED BY <2>2, <2>8, <3>1
  <2>10. CASE ~ (lengths[n - 1] <= lengths[m])
    <3>1. lengths[m] <= lengths[n - 1] /\ lengths[m] \in Nat /\ lengths[n - 1] \in Nat
      BY <1>1, <2>4, <2>10
    <3>2. \A t \in 0 .. n - 1 : lengths[t] <= lengths[n - 1]
      <4> TAKE t \in 0 .. n - 1
      <4>1. CASE t = n - 1
        BY <3>1, <4>1
      <4>2. CASE t \in 0 .. (n - 1) - 1
        <5>1. lengths[t] <= lengths[m] /\ lengths[t] \in Nat
          BY <1>1, <2>6, <2>8, <4>2
        <5> QED BY <3>1, <5>1
      <4> QED BY <2>7, <4>1, <4>2
    <3> QED BY <2>2, <2>4, <2>8, <3>2
  <2> QED BY <2>9, <2>10
<1>3. Bound(N)
  <2>1. N \in 1 .. N
    BY <1>1
  <2> QED BY <1>2, <2>1
<1>4. PICK m \in Symbols : \A t \in Symbols : lengths[t] <= lengths[m]
  BY <1>1, <1>3
<1>5. \E x \in All : \A y \in All : x >= y
  <2>1. \A t \in Symbols : lengths[m] >= lengths[t]
    BY <1>1, <1>4
  <2> QED BY <2>1
<1>6. max_bits = CHOOSE x \in All : \A y \in All : x >= y
  BY DEF max_bits, Max
<1>7. max_bits \in All /\ \A y \in All : max_bits >= y
  <2> HIDE DEF All
  <2> QED BY <1>5, <1>6
<1> QED BY <1>1, <1>7

(* Sums over the symbols.                                                  *)
Sums(f, w) == /\ f \in [0 .. N -> Nat] /\ f[0] = 0
              /\ \A n \in 1 .. N : f[n] = f[n - 1] + w[n - 1]

LEMMA SumsExist ==
  ASSUME NEW w \in [Symbols -> Nat]
  PROVE  \E f : Sums(f, w)
<1> DEFINE add == [n \in 1 .. N |-> [t \in Nat |-> t + w[n - 1]]]
<1>1. N \in Nat /\ \A n \in 1 .. N : n - 1 \in Symbols /\ n - 1 \in 0 .. N
  BY HuffmanAssumption DEF Symbols
<1>2. add \in [1 .. N -> [Nat -> Nat]]
  BY <1>1
<1>3. PICK f \in [0 .. N -> Nat] : f[0] = 0 /\ \A n \in 1 .. N : f[n] = add[n][f[n - 1]]
  <2> HIDE DEF add
  <2>1. Recursions(N, Nat, 0, add) # {}
    BY <1>1, <1>2, RecursionExists
  <2> QED BY <2>1 DEF Recursions, Follows
<1>4. \A n \in 1 .. N : f[n] = f[n - 1] + w[n - 1]
  BY <1>1, <1>3
<1> QED BY <1>3, <1>4 DEF Sums

LEMMA SumsUnique ==
  ASSUME NEW w \in [Symbols -> Nat], NEW f, NEW g, Sums(f, w),
         g[0] = 0, \A n \in 1 .. N : g[n] = g[n - 1] + w[n - 1]
  PROVE  f[N] = g[N]
<1> DEFINE T == {n \in 0 .. N : f[n] # g[n]}
<1>1. N \in Nat
  BY HuffmanAssumption
<1>2. T = {}
  <2> SUFFICES ASSUME T # {} PROVE FALSE
    OBVIOUS
  <2>1. PICK n \in T : \A k \in T : n <= k
    <3>1. T \in SUBSET Nat
      BY <1>1
    <3> HIDE DEF T
    <3> QED BY <3>1, LeastOf
  <2>2. n # 0
    BY <2>1 DEF Sums
  <2>3. n \in 1 .. N /\ n - 1 \in 0 .. N /\ ~ (n <= n - 1)
    BY <1>1, <2>1, <2>2
  <2>4. f[n - 1] = g[n - 1]
    BY <2>1, <2>3
  <2> QED BY <2>1, <2>3, <2>4 DEF Sums
<1>3. N \in 0 .. N
  BY <1>1
<1> QED BY <1>2, <1>3

LEMMA TotalIs ==
  ASSUME NEW w \in [Symbols -> Nat], NEW f, Sums(f, w)
  PROVE  Total(w) = f[N]
<1> DEFINE Body(h) == [n \in 0 .. N |-> IF n = 0 THEN 0 ELSE h[n - 1] + w[n - 1]]
<1>1. N \in Nat
  BY HuffmanAssumption
<1>2. f = Body(f)
  <2>1. \A n \in 0 .. N : n # 0 => n \in 1 .. N
    BY <1>1
  <2>2. \A n \in 0 .. N : f[n] = IF n = 0 THEN 0 ELSE f[n - 1] + w[n - 1]
    BY <2>1 DEF Sums
  <2> QED BY <2>2 DEF Sums
<1> DEFINE g == CHOOSE h : h = Body(h)
<1>3. g = Body(g) /\ Total(w) = g[N]
  <2>1. Total(w) = g[N]
    BY DEF Total
  <2> HIDE DEF Body
  <2> QED BY <1>2, <2>1
<1> HIDE DEF g
<1>4. g[0] = 0 /\ \A n \in 1 .. N : g[n] = g[n - 1] + w[n - 1]
  <2>1. \A n \in 0 .. N : g[n] = IF n = 0 THEN 0 ELSE g[n - 1] + w[n - 1]
    BY <1>3
  <2>2. 0 \in 0 .. N /\ \A n \in 1 .. N : n \in 0 .. N /\ n # 0
    BY <1>1
  <2> QED BY <2>1, <2>2
<1> QED BY <1>3, <1>4, SumsUnique

LEMMA TotalNone ==
  ASSUME NEW w \in [Symbols -> Nat], \A s \in Symbols : w[s] = 0
  PROVE  Total(w) = 0
<1> DEFINE f == [n \in 0 .. N |-> 0]
<1>1. Sums(f, w)
  <2>1. N \in Nat /\ \A n \in 1 .. N : n - 1 \in Symbols /\ n - 1 \in 0 .. N
    BY HuffmanAssumption DEF Symbols
  <2> QED BY <2>1 DEF Sums
<1>2. f[N] = 0
  BY HuffmanAssumption
<1> HIDE DEF f
<1> QED BY <1>1, <1>2, TotalIs

LEMMA TotalAdd ==
  ASSUME NEW w \in [Symbols -> Nat], NEW v \in [Symbols -> Nat],
         NEW s \in Symbols, NEW x \in Nat, v[s] = w[s] + x,
         \A t \in Symbols \ {s} : v[t] = w[t]
  PROVE  Total(v) = Total(w) + x
<1>1. PICK f : Sums(f, w)
  BY SumsExist
<1>2. /\ N \in Nat /\ s \in 0 .. N - 1
      /\ \A n \in 1 .. N : n - 1 \in Symbols /\ n - 1 \in 0 .. N /\ n \in 0 .. N
  BY HuffmanAssumption DEF Symbols
<1>3. \A n \in 0 .. N : f[n] \in Nat
  BY <1>1 DEF Sums
<1> DEFINE g == [n \in 0 .. N |-> IF n > s THEN f[n] + x ELSE f[n]]
<1>4. g \in [0 .. N -> Nat] /\ g[0] = 0
  BY <1>1, <1>2, <1>3 DEF Sums
<1>5. ASSUME NEW n \in 1 .. N
      PROVE  g[n] = g[n - 1] + v[n - 1]
  <2>1. /\ f[n] = f[n - 1] + w[n - 1] /\ f[n - 1] \in Nat /\ f[n] \in Nat
        /\ w[n - 1] \in Nat
    BY <1>1, <1>2, <1>3 DEF Sums
  <2>2. CASE n - 1 = s
    <3>1. n > s /\ ~ (n - 1 > s)
      BY <1>2, <2>2
    <3>2. g[n] = f[n] + x /\ g[n - 1] = f[n - 1] /\ v[n - 1] = w[n - 1] + x
      BY <1>2, <2>2, <3>1
    <3> HIDE DEF g
    <3> QED BY <2>1, <3>2
  <2>3. CASE n - 1 # s
    <3>1. v[n - 1] = w[n - 1] /\ (n > s <=> n - 1 > s)
      BY <1>2, <2>3
    <3>2. CASE n > s
      <4>1. g[n] = f[n] + x /\ g[n - 1] = f[n - 1] + x
        BY <1>2, <3>1, <3>2
      <4> HIDE DEF g
      <4> QED BY <2>1, <3>1, <4>1
    <3>3. CASE ~ (n > s)
      <4>1. g[n] = f[n] /\ g[n - 1] = f[n - 1]
        BY <1>2, <3>1, <3>3
      <4> HIDE DEF g
      <4> QED BY <2>1, <3>1, <4>1
    <3> QED BY <3>2, <3>3
  <2> QED BY <2>2, <2>3
<1>6. g[N] = f[N] + x
  <2>1. N \in 0 .. N /\ N > s
    BY <1>2
  <2> QED BY <2>1
<1> HIDE DEF g
<1>7. Sums(g, v)
  BY <1>4, <1>5 DEF Sums
<1> QED BY <1>1, <1>6, <1>7, TotalIs

LEMMA TotalMonotone ==
  ASSUME NEW w \in [Symbols -> Nat], NEW v \in [Symbols -> Nat],
         \A s \in Symbols : w[s] <= v[s]
  PROVE  Total(w) <= Total(v) /\ Total(w) \in Nat
<1>1. PICK f : Sums(f, w)
  BY SumsExist
<1>2. PICK g : Sums(g, v)
  BY SumsExist
<1>3. N \in Nat /\ \A n \in 1 .. N : n - 1 \in Symbols /\ n - 1 \in 0 .. N /\ n \in 0 .. N
  BY HuffmanAssumption DEF Symbols
<1>4. \A n \in 0 .. N : f[n] \in Nat /\ g[n] \in Nat
  BY <1>1, <1>2 DEF Sums
<1> DEFINE T == {n \in 0 .. N : ~ (f[n] <= g[n])}
<1>5. T = {}
  <2> SUFFICES ASSUME T # {} PROVE FALSE
    OBVIOUS
  <2>1. PICK n \in T : \A k \in T : n <= k
    <3>1. T \in SUBSET Nat
      BY <1>3
    <3> HIDE DEF T
    <3> QED BY <3>1, LeastOf
  <2>2. n # 0
    BY <1>1, <1>2, <2>1 DEF Sums
  <2>3. n \in 1 .. N /\ n - 1 \in 0 .. N /\ ~ (n <= n - 1) /\ n - 1 \in Symbols
    BY <1>3, <2>1, <2>2
  <2>4. f[n - 1] <= g[n - 1]
    BY <2>1, <2>3
  <2>5. f[n] = f[n - 1] + w[n - 1] /\ g[n] = g[n - 1] + v[n - 1]
    BY <1>1, <1>2, <2>3 DEF Sums
  <2>6. f[n - 1] \in Nat /\ g[n - 1] \in Nat /\ w[n - 1] \in Nat /\ v[n - 1] \in Nat
        /\ w[n - 1] <= v[n - 1]
    BY <1>4, <2>3
  <2>7. f[n] <= g[n]
    BY <2>4, <2>5, <2>6
  <2> QED BY <2>1, <2>7
<1>6. N \in 0 .. N
  BY <1>3
<1> QED BY <1>1, <1>2, <1>4, <1>5, <1>6, TotalIs

(* The places in the table that the codes of some symbols need.            *)
Rooms(D) == [s \in Symbols |-> IF s \in D THEN Two(max_bits - lengths[s]) ELSE 0]
Space(D) == Total(Rooms(D))
Room(s)  == Two(max_bits - lengths[s])

(* The decoder goes on with such lengths only.                             *)
Wide == lengths \in [Symbols -> Nat] /\ max_bits \in 1 .. MAX_BITS

LEMMA Widest ==
  ASSUME Wide
  PROVE  /\ \A s \in Symbols : /\ lengths[s] \in 0 .. max_bits
                               /\ lengths[s] \in 0 .. MAX_BITS
                               /\ max_bits - lengths[s] \in 0 .. MAX_BITS
                               /\ Room(s) \in Nat \ {0}
                               /\ Two(lengths[s]) \in Nat \ {0}
                               /\ Two(max_bits) = Two(lengths[s]) * Room(s)
         /\ max_bits \in 0 .. MAX_BITS
         /\ Two(max_bits) \in Nat \ {0}
<1>1. \A s \in Symbols : lengths[s] \in 0 .. max_bits
  BY MaxExists DEF Wide
<1>2. max_bits \in 1 .. 15 /\ max_bits \in 0 .. MAX_BITS
  BY DEF Wide, MAX_BITS
<1>3. ASSUME NEW s \in Symbols
      PROVE  /\ lengths[s] \in 0 .. MAX_BITS
             /\ max_bits - lengths[s] \in 0 .. MAX_BITS
             /\ Room(s) \in Nat \ {0} /\ Two(lengths[s]) \in Nat \ {0}
             /\ Two(max_bits) = Two(lengths[s]) * Room(s)
  <2> DEFINE l == lengths[s]
             k == max_bits - l
  <2>1. l \in 0 .. max_bits
    BY <1>1
  <2> HIDE DEF l
  <2>2. /\ l \in 0 .. MAX_BITS /\ k \in 0 .. MAX_BITS /\ k \in 0 .. MAX_BITS - l
        /\ l + k = max_bits
    BY <1>2, <2>1 DEF MAX_BITS
  <2>3. Two(l) \in Nat \ {0} /\ Two(k) \in Nat \ {0}
    BY <2>2, Powers
  <2>4. Two(l + k) = Two(l) * Two(k)
    BY <2>2, PowerSum
  <2> QED BY <2>2, <2>3, <2>4 DEF Room, l
<1> QED BY <1>1, <1>2, <1>3, Powers

LEMMA RoomsAre ==
  ASSUME Wide, NEW D
  PROVE  /\ Rooms(D) \in [Symbols -> Nat]
         /\ \A s \in Symbols : Rooms(D)[s] = IF s \in D THEN Room(s) ELSE 0
<1>1. \A s \in Symbols : Room(s) \in Nat
  BY Widest
<1> QED BY <1>1 DEF Rooms, Room

LEMMA SpaceOfNone ==
  ASSUME Wide
  PROVE  Space({}) = 0
BY RoomsAre, TotalNone DEF Space

LEMMA SpaceAdd ==
  ASSUME Wide, NEW D, NEW s \in Symbols, s \notin D
  PROVE  Space(D \cup {s}) = Space(D) + Room(s)
<1> DEFINE w == Rooms(D)
           v == Rooms(D \cup {s})
<1>1. w \in [Symbols -> Nat] /\ v \in [Symbols -> Nat]
  BY RoomsAre
<1>2. w[s] = 0 /\ v[s] = Room(s) /\ Room(s) \in Nat
  BY RoomsAre, Widest
<1>3. \A t \in Symbols \ {s} : v[t] = w[t]
  BY RoomsAre
<1>4. v[s] = w[s] + Room(s)
  BY <1>2
<1> HIDE DEF w, v
<1>5. Total(v) = Total(w) + Room(s)
  BY <1>1, <1>2, <1>3, <1>4, TotalAdd
<1> QED BY <1>5 DEF Space, w, v

LEMMA SpaceMonotone ==
  ASSUME Wide, NEW D, NEW E, D \subseteq E
  PROVE  Space(D) <= Space(E) /\ Space(D) \in Nat /\ Space(E) \in Nat
<1> DEFINE w == Rooms(D)
           v == Rooms(E)
<1>1. w \in [Symbols -> Nat] /\ v \in [Symbols -> Nat]
  BY RoomsAre
<1>2. ASSUME NEW s \in Symbols PROVE w[s] <= v[s]
  <2>1. /\ w[s] = IF s \in D THEN Room(s) ELSE 0
        /\ v[s] = IF s \in E THEN Room(s) ELSE 0
        /\ Room(s) \in Nat
    BY RoomsAre, Widest
  <2> HIDE DEF w, v
  <2> QED BY <2>1
<1>3. \A s \in Symbols : v[s] <= v[s]
  <2> HIDE DEF v
  <2> QED BY <1>1
<1> HIDE DEF w, v
<1>4. Total(w) <= Total(v) /\ Total(w) \in Nat
  BY <1>1, <1>2, TotalMonotone
<1>5. Total(v) \in Nat
  BY <1>1, <1>3, TotalMonotone
<1> QED BY <1>4, <1>5 DEF Space, w, v

LEMMA KraftIs == Kraft(lengths) = Space(Used(lengths))
BY DEF Kraft, Takes, Space, Rooms, Two
-----------------------------------------------------------------------------
(* Zero turned round, and the beginning of some bits: with zeros behind it *)
(* it does not come after them.                                            *)
LEMMA ReverseZero ==
  ASSUME NEW w \in 0 .. MAX_BITS
  PROVE  reverse_bits(0, w) = 0
<1> DEFINE T == {n \in 0 .. MAX_BITS : reverse_bits(0, n) # 0}
<1> SUFFICES ASSUME T # {} PROVE FALSE
  OBVIOUS
<1>1. PICK n \in T : \A k \in T : n <= k
  <2>1. T \in SUBSET Nat
    BY DEF MAX_BITS
  <2> HIDE DEF T
  <2> QED BY <2>1, LeastOf
<1>2. 0 \in Nat /\ n \in 0 .. MAX_BITS
  BY <1>1
<1>3. n # 0
  BY <1>1, <1>2, ReverseStep
<1>4. /\ n > 0 /\ n - 1 \in 0 .. MAX_BITS /\ ~ (n <= n - 1)
  BY <1>1, <1>3 DEF MAX_BITS
<1>5. reverse_bits(0, n - 1) = 0
  BY <1>1, <1>4
<1>6. Bit(0, n - 1) = 0
  <2>1. Two(n - 1) \in Nat \ {0}
    BY <1>4, Powers
  <2> DEFINE d == Two(n - 1)
  <2> HIDE DEF d
  <2>2. (0 + d * 0) \div d = 0
    BY <2>1, Remainder DEF d
  <2>3. 0 + d * 0 = 0 /\ 0 % 2 = 0
    BY <2>1 DEF d
  <2> QED BY <2>2, <2>3 DEF Bit, d
<1>7. reverse_bits(0, n) = 2 * 0 + 0
  BY <1>2, <1>4, <1>5, <1>6, ReverseStep
<1> QED BY <1>1, <1>7

LEMMA ReversePrefix ==
  ASSUME NEW w \in 0 .. MAX_BITS, NEW q \in 0 .. w, NEW b \in Nat
  PROVE  reverse_bits(b % Two(q), w) <= reverse_bits(b, w)
<1> DEFINE a == b % Two(q)
           y == b \div Two(q)
           m == w - q
<1>1. q \in 0 .. MAX_BITS /\ m \in 0 .. MAX_BITS - q /\ q + m = w /\ m \in 0 .. MAX_BITS
  BY DEF MAX_BITS
<1>2. a \in 0 .. Two(q) - 1 /\ y \in Nat /\ b = a + Two(q) * y /\ a \in Nat
  <2> DEFINE d == Two(q)
  <2>1. d \in Nat \ {0}
    BY <1>1, Powers
  <2> HIDE DEF d
  <2>2. b % d \in 0 .. d - 1 /\ b \div d \in Nat /\ b = (b % d) + d * (b \div d)
    BY <2>1, Division
  <2>3. b % d \in Nat
    BY <2>1, <2>2
  <2> QED BY <2>2, <2>3 DEF d
<1> HIDE DEF a, y, m
<1>3. reverse_bits(b, w) = reverse_bits(a, q) * Two(m) + reverse_bits(y, m)
  BY <1>1, <1>2, ReverseJoin
<1>4. reverse_bits(a + Two(q) * 0, q + m) = reverse_bits(a, q) * Two(m) + reverse_bits(0, m)
  <2>1. 0 \in Nat
    OBVIOUS
  <2> QED BY <1>1, <1>2, <2>1, ReverseJoin
<1>5. a + Two(q) * 0 = a
  <2>1. Two(q) \in Nat
    BY <1>1, Powers
  <2> QED BY <1>2, <2>1
<1>6. reverse_bits(0, m) = 0
  BY <1>1, ReverseZero
<1> DEFINE u == reverse_bits(a, q) * Two(m)
           v == reverse_bits(y, m)
<1>7. u \in Nat /\ v \in Nat
  <2>1. reverse_bits(a, q) \in Nat /\ Two(m) \in Nat
    BY <1>1, <1>2, ReverseStep, Powers
  <2> QED BY <1>1, <1>2, <2>1, Product, ReverseStep
<1> HIDE DEF u, v
<1>8. u + 0 <= u + v
  BY <1>7
<1> QED BY <1>1, <1>3, <1>4, <1>5, <1>6, <1>8 DEF u, v, a

(* A beginning of a beginning.                                             *)
LEMMA RemainderTwice ==
  ASSUME NEW q \in 0 .. MAX_BITS, NEW l \in 0 .. q, NEW b \in Nat
  PROVE  (b % Two(q)) % Two(l) = b % Two(l)
<1> DEFINE p == Two(l)
           k == Two(q - l)
           d == p * k
           a == b % d
           y == b \div d
           r == a % p
           m == a \div p
           z == k * y
<1>1. l \in 0 .. MAX_BITS /\ q - l \in 0 .. MAX_BITS - l /\ l + (q - l) = q
      /\ q - l \in 0 .. MAX_BITS
  BY DEF MAX_BITS
<1>2. Two(q) = d
  <2>1. Two(l + (q - l)) = Two(l) * Two(q - l)
    BY <1>1, PowerSum
  <2> QED BY <1>1, <2>1
<1>3. p \in Nat \ {0} /\ k \in Nat \ {0} /\ d \in Nat \ {0}
  <2>1. Two(q) \in Nat \ {0}
    BY Powers
  <2> QED BY <1>1, <1>2, <2>1, Powers
<1> HIDE DEF d
<1>4. a \in 0 .. d - 1 /\ y \in Nat /\ b = a + d * y /\ a \in Nat
  <2>1. b % d \in 0 .. d - 1 /\ b \div d \in Nat /\ b = (b % d) + d * (b \div d)
    BY <1>3, Division
  <2>2. b % d \in Nat
    BY <1>3, <2>1
  <2> QED BY <2>1, <2>2
<1> HIDE DEF a, y, p, k
<1>5. r \in 0 .. p - 1 /\ m \in Nat /\ a = r + p * m
  BY <1>3, <1>4, Division
<1> HIDE DEF r, m
<1>6. z \in Nat
  BY <1>3, <1>4, Product
<1>7. d * y = p * z
  <2>1. (p * k) * y = p * (k * y)
    BY <1>3, <1>4
  <2> QED BY <2>1 DEF d
<1> HIDE DEF z
<1>8. b = r + p * (m + z) /\ m + z \in Nat
  <2>1. p * (m + z) = p * m + p * z /\ p * m \in Nat /\ p * z \in Nat /\ r \in Nat
    BY <1>3, <1>5, <1>6
  <2> QED BY <1>4, <1>5, <1>6, <1>7, <2>1
<1>9. (r + p * (m + z)) % p = r
  BY <1>3, <1>5, <1>8, Remainder
<1>10. b % p = r
  BY <1>8, <1>9
<1> QED BY <1>2, <1>10 DEF r, a, p
-----------------------------------------------------------------------------
(* The number of a code; the bits before it in the order of the codes are  *)
(* those of the codes before.                                              *)
Before(s)   == {t \in Used(lengths) : Earlier(lengths, t, s)}
Number(s)   == Space(Before(s)) \div Room(s)
CodeOf(s)   == reverse_bits(Number(s), lengths[s])
Numbered(s) == Number(s) * Room(s) = Space(Before(s))

Position(i) == reverse_bits(i, max_bits)
Lies(i, s)  == /\ Space(Before(s)) <= Position(i)
               /\ Position(i) < Space(Before(s)) + Room(s)

LEMMA BeforeIs ==
  ASSUME Wide, NEW s \in Used(lengths), NEW t \in Used(lengths)
  PROVE  /\ s \in Symbols /\ s \notin Before(s) /\ Before(s) \subseteq Used(lengths)
         /\ Earlier(lengths, s, t) => Space(Before(s)) + Room(s) <= Space(Before(t))
         /\ Earlier(lengths, s, t) \/ Earlier(lengths, t, s) \/ s = t
         /\ Space(Before(s)) \in Nat /\ Room(s) \in Nat \ {0}
         /\ Space(Before(s)) + Room(s) <= Space(Used(lengths))
<1>1. \A u \in Symbols : lengths[u] \in Nat /\ u \in Nat
  BY HuffmanAssumption DEF Wide, Symbols
<1>2. Used(lengths) \subseteq Symbols
  BY DEF Used
<1>3. s \notin Before(s) /\ Before(s) \subseteq Used(lengths)
  BY <1>1, <1>2 DEF Before, Earlier
<1>4. Room(s) \in Nat \ {0}
  BY <1>2, Widest
<1>5. Space(Before(s) \cup {s}) = Space(Before(s)) + Room(s)
  BY <1>2, <1>3, SpaceAdd
<1>6. ASSUME Earlier(lengths, s, t)
      PROVE  Space(Before(s)) + Room(s) <= Space(Before(t))
  <2>1. Before(s) \cup {s} \subseteq Before(t)
    BY <1>1, <1>2, <1>6 DEF Before, Earlier
  <2> QED BY <1>5, <2>1, SpaceMonotone
<1>7. Earlier(lengths, s, t) \/ Earlier(lengths, t, s) \/ s = t
  BY <1>1, <1>2 DEF Earlier
<1>8. Before(s) \cup {s} \subseteq Used(lengths)
  BY <1>3
<1>9. Space(Before(s)) \in Nat
  BY SpaceMonotone
<1>10. Space(Before(s)) + Room(s) <= Space(Used(lengths))
  BY <1>5, <1>8, SpaceMonotone
<1> QED BY <1>2, <1>3, <1>4, <1>6, <1>7, <1>9, <1>10

(* Some bits begin with a code just when they lie in the code's place.     *)
LEMMA Covers ==
  ASSUME Wide, NEW s \in Used(lengths), Numbered(s),
         Space(Before(s)) + Room(s) <= Two(max_bits),
         NEW i \in Nat
  PROVE  /\ i % Two(lengths[s]) = CodeOf(s) <=> Lies(i, s)
         /\ Number(s) \in 0 .. Two(lengths[s]) - 1
<1> DEFINE l == lengths[s]
           p == Room(s)
           c == Number(s)
           x == i % Two(l)
           R == Position(i)
<1>1. s \in Symbols
  BY DEF Used
<1>2. /\ l \in 0 .. max_bits /\ l \in 0 .. MAX_BITS /\ max_bits \in 0 .. MAX_BITS
      /\ max_bits - l \in 0 .. max_bits /\ max_bits - (max_bits - l) = l
      /\ p \in Nat \ {0} /\ Two(l) \in Nat \ {0} /\ Two(max_bits) = Two(l) * p
  <2>1. /\ l \in 0 .. max_bits /\ l \in 0 .. MAX_BITS /\ max_bits \in 0 .. MAX_BITS
        /\ p \in Nat \ {0} /\ Two(l) \in Nat \ {0} /\ Two(max_bits) = Two(l) * p
    BY <1>1, Widest
  <2>2. max_bits - l \in 0 .. max_bits /\ max_bits - (max_bits - l) = l
    <3> HIDE DEF l
    <3> QED BY <2>1 DEF MAX_BITS
  <2> QED BY <2>1, <2>2
<1>3. Space(Before(s)) \in Nat /\ c \in Nat /\ c * p = Space(Before(s))
  <2>1. Space(Before(s)) \in Nat
    BY BeforeIs
  <2>2. Space(Before(s)) \div p \in Nat
    <3> HIDE DEF p
    <3> QED BY <1>2, <2>1, Division
  <2> QED BY <2>1, <2>2 DEF Number, Numbered
<1> HIDE DEF l, p, c
<1>4. c \in 0 .. Two(l) - 1
  <2> SUFFICES ASSUME Two(l) <= c PROVE FALSE
    BY <1>2, <1>3
  <2> DEFINE a == Two(l)
             d == p * a
             e == p * c
  <2>1. p * a <= p * c
    BY <1>2, <1>3, Monotone
  <2>2. d \in Nat /\ e \in Nat /\ a * p = d /\ c * p = e
    BY <1>2, <1>3
  <2> HIDE DEF d, e
  <2>3. e + p <= d
    BY <1>2, <1>3, <2>2 DEF p
  <2> QED BY <1>2, <2>1, <2>2, <2>3 DEF d, e
<1>5. x \in 0 .. Two(l) - 1 /\ x \in Nat
  <2> DEFINE d == Two(l)
  <2>1. d \in Nat \ {0}
    BY <1>2
  <2> HIDE DEF d
  <2>2. i % d \in 0 .. d - 1
    BY <2>1, Division
  <2>3. i % d \in Nat
    BY <2>1, <2>2
  <2> QED BY <2>2, <2>3 DEF d
<1>6. R \in Nat
  BY <1>2, ReverseStep DEF Position
<1>7. R \div p = reverse_bits(x, l)
  <2> DEFINE m == max_bits - l
  <2>1. m \in 0 .. max_bits /\ max_bits - m = l
    BY <1>2
  <2> HIDE DEF m
  <2>2. reverse_bits(i, max_bits) \div Two(m)
          = reverse_bits(i % Two(max_bits - m), max_bits - m)
    BY <1>2, <2>1, ReverseSplit
  <2>3. p = Two(m)
    BY DEF p, m, Room, l
  <2> QED BY <2>1, <2>2, <2>3 DEF Position
<1> HIDE DEF x, R
<1>8. (x = reverse_bits(c, l)) <=> (reverse_bits(x, l) = c)
  <2>1. reverse_bits(reverse_bits(c, l), l) = c /\ reverse_bits(reverse_bits(x, l), l) = x
    BY <1>2, <1>4, <1>5, ReverseTwice
  <2> QED BY <2>1
<1>9. (R \div p = c) <=> (c * p <= R /\ R < c * p + p)
  <2> DEFINE q == R \div p
             r == R % p
             e == p * c
             f == p * q
  <2>1. r \in 0 .. p - 1 /\ q \in Nat /\ R = r + f
    BY <1>2, <1>6, Division
  <2> HIDE DEF q, r
  <2>2. e \in Nat /\ f \in Nat /\ c * p = e
    BY <1>2, <1>3, <2>1, Product
  <2>3. CASE q = c
    <3>1. f = e
      BY <2>3
    <3> HIDE DEF e, f
    <3>2. e <= R /\ R < e + p
      BY <1>2, <2>1, <2>2, <3>1
    <3> QED BY <2>2, <2>3, <3>2 DEF q
  <2>4. CASE q + 1 <= c
    <3>1. p * (q + 1) <= p * c
      BY <1>2, <1>3, <2>1, <2>4, Monotone
    <3>2. p * (q + 1) = f + p
      BY <1>2, <2>1
    <3>3. f + p <= e
      BY <3>1, <3>2
    <3> HIDE DEF e, f
    <3>4. R < e /\ q # c
      BY <1>2, <1>3, <2>1, <2>2, <2>4, <3>3
    <3> QED BY <1>6, <2>2, <3>4 DEF q
  <2>5. CASE c + 1 <= q
    <3>1. p * (c + 1) <= p * q
      BY <1>2, <1>3, <2>1, <2>5, Monotone
    <3>2. p * (c + 1) = e + p
      BY <1>2, <1>3
    <3>3. e + p <= f
      BY <3>1, <3>2
    <3> HIDE DEF e, f
    <3>4. e + p <= R /\ q # c
      BY <1>2, <1>3, <2>1, <2>2, <2>5, <3>3
    <3> QED BY <1>2, <1>6, <2>2, <3>4 DEF q
  <2>6. q = c \/ q + 1 <= c \/ c + 1 <= q
    BY <1>3, <2>1
  <2> QED BY <2>3, <2>4, <2>5, <2>6
<1>10. CodeOf(s) = reverse_bits(c, l)
  BY DEF CodeOf, c, l
<1>11. Lies(i, s) <=> (c * p <= R /\ R < c * p + p)
  BY <1>3 DEF Lies, R, p
<1>12. x = CodeOf(s) <=> Lies(i, s)
  BY <1>7, <1>8, <1>9, <1>10, <1>11
<1> QED BY <1>4, <1>12 DEF x, l, c
-----------------------------------------------------------------------------
(* The loop that numbers the codes is at the first symbol that is left;    *)
(* `code' is what the codes before it take up, in codes of their width.    *)
Done == Used(lengths) \ entries

LoopInv ==
  /\ entries \subseteq Used(lengths)
  /\ code \in Nat /\ previous \in 0 .. max_bits
  /\ \A s \in entries : previous <= lengths[s]
  /\ \A t \in Done, s \in entries : Earlier(lengths, t, s)
  /\ code * Two(max_bits - previous) = Space(Done)
  /\ \A s \in Done : Numbered(s)

(* Nothing of a code depends on more than the lengths.                     *)
LEMMA Kept ==
  ASSUME lengths' = lengths
  PROVE  /\ Wide' = Wide /\ max_bits' = max_bits
         /\ Used(lengths)' = Used(lengths) /\ Kraft(lengths)' = Kraft(lengths)
         /\ \A D : Space(D)' = Space(D)
         /\ \A s : /\ Before(s)' = Before(s) /\ Room(s)' = Room(s)
                   /\ CodeOf(s)' = CodeOf(s) /\ Numbered(s)' = Numbered(s)
         /\ \A i : Position(i)' = Position(i)
         /\ \A i, s : Lies(i, s)' = Lies(i, s)
<1>1. max_bits' = max_bits /\ Used(lengths)' = Used(lengths)
  BY DEF max_bits, Used
<1>2. Wide' = Wide /\ Kraft(lengths)' = Kraft(lengths)
  BY <1>1 DEF Wide, Kraft
<1>3. \A D : Space(D)' = Space(D)
  BY <1>1 DEF Space, Rooms
<1>4. \A s : Before(s)' = Before(s) /\ Room(s)' = Room(s)
  BY <1>1 DEF Before, Room
<1>5. \A s : Space(Before(s))' = Space(Before(s))
  BY <1>3, <1>4
<1>6. \A s : Number(s)' = Number(s)
  BY <1>4, <1>5 DEF Number
<1>7. \A s : CodeOf(s)' = CodeOf(s) /\ Numbered(s)' = Numbered(s)
  BY <1>4, <1>5, <1>6 DEF CodeOf, Numbered
<1>8. \A i : Position(i)' = Position(i)
  BY <1>1 DEF Position
<1>9. \A i, s : Lies(i, s)' = Lies(i, s)
  BY <1>4, <1>5, <1>8 DEF Lies
<1> QED BY <1>1, <1>2, <1>3, <1>4, <1>7, <1>8, <1>9

LEMMA NoneDone ==
  ASSUME Wide, entries = Used(lengths), code = 0, previous = 0
  PROVE  LoopInv
<1>1. Done = {}
  BY DEF Done
<1>2. \A s \in Used(lengths) : 0 <= lengths[s]
  BY DEF Used, Wide
<1>3. max_bits \in Nat /\ 0 \in 0 .. max_bits /\ max_bits - 0 \in 0 .. MAX_BITS
  BY DEF Wide, MAX_BITS
<1>4. Two(max_bits - 0) \in Nat
  BY <1>3, Powers
<1>5. 0 * Two(max_bits - 0) = 0
  BY <1>4
<1> QED BY <1>1, <1>2, <1>3, <1>5, SpaceOfNone DEF LoopInv

LEMMA NextCode ==
  ASSUME Wide, LoopInv, entries # {}
  PROVE  /\ Entry \in entries /\ Entry \in Used(lengths) /\ Entry \in Symbols
         /\ Width = lengths[Entry] /\ Width \in 0 .. max_bits /\ Width <= MAX_BITS
         /\ Before(Entry) = Done /\ Done \cup {Entry} = Used(lengths) \ (entries \ {Entry})
         /\ Entry \notin Done
         /\ Shifted \in Nat /\ Shifted * Room(Entry) = Space(Done)
         /\ Shifted = Number(Entry) /\ Numbered(Entry)
         /\ \A t \in entries \ {Entry} : Earlier(lengths, Entry, t)
<1> DEFINE s == Entry
<1>1. Used(lengths) \subseteq Symbols /\ entries \subseteq Symbols
  BY DEF LoopInv, Used
<1>2. s \in entries /\ \A t \in entries \ {s} : Earlier(lengths, s, t)
  BY <1>1, FirstExists DEF Entry, Wide
<1>3. s \in Used(lengths) /\ s \in Symbols /\ s \notin Done
  BY <1>1, <1>2 DEF LoopInv, Done
<1>4. \A u \in Symbols : lengths[u] \in Nat /\ u \in Nat
  BY HuffmanAssumption DEF Wide, Symbols
<1> HIDE DEF s
<1>5. Before(s) = Done
  <2>1. ASSUME NEW t \in Used(lengths)
        PROVE  Earlier(lengths, t, s) <=> t \in Done
    <3>1. t \in Symbols
      BY <1>1
    <3>2. CASE t \in entries
      <4>1. ~ Earlier(lengths, t, s)
        <5>1. CASE t = s
          BY <1>3, <1>4, <5>1 DEF Earlier
        <5>2. CASE t # s
          BY <1>2, <1>3, <1>4, <3>1, <3>2, <5>2 DEF Earlier
        <5> QED BY <5>1, <5>2
      <4> QED BY <3>2, <4>1 DEF Done
    <3>3. CASE t \notin entries
      BY <1>2, <3>3 DEF LoopInv, Done
    <3> QED BY <3>2, <3>3
  <2> QED BY <2>1 DEF Before, Done
<1>6. Done \cup {s} = Used(lengths) \ (entries \ {s})
  BY <1>2, <1>3 DEF Done
<1> DEFINE l == lengths[s]
           j == max_bits - l
           k == l - previous
<1>7. l \in 0 .. max_bits /\ l \in Nat /\ max_bits \in 0 .. MAX_BITS
  BY <1>3, <1>4, Widest
<1>8. /\ previous \in 0 .. max_bits /\ previous <= l /\ code \in Nat
      /\ code * Two(max_bits - previous) = Space(Done)
  BY <1>2 DEF LoopInv
<1> HIDE DEF l
<1>9. /\ j \in 0 .. MAX_BITS /\ k \in 0 .. MAX_BITS - j /\ j + k = max_bits - previous
      /\ k \in 0 .. MAX_BITS /\ l <= MAX_BITS
  BY <1>7, <1>8 DEF MAX_BITS
<1>10. Two(j + k) = Two(j) * Two(k) /\ Two(j) \in Nat \ {0} /\ Two(k) \in Nat \ {0}
  BY <1>9, PowerSum, Powers
<1>11. Width = l /\ Shifted = code * Two(k) /\ Room(s) = Two(j)
  BY DEF Width, Shifted, Two, l, s, Room
<1> DEFINE a == Two(j)
           b == Two(k)
           c == code * b
<1>12. c \in Nat /\ c * a = Space(Done)
  <2>1. a \in Nat \ {0} /\ b \in Nat \ {0} /\ code * (a * b) = Space(Done)
    BY <1>8, <1>9, <1>10
  <2> HIDE DEF a, b
  <2>2. (code * b) * a = code * (a * b)
    BY <1>8, <2>1
  <2> QED BY <1>8, <2>1, <2>2, Product
<1> HIDE DEF j, k, a, b, c
<1>13. Number(s) = c
  <2>1. a \in Nat \ {0} /\ 0 \in 0 .. a - 1 /\ Room(s) = a
    BY <1>10, <1>11 DEF a
  <2>2. (0 + a * c) \div a = c
    BY <1>12, <2>1, Remainder
  <2>3. 0 + a * c = c * a
    BY <1>12, <2>1
  <2> QED BY <1>5, <1>12, <2>1, <2>2, <2>3 DEF Number
<1>14. Room(s) = a /\ Shifted = c
  BY <1>11 DEF a, c, b
<1>15. Numbered(s)
  BY <1>5, <1>12, <1>13, <1>14 DEF Numbered
<1> QED BY <1>2, <1>3, <1>5, <1>6, <1>7, <1>9, <1>11, <1>12, <1>13, <1>14, <1>15
        DEF s, l

LEMMA NextEntryStep ==
  ASSUME Wide, LoopInv, entries # {}, NextEntry, lengths' = lengths
  PROVE  LoopInv' /\ Done' = Done \cup {Entry} /\ Space(Done)' = Space(Done) + Room(Entry)
<1> DEFINE s == Entry
           c == Shifted
           p == Room(Entry)
<1>1. /\ s \in entries /\ s \in Used(lengths) /\ s \in Symbols
      /\ Width = lengths[s] /\ Width \in 0 .. max_bits
      /\ Done \cup {s} = Used(lengths) \ (entries \ {s}) /\ s \notin Done
      /\ c \in Nat /\ c * p = Space(Done) /\ Numbered(s)
      /\ \A t \in entries \ {s} : Earlier(lengths, s, t)
  BY NextCode
<1>2. code' = c + 1 /\ previous' = lengths[s] /\ entries' = entries \ {s}
  BY <1>1 DEF NextEntry
<1>3. /\ Used(lengths)' = Used(lengths) /\ max_bits' = max_bits
      /\ \A D : Space(D)' = Space(D) /\ \A t : Numbered(t)' = Numbered(t)
  BY Kept
<1>4. Done' = Done \cup {s}
  BY <1>1, <1>2, <1>3 DEF Done
<1>5. Space(Done \cup {s}) = Space(Done) + p
  BY <1>1, SpaceAdd
<1>6. Space(Done)' = Space(Done) + p
  BY <1>3, <1>4, <1>5
<1>7. p \in Nat /\ p = Two(max_bits - lengths[s])
  BY <1>1, Widest DEF Room
<1> HIDE DEF s, c, p
<1>8. (c + 1) * p = c * p + p
  BY <1>1, <1>7
<1>9. (code * Two(max_bits - previous) = Space(Done))'
  BY <1>1, <1>2, <1>3, <1>6, <1>7, <1>8
<1>10. \A t \in Done', u \in entries' : Earlier(lengths, t, u)
  BY <1>1, <1>2, <1>4 DEF LoopInv
<1>11. \A u \in entries' : lengths[s] <= lengths[u]
  <2>1. \A u \in Symbols : lengths[u] \in Nat
    BY DEF Wide
  <2>2. \A u \in entries' : u \in Symbols /\ Earlier(lengths, s, u)
    BY <1>1, <1>2 DEF LoopInv, Used
  <2> QED BY <1>1, <2>1, <2>2 DEF Earlier
<1>12. \A t \in Done' : Numbered(t)'
  BY <1>1, <1>3, <1>4 DEF LoopInv
<1>13. /\ entries' \subseteq Used(lengths) /\ code' \in Nat
       /\ previous' \in 0 .. max_bits
  BY <1>1, <1>2 DEF LoopInv
<1>14. LoopInv'
  BY <1>2, <1>3, <1>9, <1>10, <1>11, <1>12, <1>13 DEF LoopInv
<1> QED BY <1>4, <1>6, <1>14 DEF s, p
-----------------------------------------------------------------------------
(* The table for the codes of some symbols: in the place of bits is the    *)
(* symbol whose code they begin with, and where there is none, the codes   *)
(* all lie before.                                                         *)
Index == 0 .. Two(max_bits) - 1

TableInv(D) ==
  /\ table \in [Index -> Symbols \cup {None}]
  /\ Space(D) <= Two(max_bits)
  /\ \A i \in Index : /\ \A s \in Symbols : table[i] = s <=> s \in D /\ Lies(i, s)
                      /\ table[i] = None => Space(D) <= Position(i)

LEMMA NoneIsNone == None \notin Symbols
BY HuffmanAssumption DEF None, Symbols

LEMMA PositionIs ==
  ASSUME Wide, NEW i \in Nat
  PROVE  Position(i) \in 0 .. Two(max_bits) - 1 /\ Position(i) \in Nat /\ Position(0) = 0
<1>1. max_bits \in 0 .. MAX_BITS
  BY Widest
<1> QED BY <1>1, ReverseRange, ReverseStep, ReverseZero DEF Position

LEMMA PlacesAre ==
  ASSUME Wide, LoopInv, entries # {}
  PROVE  /\ Places \subseteq Index
         /\ \A i \in Index :
              i \in Places <=> i % Two(lengths[Entry]) = reverse_bits(Shifted, lengths[Entry])
<1> DEFINE p == Two(lengths[Entry])
           k == Room(Entry)
           e == reverse_bits(Shifted, lengths[Entry])
<1>1. /\ Entry \in Symbols /\ Width = lengths[Entry] /\ Shifted \in Nat
  BY NextCode
<1>2. /\ p \in Nat \ {0} /\ k \in Nat \ {0} /\ Two(max_bits) = p * k
      /\ lengths[Entry] \in 0 .. MAX_BITS
  BY <1>1, Widest
<1>3. e \in 0 .. p - 1
  BY <1>1, <1>2, ReverseRange
<1>4. Places = {n * p + e : n \in 0 .. k - 1}
  BY <1>1 DEF Places, Two, Room
<1>5. Index = 0 .. p * k - 1
  BY <1>2 DEF Index
<1> HIDE DEF p, k, e
<1>6. ASSUME NEW n \in 0 .. k - 1
      PROVE  n * p + e \in 0 .. p * k - 1 /\ (n * p + e) % p = e
  <2>1. n \in Nat /\ k - 1 \in Nat /\ n <= k - 1
    BY <1>2
  <2>2. p * n <= p * (k - 1)
    BY <1>2, <2>1, Monotone
  <2> DEFINE a == p * n
             b == p * k
  <2>3. a \in Nat /\ b \in Nat /\ n * p = a /\ p * (k - 1) = b - p
    BY <1>2, <2>1
  <2>4. a <= b - p
    BY <2>2, <2>3
  <2>5. (e + a) % p = e
    BY <1>2, <1>3, <2>1, Remainder
  <2> HIDE DEF a, b
  <2>6. a + e \in 0 .. b - 1 /\ a + e = e + a
    BY <1>2, <1>3, <2>3, <2>4
  <2> QED BY <2>3, <2>5, <2>6 DEF b
<1>7. ASSUME NEW i \in 0 .. p * k - 1, i % p = e
      PROVE  \E n \in 0 .. k - 1 : i = n * p + e
  <2> DEFINE n == i \div p
             a == p * n
             b == p * k
  <2>1. b \in Nat /\ i \in Nat /\ i < b
    BY <1>2, Product
  <2>2. n \in Nat /\ i = e + p * n
    BY <1>2, <1>7, <2>1, Division
  <2> HIDE DEF n
  <2>3. a \in Nat /\ n * p = a
    BY <1>2, <2>2
  <2>4. n < k
    <3> SUFFICES ASSUME k <= n PROVE FALSE
      BY <1>2, <2>2
    <3>1. p * k <= p * n
      BY <1>2, <2>2, Monotone
    <3>2. b <= a
      BY <3>1
    <3> HIDE DEF a, b
    <3> QED BY <1>3, <2>1, <2>2, <2>3, <3>2 DEF a
  <2>5. n \in 0 .. k - 1
    BY <1>2, <2>2, <2>4
  <2>6. i = n * p + e
    <3> HIDE DEF a, b
    <3>1. i = e + a
      BY <2>2 DEF a
    <3> QED BY <1>2, <1>3, <2>3, <3>1
  <2> QED BY <2>5, <2>6
<1>8. Places \subseteq Index
  BY <1>4, <1>5, <1>6
<1>9. ASSUME NEW i \in Index
      PROVE  i \in Places <=> i % p = e
  BY <1>4, <1>5, <1>6, <1>7
<1> QED BY <1>8, <1>9 DEF p, e

(* A code finds its place taken just when there are too many codes.        *)
LEMMA ConflictIs ==
  ASSUME Wide, LoopInv, entries # {}, TableInv(Done)
  PROVE  /\ Conflict <=> Space(Done) + Room(Entry) > Two(max_bits)
         /\ ~ Conflict => \A i \in Index : i \in Places <=> Lies(i, Entry)
<1> DEFINE s == Entry
           l == lengths[s]
           c == Shifted
           p == Room(s)
           e == reverse_bits(c, l)
<1>1. /\ s \in Used(lengths) /\ s \in Symbols /\ Before(s) = Done
      /\ c \in Nat /\ c * p = Space(Done) /\ c = Number(s) /\ Numbered(s)
  BY NextCode
<1>2. /\ p \in Nat \ {0} /\ Two(l) \in Nat \ {0} /\ Two(max_bits) = Two(l) * p
      /\ l \in 0 .. MAX_BITS /\ Two(max_bits) \in Nat \ {0}
  BY <1>1, Widest
<1>3. /\ Places \subseteq Index
      /\ \A i \in Index : i \in Places <=> i % Two(l) = e
  BY PlacesAre
<1>4. Space(Done) \in Nat /\ Space(Done) <= Two(max_bits)
  BY SpaceMonotone DEF TableInv
<1>5. Index \subseteq Nat
  BY <1>2 DEF Index
<1>6. ASSUME Space(Done) + p <= Two(max_bits)
      PROVE  ~ Conflict /\ \A i \in Index : i \in Places <=> Lies(i, s)
  <2>1. ASSUME NEW i \in Index PROVE i \in Places <=> Lies(i, s)
    <3>1. i % Two(l) = CodeOf(s) <=> Lies(i, s)
      BY <1>1, <1>5, <1>6, Covers
    <3>2. CodeOf(s) = e
      BY <1>1 DEF CodeOf
    <3> QED BY <1>3, <3>1, <3>2
  <2>2. ASSUME NEW i \in Places PROVE table[i] = None
    <3>1. i \in Index /\ Lies(i, s)
      BY <1>3, <2>1
    <3> SUFFICES ASSUME table[i] # None PROVE FALSE
      OBVIOUS
    <3>2. table[i] \in Symbols
      BY <3>1 DEF TableInv
    <3> DEFINE t == table[i]
    <3>3. t \in Done /\ Lies(i, t)
      BY <3>1, <3>2 DEF TableInv
    <3> HIDE DEF t
    <3>4. t \in Used(lengths) /\ Earlier(lengths, t, s)
      BY <1>1, <3>3 DEF Before
    <3>5. Space(Before(t)) + Room(t) <= Space(Before(s))
      BY <1>1, <3>4, BeforeIs
    <3>6. Position(i) < Space(Before(t)) + Room(t) /\ Space(Before(s)) <= Position(i)
      BY <3>1, <3>3 DEF Lies
    <3>7. /\ Space(Before(t)) \in Nat /\ Room(t) \in Nat /\ Space(Before(s)) \in Nat
          /\ Position(i) \in Nat
      BY <1>1, <1>5, <3>1, <3>4, BeforeIs, PositionIs
    <3> QED BY <3>5, <3>6, <3>7
  <2> QED BY <2>1, <2>2 DEF Conflict
<1>7. ASSUME ~ (Space(Done) + p <= Two(max_bits))
      PROVE  Conflict
  <2>1. c = Two(l)
    <3> DEFINE a == Two(l)
               b == a * p
               d == c * p
    <3>1. /\ a \in Nat \ {0} /\ b = Two(max_bits) /\ d = Space(Done)
          /\ a * p = p * a /\ c * p = p * c
      BY <1>1, <1>2
    <3>2. d <= b /\ ~ (d + p <= b) /\ d \in Nat /\ b \in Nat
      BY <1>2, <1>4, <1>7, <3>1
    <3> HIDE DEF a, s, p, c
    <3>3. CASE a + 1 <= c
      <4>1. p * (a + 1) <= p * c
        BY <1>1, <1>2, <3>1, <3>3, Monotone
      <4>2. p * (a + 1) = b + p
        BY <1>2, <3>1
      <4>3. b + p <= d
        BY <3>1, <4>1, <4>2
      <4> HIDE DEF b, d
      <4> QED BY <1>2, <3>2, <4>3
    <3>4. CASE c + 1 <= a
      <4>1. p * (c + 1) <= p * a
        BY <1>1, <1>2, <3>1, <3>4, Monotone
      <4>2. p * (c + 1) = d + p
        BY <1>1, <1>2, <3>1
      <4>3. d + p <= b
        BY <3>1, <4>1, <4>2
      <4> HIDE DEF b, d
      <4> QED BY <3>2, <4>3
    <3>5. a + 1 <= c \/ c + 1 <= a \/ c = a
      BY <1>1, <3>1
    <3> QED BY <3>3, <3>4, <3>5 DEF a
  <2>2. e = 0
    <3>1. 0 \in 0 .. Two(l) - 1 /\ 0 + Two(l) * 1 = Two(l) /\ 1 \in Nat
      BY <1>2
    <3> HIDE DEF l
    <3>2. reverse_bits(0 + Two(l) * 1, l) = reverse_bits(0, l)
      BY <1>2, <3>1, ReverseLow
    <3> QED BY <1>2, <2>1, <3>1, <3>2, ReverseZero
  <2>3. 0 \in Index /\ 0 % Two(l) = 0
    <3> DEFINE a == Two(l)
    <3>1. a \in Nat \ {0} /\ 0 \in 0 .. a - 1
      BY <1>2
    <3> HIDE DEF a
    <3>2. (0 + a * 0) % a = 0 /\ 0 + a * 0 = 0
      BY <3>1, Remainder
    <3>3. 0 \in Index
      BY <1>2 DEF Index
    <3> QED BY <3>2, <3>3 DEF a
  <2>4. 0 \in Places
    BY <1>3, <2>2, <2>3
  <2>5. table[0] # None
    <3> SUFFICES ASSUME table[0] = None PROVE FALSE
      OBVIOUS
    <3>1. Space(Done) <= Position(0)
      BY <2>3 DEF TableInv
    <3>2. Position(0) = 0
      BY PositionIs
    <3>3. Space(Done) = Two(max_bits)
      <4>1. Two(l) * p = c * p
        BY <2>1
      <4> QED BY <1>1, <1>2, <4>1
    <3> QED BY <1>2, <3>1, <3>2, <3>3
  <2> QED BY <2>4, <2>5 DEF Conflict
<1>8. (Space(Done) + p > Two(max_bits)) <=> ~ (Space(Done) + p <= Two(max_bits))
  BY <1>2, <1>4
<1> HIDE DEF p
<1> QED BY <1>6, <1>7, <1>8 DEF s, p

LEMMA FillStep ==
  ASSUME Wide, LoopInv, entries # {}, TableInv(Done), ~ Conflict,
         NextEntry, lengths' = lengths,
         table' = [i \in DOMAIN table |-> IF i \in Places THEN Entry ELSE table[i]]
  PROVE  TableInv(Done)'
<1> DEFINE s == Entry
           D == Done \cup {s}
<1>1. /\ Done' = D /\ Space(Done)' = Space(Done) + Room(s)
  BY NextEntryStep
<1>2. /\ s \in Used(lengths) /\ s \in Symbols /\ Before(s) = Done /\ s \notin Done
  BY NextCode
<1>3. /\ max_bits' = max_bits /\ \A E : Space(E)' = Space(E)
      /\ \A i : Position(i)' = Position(i)
      /\ \A i, t : Lies(i, t)' = Lies(i, t)
  BY Kept
<1>4. Index' = Index
  BY <1>3 DEF Index
<1>5. /\ Space(Done) + Room(s) <= Two(max_bits)
      /\ \A i \in Index : i \in Places <=> Lies(i, s)
  <2>1. ~ (Space(Done) + Room(s) > Two(max_bits))
    BY ConflictIs
  <2>2. Space(Done) \in Nat /\ Room(s) \in Nat /\ Two(max_bits) \in Nat
    BY <1>2, SpaceMonotone, Widest
  <2>3. \A i \in Index : i \in Places <=> Lies(i, s)
    BY ConflictIs
  <2> QED BY <2>1, <2>2, <2>3
<1>6. \A i \in Index : i \in Places => table[i] = None
  BY DEF Conflict
<1>7. Space(D) = Space(Done) + Room(s)
  BY <1>2, SpaceAdd
<1>8. table \in [Index -> Symbols \cup {None}]
  BY DEF TableInv
<1>9. table' \in [Index -> Symbols \cup {None}]
      /\ \A i \in Index : table'[i] = IF i \in Places THEN s ELSE table[i]
  BY <1>2, <1>8
<1> HIDE DEF s
<1>10. ASSUME NEW i \in Index
       PROVE  /\ \A t \in Symbols : table'[i] = t <=> t \in D /\ Lies(i, t)
              /\ table'[i] = None => Space(D) <= Position(i)
  <2>1. /\ \A t \in Symbols : table[i] = t <=> t \in Done /\ Lies(i, t)
        /\ table[i] = None => Space(Done) <= Position(i)
    BY DEF TableInv
  <2>2. CASE i \in Places
    <3>1. table[i] = None /\ table'[i] = s /\ Lies(i, s)
      BY <1>5, <1>6, <1>9, <2>2
    <3>2. \A t \in Symbols : ~ (t \in Done /\ Lies(i, t))
      BY <2>1, <3>1, NoneIsNone
    <3>3. table'[i] # None
      BY <1>2, <3>1, NoneIsNone
    <3> QED BY <1>2, <3>1, <3>2, <3>3
  <2>3. CASE i \notin Places
    <3>1. table'[i] = table[i] /\ ~ Lies(i, s)
      BY <1>5, <1>9, <2>3
    <3>2. ASSUME table[i] = None PROVE Space(D) <= Position(i)
      <4>1. Space(Done) <= Position(i)
        BY <2>1, <3>2
      <4>2. ~ (Position(i) < Space(Done) + Room(s))
        BY <1>2, <3>1, <4>1 DEF Lies
      <4>3. Position(i) \in Nat /\ Space(Done) \in Nat /\ Room(s) \in Nat
        <5>1. i \in Nat
          BY Widest DEF Index
        <5> QED BY <1>2, <5>1, PositionIs, SpaceMonotone, Widest
      <4> QED BY <1>7, <4>2, <4>3
    <3> QED BY <2>1, <3>1, <3>2
  <2> QED BY <2>2, <2>3
<1>11. Space(Done)' <= Two(max_bits)'
  BY <1>1, <1>3, <1>5 DEF s
<1>12. \A i \in Index' : /\ \A t \in Symbols : table'[i] = t <=> t \in Done' /\ Lies(i, t)'
                         /\ table'[i] = None => Space(Done)' <= Position(i)'
  BY <1>1, <1>3, <1>4, <1>7, <1>10 DEF s
<1> QED BY <1>4, <1>9, <1>11, <1>12 DEF TableInv
-----------------------------------------------------------------------------
(* Decoding with the table of all codes.  The symbol in the place of all   *)
(* the bits is the one whose code they begin with.                         *)
All == Used(lengths)

LEMMA Begins ==
  ASSUME Wide, TableInv(All), \A s \in All : Numbered(s),
         NEW s \in All, NEW i \in Nat
  PROVE  /\ i % Two(lengths[s]) = CodeOf(s) <=> Lies(i, s)
         /\ i \in Index => (table[i] = s <=> i % Two(lengths[s]) = CodeOf(s))
<1>1. /\ Space(Before(s)) + Room(s) <= Space(All) /\ s \in Symbols
      /\ Space(Before(s)) \in Nat /\ Room(s) \in Nat
  BY BeforeIs DEF All
<1>2. Space(All) <= Two(max_bits) /\ Space(All) \in Nat /\ Two(max_bits) \in Nat
  BY SpaceMonotone, Widest DEF TableInv
<1>3. Space(Before(s)) + Room(s) <= Two(max_bits)
  BY <1>1, <1>2
<1>4. i % Two(lengths[s]) = CodeOf(s) <=> Lies(i, s)
  BY <1>3, Covers DEF All
<1>5. i \in Index => (table[i] = s <=> Lies(i, s))
  BY <1>1 DEF TableInv
<1> QED BY <1>4, <1>5

(* The first bits with zeros behind them are in the table, and do not come *)
(* behind all the bits.                                                    *)
LEMMA PeekedIs ==
  ASSUME Wide, NEW q \in 0 .. max_bits, NEW b \in Index
  PROVE  /\ b \in Nat /\ b % Two(q) \in Index /\ b % Two(q) \in Nat
         /\ Position(b % Two(q)) <= Position(b)
         /\ Position(b % Two(q)) \in Nat /\ Position(b) \in Nat
         /\ \A l \in 0 .. q : (b % Two(q)) % Two(l) = b % Two(l)
<1> DEFINE d == Two(q)
           x == b % d
           m == Two(max_bits)
<1>1. q \in 0 .. MAX_BITS /\ max_bits \in 0 .. MAX_BITS /\ m \in Nat \ {0}
      /\ max_bits - q \in 0 .. MAX_BITS - q /\ q + (max_bits - q) = max_bits
  BY Widest DEF MAX_BITS
<1>2. d \in Nat \ {0} /\ d <= m
  BY <1>1, Powers, PowerSum
<1>3. b \in Nat
  BY <1>1 DEF Index
<1> HIDE DEF d, m
<1>4. x \in 0 .. d - 1 /\ x \in Nat
  <2>1. x \in 0 .. d - 1
    BY <1>2, <1>3, Division
  <2> QED BY <1>2, <2>1
<1>5. x \in 0 .. m - 1
  <2> HIDE DEF x
  <2> QED BY <1>1, <1>2, <1>4
<1>6. x \in Index
  BY <1>5 DEF Index, m
<1>7. Position(x) <= Position(b)
  BY <1>1, <1>3, ReversePrefix DEF Position, d
<1>8. Position(x) \in Nat /\ Position(b) \in Nat
  BY <1>3, <1>4, PositionIs
<1>9. ASSUME NEW l \in 0 .. q PROVE x % Two(l) = b % Two(l)
  BY <1>1, <1>3, RemainderTwice DEF d
<1> QED BY <1>3, <1>4, <1>6, <1>7, <1>8, <1>9 DEF d

(* No code is shorter than the one that the first bits with zeros behind   *)
(* them begin with, if they do not hold that one.                          *)
LEMMA NoneShorter ==
  ASSUME Wide, TableInv(All), \A s \in All : Numbered(s),
         NEW b \in Index, NEW q \in 0 .. max_bits,
         NEW t \in Symbols, table[b % Two(q)] = t, q < lengths[t],
         NEW s \in All, b % Two(lengths[s]) = CodeOf(s)
  PROVE  lengths[t] <= lengths[s]
<1> SUFFICES ASSUME lengths[s] < lengths[t] PROVE FALSE
  <2>1. lengths[s] \in Nat /\ lengths[t] \in Nat
    BY DEF Wide, All, Used
  <2> QED BY <2>1
<1> DEFINE x == b % Two(q)
           l == lengths[s]
<1>1. /\ b \in Nat /\ x \in Index /\ x \in Nat /\ Position(x) <= Position(b)
      /\ Position(x) \in Nat /\ Position(b) \in Nat
      /\ \A k \in 0 .. q : x % Two(k) = b % Two(k)
  BY PeekedIs
<1>2. t \in All /\ Lies(x, t)
  BY <1>1 DEF TableInv
<1>3. Lies(b, s)
  BY <1>1, Begins
<1>4. s \in Symbols /\ l \in Nat /\ lengths[t] \in Nat
  BY DEF Wide, All, Used
<1>5. ~ (l \in 0 .. q)
  <2> SUFFICES ASSUME l \in 0 .. q PROVE FALSE
    OBVIOUS
  <2>1. x % Two(l) = CodeOf(s)
    BY <1>1
  <2>2. table[x] = s
    BY <1>1, <2>1, Begins
  <2> QED BY <2>2, <1>4
<1>6. Earlier(lengths, s, t)
  BY DEF Earlier
<1>7. /\ Space(Before(s)) + Room(s) <= Space(Before(t))
      /\ Space(Before(s)) \in Nat /\ Room(s) \in Nat /\ Space(Before(t)) \in Nat
  BY <1>2, <1>6, BeforeIs DEF All
<1>8. Position(b) < Space(Before(s)) + Room(s) /\ Space(Before(t)) <= Position(x)
  BY <1>2, <1>3 DEF Lies
<1> HIDE DEF x
<1> QED BY <1>1, <1>7, <1>8

DecodeInv ==
  /\ safely_peek_bits \in 0 .. max_bits
  /\ stage \in {"decode", "decoded", "invalid", "short"} =>
       /\ available \in 0 .. max_bits /\ bits \in 0 .. Two(available) - 1
       /\ peek_bits \in 0 .. max_bits /\ reached = peek_bits
       /\ \/ peek_bits = safely_peek_bits
          \/ \E q \in 0 .. available, t \in Symbols :
               /\ q < peek_bits /\ table[bits % Two(q)] = t
               /\ lengths[t] = peek_bits
  /\ stage = "decoded" => /\ result \in Symbols /\ peeked = result
                          /\ lengths[result] <= peek_bits /\ peek_bits <= available
  /\ stage = "invalid" => peeked = None /\ peek_bits <= available
  /\ stage = "short" => peek_bits > available

LEMMA BitsAreIndex ==
  ASSUME Wide, NEW n \in 0 .. max_bits, NEW b \in 0 .. Two(n) - 1
  PROVE  b \in Index
<1>1. /\ n \in 0 .. MAX_BITS /\ max_bits \in 0 .. MAX_BITS
      /\ max_bits - n \in 0 .. MAX_BITS - n /\ n + (max_bits - n) = max_bits
  BY Widest DEF MAX_BITS
<1>2. Two(n) <= Two(max_bits) /\ Two(n) \in Nat /\ Two(max_bits) \in Nat
  BY <1>1, PowerSum, Powers
<1> DEFINE p == Two(n)
           m == Two(max_bits)
<1> HIDE DEF p, m
<1>3. b \in 0 .. m - 1
  BY <1>2 DEF p, m
<1> QED BY <1>3 DEF Index, m

LEMMA DecodesRight ==
  ASSUME Wide, TableInv(All), \A s \in All : Numbered(s),
         \A s \in All : encoder[s] = CodeOf(s), DecodeInv
  PROVE  DecodesTheCode
<1>1. \A s \in All : s \in Symbols /\ lengths[s] \in 0 .. max_bits /\ lengths[s] > 0
                     /\ lengths[s] \in Nat
  BY Widest DEF All, Used, Wide
<1>2. \A s \in All : IsNext(s) <=> /\ lengths[s] <= available
                                   /\ bits % Two(lengths[s]) = CodeOf(s)
  BY DEF IsNext, Two
<1>3. max_bits \in Nat
  BY DEF Wide, MAX_BITS
<1>4. ASSUME stage \in {"decoded", "invalid", "short"}
      PROVE  /\ available \in 0 .. max_bits /\ bits \in Index
             /\ peek_bits \in 0 .. max_bits /\ reached = peek_bits
             /\ peeked = table[bits % Two(peek_bits)]
             /\ peek_bits # safely_peek_bits =>
                  \A s \in All : IsNext(s) => peek_bits <= lengths[s]
  <2>1. /\ available \in 0 .. max_bits /\ bits \in 0 .. Two(available) - 1
        /\ peek_bits \in 0 .. max_bits /\ reached = peek_bits
        /\ \/ peek_bits = safely_peek_bits
           \/ \E q \in 0 .. available, t \in Symbols :
                /\ q < peek_bits /\ table[bits % Two(q)] = t
                /\ lengths[t] = peek_bits
    BY <1>4 DEF DecodeInv
  <2>2. bits \in Index
    BY <2>1, BitsAreIndex
  <2>3. ASSUME peek_bits # safely_peek_bits, NEW s \in All, IsNext(s)
        PROVE  peek_bits <= lengths[s]
    <3>1. PICK q \in 0 .. available, t \in Symbols :
                 /\ q < peek_bits /\ table[bits % Two(q)] = t
                 /\ lengths[t] = peek_bits
      BY <2>1, <2>3
    <3>2. q \in 0 .. max_bits
      BY <1>3, <2>1
    <3>3. bits % Two(lengths[s]) = CodeOf(s)
      BY <1>2, <2>3
    <3>4. lengths[t] <= lengths[s]
      BY <2>2, <3>1, <3>2, <3>3, NoneShorter
    <3> QED BY <3>1, <3>4
  <2>4. peeked = table[bits % Two(peek_bits)]
    BY DEF peeked, Two
  <2> QED BY <2>1, <2>2, <2>3, <2>4
<1>5. ASSUME stage = "decoded"
      PROVE  /\ lengths[result] > 0 /\ IsNext(result)
             /\ reached <= Max({safely_peek_bits, lengths[result]})
  <2> DEFINE x == bits % Two(peek_bits)
             s == result
  <2>1. /\ available \in 0 .. max_bits /\ bits \in Index
        /\ peek_bits \in 0 .. max_bits /\ reached = peek_bits
        /\ peeked = table[x]
        /\ peek_bits # safely_peek_bits =>
             \A u \in All : IsNext(u) => peek_bits <= lengths[u]
    BY <1>4, <1>5
  <2>2. s \in Symbols /\ peeked = s /\ lengths[s] <= peek_bits /\ peek_bits <= available
    BY <1>5 DEF DecodeInv
  <2>3. /\ bits \in Nat /\ x \in Index /\ x \in Nat
        /\ \A l \in 0 .. peek_bits : x % Two(l) = bits % Two(l)
    BY <2>1, PeekedIs
  <2>4. s \in All
    BY <2>1, <2>2, <2>3 DEF TableInv
  <2>5. x % Two(lengths[s]) = CodeOf(s)
    <3>1. table[x] = s
      BY <2>1, <2>2
    <3>2. table[x] = s <=> x % Two(lengths[s]) = CodeOf(s)
      <4>1. x \in Index /\ x \in Nat
        BY <2>3
      <4> HIDE DEF x, s
      <4> QED BY <2>4, <4>1, Begins
    <3> QED BY <3>1, <3>2
  <2>6. lengths[s] \in 0 .. peek_bits /\ lengths[s] <= available
    BY <1>1, <1>3, <2>1, <2>2, <2>4
  <2>7. IsNext(s)
    BY <1>2, <2>3, <2>4, <2>5, <2>6
  <2>8. reached = safely_peek_bits \/ reached = lengths[s]
    <3>1. peek_bits # safely_peek_bits => peek_bits <= lengths[s]
      BY <2>1, <2>4, <2>7
    <3>2. lengths[s] \in Nat /\ peek_bits \in Nat
      BY <1>1, <1>3, <2>1, <2>4
    <3> QED BY <2>1, <2>2, <3>1, <3>2
  <2>9. reached <= Max({safely_peek_bits, lengths[s]})
    <3> DEFINE a == safely_peek_bits
               b == lengths[s]
    <3>1. a \in Nat /\ b \in Nat
      BY <1>1, <1>3, <2>4 DEF DecodeInv
    <3> HIDE DEF a, b
    <3>2. a <= Max({a, b}) /\ b <= Max({a, b})
      BY <3>1, GreatestOfTwo
    <3> QED BY <2>8, <3>2 DEF a, b
  <2> QED BY <1>1, <2>4, <2>7, <2>9
<1>6. ASSUME stage = "invalid", NEW s \in All, IsNext(s)
      PROVE  FALSE
  <2> DEFINE x == bits % Two(peek_bits)
  <2>1. /\ available \in 0 .. max_bits /\ bits \in Index
        /\ peek_bits \in 0 .. max_bits /\ peeked = table[x]
    BY <1>4, <1>6
  <2>2. peeked = None
    BY <1>6 DEF DecodeInv
  <2>3. /\ bits \in Nat /\ x \in Index /\ Position(x) <= Position(bits)
        /\ Position(x) \in Nat /\ Position(bits) \in Nat
    BY <2>1, PeekedIs
  <2>4. Space(All) <= Position(x)
    BY <2>1, <2>2, <2>3 DEF TableInv
  <2>5. Lies(bits, s)
    BY <1>2, <1>6, <2>3, Begins
  <2>6. Space(Before(s)) + Room(s) <= Space(All) /\ Space(All) \in Nat
        /\ Space(Before(s)) \in Nat /\ Room(s) \in Nat
    BY BeforeIs, SpaceMonotone DEF All
  <2> HIDE DEF x
  <2> QED BY <2>3, <2>4, <2>5, <2>6 DEF Lies
<1>7. ASSUME stage = "short", NEW s \in All, IsNext(s)
      PROVE  available < safely_peek_bits
  <2>1. peek_bits > available
    BY <1>7 DEF DecodeInv
  <2>2. /\ available \in 0 .. max_bits /\ peek_bits \in 0 .. max_bits
        /\ peek_bits # safely_peek_bits => peek_bits <= lengths[s]
    BY <1>4, <1>7
  <2>3. lengths[s] <= available /\ lengths[s] \in Nat
    BY <1>1, <1>2, <1>7
  <2> QED BY <1>3, <2>1, <2>2, <2>3
<1> QED BY <1>5, <1>6, <1>7 DEF DecodesTheCode, All
-----------------------------------------------------------------------------
(* What holds of the codes, of the table and of the loop that decodes, from *)
(* whatever lengths they are made.                                         *)
Tabled == {"ready", "decode", "decoded", "invalid", "short"}

CodesInv ==
  /\ encoder \in [Symbols -> Nat]
  /\ stage \in {"codes", "fill"} => LoopInv
  /\ stage = "codes" => \A s \in Done : encoder[s] = CodeOf(s)
  /\ stage # "codes" => \A s \in All : encoder[s] = CodeOf(s)
  /\ stage = "fill" => TableInv(Done)
  /\ stage \in Tabled => /\ TableInv(All) /\ DecodeInv
                         /\ \A s \in All : Numbered(s)

HuffInv ==
  /\ lengths \in [Symbols -> Nat]
  /\ stage \in {"codes", "fill", "refused"} \cup Tabled
  /\ stage \in {"codes", "refused"} \/ Wide
  /\ stage = "refused" => \/ max_bits = 0 \/ max_bits > MAX_BITS
                          \/ Wide /\ Space(All) > Two(max_bits)
  /\ Wide => CodesInv

LEMMA HuffInit ==
  ASSUME lengths \in [Symbols -> Nat], HInit
  PROVE  HuffInv
<1>1. /\ entries = Used(lengths) /\ code = 0 /\ previous = 0 /\ stage = "codes"
      /\ encoder = [s \in Symbols |-> 0]
  BY DEF HInit
<1>2. ASSUME Wide PROVE CodesInv
  <2>1. LoopInv
    BY <1>1, <1>2, NoneDone
  <2>2. Done = {}
    BY <1>1 DEF Done
  <2>3. encoder \in [Symbols -> Nat]
    BY <1>1
  <2> QED BY <1>1, <2>1, <2>2, <2>3 DEF CodesInv, Tabled
<1> QED BY <1>1, <1>2 DEF HuffInv

(* The invariants of variables that a step leaves as they are.             *)
LEMMA LoopKept ==
  ASSUME lengths' = lengths, UNCHANGED <<entries, code, previous>>, LoopInv
  PROVE  LoopInv' /\ Done' = Done
<1>1. /\ Used(lengths)' = Used(lengths) /\ max_bits' = max_bits
      /\ \A D : Space(D)' = Space(D) /\ \A t : Numbered(t)' = Numbered(t)
  BY Kept
<1>2. Done' = Done
  BY <1>1 DEF Done
<1>3. Space(Done)' = Space(Done)
  BY <1>1, <1>2
<1>4. \A s \in Done' : Numbered(s)'
  BY <1>1, <1>2 DEF LoopInv
<1> QED BY <1>1, <1>2, <1>3, <1>4 DEF LoopInv

LEMMA TableKept ==
  ASSUME lengths' = lengths, table' = table, NEW D, TableInv(D)
  PROVE  TableInv(D)'
<1>1. /\ max_bits' = max_bits /\ \A E : Space(E)' = Space(E)
      /\ \A i : Position(i)' = Position(i)
      /\ \A i, t : Lies(i, t)' = Lies(i, t)
  BY Kept
<1>2. Index' = Index
  BY <1>1 DEF Index
<1> QED BY <1>1, <1>2 DEF TableInv

LEMMA AllKept ==
  ASSUME lengths' = lengths, table' = table, TableInv(All), \A s \in All : Numbered(s)
  PROVE  TableInv(All)' /\ \A s \in All' : Numbered(s)'
<1>1. /\ All' = All /\ max_bits' = max_bits /\ \A E : Space(E)' = Space(E)
      /\ \A t : Numbered(t)' = Numbered(t)
      /\ \A i : Position(i)' = Position(i)
      /\ \A i, t : Lies(i, t)' = Lies(i, t)
  BY Kept DEF All
<1>2. Index' = Index
  BY <1>1 DEF Index
<1>3. Space(All)' = Space(All)
  BY <1>1
<1> QED BY <1>1, <1>2, <1>3 DEF TableInv

LEMMA FillKept ==
  ASSUME UNCHANGED <<lengths, entries, code, previous, table>>, LoopInv, TableInv(Done)
  PROVE  TableInv(Done)'
<1>1. /\ Done' = Done /\ max_bits' = max_bits /\ \A E : Space(E)' = Space(E)
      /\ \A i : Position(i)' = Position(i)
      /\ \A i, t : Lies(i, t)' = Lies(i, t)
  BY Kept, LoopKept
<1>2. Index' = Index /\ Space(Done)' = Space(Done)
  BY <1>1 DEF Index
<1> QED BY <1>1, <1>2 DEF TableInv

LEMMA CodesKept ==
  ASSUME lengths' = lengths
  PROVE  /\ All' = All /\ Wide' = Wide /\ max_bits' = max_bits
         /\ Space(All)' = Space(All) /\ Two(max_bits)' = Two(max_bits)
         /\ \A s : CodeOf(s)' = CodeOf(s) /\ Numbered(s)' = Numbered(s)
<1>1. All' = All
  BY Kept DEF All
<1> QED BY <1>1, Kept

LEMMA AssignCodeStep ==
  ASSUME HuffInv, AssignCode
  PROVE  HuffInv'
<1>1. /\ lengths' = lengths /\ stage = "codes" /\ stage' = "codes"
      /\ entries # {} /\ Width <= MAX_BITS /\ NextEntry
      /\ encoder' = [encoder EXCEPT ![Entry] = reverse_bits(Shifted, Width)]
  BY DEF AssignCode, built
<1>2. ASSUME Wide PROVE CodesInv'
  <2>1. LoopInv /\ encoder \in [Symbols -> Nat] /\ \A s \in Done : encoder[s] = CodeOf(s)
    BY <1>1, <1>2 DEF HuffInv, CodesInv
  <2>2. LoopInv' /\ Done' = Done \cup {Entry}
    BY <1>1, <1>2, <2>1, NextEntryStep
  <2>3. /\ Entry \in Symbols /\ Width = lengths[Entry] /\ Shifted \in Nat
        /\ Shifted = Number(Entry) /\ Entry \notin Done
    BY <1>1, <1>2, <2>1, NextCode
  <2>4. reverse_bits(Shifted, Width) = CodeOf(Entry)
    BY <2>3 DEF CodeOf
  <2>5. reverse_bits(Shifted, Width) \in Nat
    <3>1. Width \in 0 .. MAX_BITS
      BY <1>2, <2>3, Widest
    <3>2. Two(Width) \in Nat
      BY <3>1, Powers
    <3>3. reverse_bits(Shifted, Width) \in 0 .. Two(Width) - 1
      BY <2>3, <3>1, ReverseRange
    <3> QED BY <3>2, <3>3
  <2>6. encoder' \in [Symbols -> Nat]
    BY <1>1, <2>1, <2>5
  <2>7. \A s \in Done' : encoder'[s] = CodeOf(s)'
    BY <1>1, <2>1, <2>2, <2>3, <2>4, CodesKept
  <2> QED BY <1>1, <2>2, <2>6, <2>7 DEF CodesInv, Tabled
<1>3. Wide' = Wide
  BY <1>1, CodesKept
<1> QED BY <1>1, <1>2, <1>3 DEF HuffInv

LEMMA BeginTableStep ==
  ASSUME HuffInv, BeginTable
  PROVE  HuffInv'
<1>1. /\ lengths' = lengths /\ stage = "codes" /\ encoder' = encoder
      /\ entries' = Used(lengths) /\ code' = 0 /\ previous' = 0
      /\ lengths \in [Symbols -> Nat]
  BY DEF BeginTable, built, HuffInv
<1>2. /\ All' = All /\ Wide' = Wide /\ max_bits' = max_bits
      /\ \A s : CodeOf(s)' = CodeOf(s)
  BY <1>1, CodesKept
<1>3. CASE max_bits = 0 \/ max_bits > MAX_BITS
  <2>1. stage' = "refused" /\ ~ Wide
    BY <1>3 DEF BeginTable, Wide, MAX_BITS
  <2> QED BY <1>1, <1>2, <1>3, <2>1 DEF HuffInv
<1>4. CASE ~ (max_bits = 0 \/ max_bits > MAX_BITS)
  <2>1. Wide
    BY <1>1, <1>4, MaxExists DEF Wide, MAX_BITS
  <2>2. /\ LoopInv /\ encoder \in [Symbols -> Nat]
        /\ \A s \in Done : encoder[s] = CodeOf(s)
    BY <1>1, <2>1 DEF HuffInv, CodesInv
  <2>3. entries = {}
    <3> SUFFICES ASSUME entries # {} PROVE FALSE
      OBVIOUS
    <3>1. Width \in 0 .. max_bits /\ max_bits \in 0 .. MAX_BITS
      BY <2>1, <2>2, NextCode, Widest
    <3> QED BY <3>1 DEF BeginTable, MAX_BITS
  <2>4. Done = All
    BY <2>3 DEF Done, All
  <2>5. stage' = "fill" /\ table' = [i \in Index |-> None]
    BY <1>4 DEF BeginTable, Index, Two
  <2>6. Done' = {}
    BY <1>1, Kept DEF Done
  <2>7. LoopInv'
    <3>1. Used(lengths)' = Used(lengths) /\ Space(Done)' = Space({})
      BY <1>1, <2>6, Kept
    <3>2. \A s \in Used(lengths) : 0 <= lengths[s]
      BY <1>1 DEF Used
    <3>3. max_bits - 0 \in 0 .. MAX_BITS /\ 0 \in 0 .. max_bits
      BY <2>1 DEF Wide, MAX_BITS
    <3>4. Two(max_bits - 0) \in Nat
      BY <3>3, Powers
    <3>5. 0 * Two(max_bits - 0) = Space({})
      BY <2>1, <3>4, SpaceOfNone
    <3> QED BY <1>1, <1>2, <2>6, <3>1, <3>2, <3>3, <3>5 DEF LoopInv
  <2>8. Space({}) = 0 /\ Two(max_bits) \in Nat
    BY <2>1, SpaceOfNone, Widest
  <2>9. TableInv({})'
    <3>1. /\ Index' = Index /\ Space({})' = 0 /\ Two(max_bits)' = Two(max_bits)
          /\ \A i : Position(i)' = Position(i)
      BY <1>1, <1>2, <2>8, Kept DEF Index
    <3>2. \A i \in Index : 0 <= Position(i)
      <4>1. \A i \in Index : i \in Nat
        BY <2>8 DEF Index
      <4> QED BY <2>1, <4>1, PositionIs
    <3> QED BY <2>5, <2>8, <3>1, <3>2, NoneIsNone DEF TableInv
  <2>10. TableInv(Done)'
    BY <2>6, <2>9
  <2>11. \A s \in All' : encoder'[s] = CodeOf(s)'
    BY <1>1, <1>2, <2>2, <2>4
  <2>12. CodesInv'
    BY <1>1, <2>2, <2>5, <2>7, <2>10, <2>11 DEF CodesInv, Tabled
  <2> QED BY <1>1, <1>2, <2>1, <2>5, <2>12 DEF HuffInv
<1> QED BY <1>3, <1>4

LEMMA FillEntryStep ==
  ASSUME HuffInv, FillEntry
  PROVE  HuffInv'
<1>1. /\ lengths' = lengths /\ stage = "fill" /\ entries # {} /\ encoder' = encoder
      /\ lengths \in [Symbols -> Nat] /\ Wide
  BY DEF FillEntry, built, filling, HuffInv, Tabled
<1>2. /\ LoopInv /\ TableInv(Done) /\ encoder \in [Symbols -> Nat]
      /\ \A s \in All : encoder[s] = CodeOf(s)
  BY <1>1 DEF HuffInv, CodesInv
<1>3. /\ All' = All /\ Wide' = Wide /\ max_bits' = max_bits
      /\ Space(All)' = Space(All) /\ Two(max_bits)' = Two(max_bits)
      /\ \A s : CodeOf(s)' = CodeOf(s)
  BY <1>1, CodesKept
<1>4. \A s \in All' : encoder'[s] = CodeOf(s)'
  BY <1>1, <1>2, <1>3
<1>5. CASE Conflict
  <2>1. stage' = "refused"
    BY <1>5 DEF FillEntry
  <2>2. Space(All) > Two(max_bits)
    <3>1. Space(Done) + Room(Entry) > Two(max_bits)
      BY <1>1, <1>2, <1>5, ConflictIs
    <3>2. /\ Entry \in Symbols /\ Entry \notin Done
          /\ Done \cup {Entry} \subseteq All
      BY <1>1, <1>2, NextCode DEF All
    <3>3. Space(Done \cup {Entry}) = Space(Done) + Room(Entry)
      BY <1>1, <3>2, SpaceAdd
    <3>4. /\ Space(Done \cup {Entry}) <= Space(All) /\ Space(All) \in Nat
          /\ Space(Done \cup {Entry}) \in Nat /\ Two(max_bits) \in Nat
      BY <1>1, <3>2, SpaceMonotone, Widest
    <3> QED BY <3>1, <3>3, <3>4
  <2>3. CodesInv'
    BY <1>1, <1>2, <1>4, <2>1 DEF CodesInv, Tabled
  <2> QED BY <1>1, <1>3, <2>1, <2>2, <2>3 DEF HuffInv
<1>6. CASE ~ Conflict
  <2>1. /\ table' = [i \in DOMAIN table |-> IF i \in Places THEN Entry ELSE table[i]]
        /\ NextEntry /\ stage' = "fill"
    BY <1>1, <1>6 DEF FillEntry
  <2>2. LoopInv'
    BY <1>1, <1>2, <2>1, NextEntryStep
  <2>3. TableInv(Done)'
    BY <1>1, <1>2, <1>6, <2>1, FillStep
  <2>4. CodesInv'
    BY <1>1, <1>2, <1>4, <2>1, <2>2, <2>3 DEF CodesInv, Tabled
  <2> QED BY <1>1, <1>3, <2>1, <2>4 DEF HuffInv
<1> QED BY <1>5, <1>6

LEMMA FillDoneStep ==
  ASSUME HuffInv, NEW e \in Symbols \cup {None}, NEW p \in SafelyPeek, FillDone(e, p)
  PROVE  HuffInv'
<1>1. /\ lengths' = lengths /\ stage = "fill" /\ entries = {} /\ encoder' = encoder
      /\ table' = table /\ stage' = "ready" /\ lengths \in [Symbols -> Nat] /\ Wide
  BY DEF FillDone, built, HuffInv, Tabled
<1>2. /\ LoopInv /\ TableInv(Done) /\ encoder \in [Symbols -> Nat]
      /\ \A s \in All : encoder[s] = CodeOf(s)
  BY <1>1 DEF HuffInv, CodesInv
<1>3. /\ All' = All /\ Wide' = Wide /\ max_bits' = max_bits
      /\ \A s : CodeOf(s)' = CodeOf(s)
  BY <1>1, CodesKept
<1>4. \A s \in All' : encoder'[s] = CodeOf(s)'
  BY <1>1, <1>2, <1>3
<1>5. Done = All
  BY <1>1 DEF Done, All
<1>6. TableInv(All) /\ \A s \in All : Numbered(s)
  BY <1>2, <1>5 DEF LoopInv
<1>7. TableInv(All)' /\ \A s \in All' : Numbered(s)'
  BY <1>1, <1>6, AllKept
<1>8. safely_peek_bits' \in 0 .. max_bits
  <2> DEFINE actual == IF e # None /\ lengths[e] > 0 THEN lengths[e]
                       ELSE IF p > 0 THEN p ELSE max_bits
  <2>1. max_bits \in Nat
    BY <1>1, MaxExists
  <2>2. actual \in Nat
    BY <1>1, <2>1, HuffmanAssumption
  <2>3. safely_peek_bits' = Min({max_bits, actual})
    BY DEF FillDone
  <2> HIDE DEF actual
  <2>4. Min({max_bits, actual}) \in Nat /\ Min({max_bits, actual}) <= max_bits
    BY <2>1, <2>2, LeastOfTwo
  <2> QED BY <2>1, <2>3, <2>4
<1>9. DecodeInv'
  BY <1>1, <1>3, <1>8 DEF DecodeInv
<1>10. CodesInv'
  BY <1>1, <1>2, <1>4, <1>7, <1>9 DEF CodesInv
<1> QED BY <1>1, <1>3, <1>10 DEF HuffInv, Tabled

LEMMA DecodeStep ==
  ASSUME HuffInv, NEW n \in 0 .. max_bits, NEW b \in 0 .. 2 ^ n - 1, Decode(n, b)
  PROVE  HuffInv'
<1>1. /\ UNCHANGED <<lengths, encoder, table, safely_peek_bits>> /\ stage = "ready"
      /\ stage' = "decode" /\ lengths \in [Symbols -> Nat] /\ Wide
      /\ available' = n /\ bits' = b
      /\ peek_bits' = safely_peek_bits /\ reached' = safely_peek_bits
  BY DEF Decode, built, filling, HuffInv, Tabled
<1>2. /\ TableInv(All) /\ encoder \in [Symbols -> Nat] /\ \A s \in All : Numbered(s)
      /\ DecodeInv /\ \A s \in All : encoder[s] = CodeOf(s)
  BY <1>1 DEF HuffInv, CodesInv, Tabled
<1>3. /\ All' = All /\ Wide' = Wide /\ max_bits' = max_bits
      /\ \A s : CodeOf(s)' = CodeOf(s)
  BY <1>1, CodesKept
<1>4. TableInv(All)' /\ \A s \in All' : Numbered(s)'
  BY <1>1, <1>2, AllKept
<1>5. b \in 0 .. Two(n) - 1
  BY DEF Two
<1>6. DecodeInv'
  <2>1. safely_peek_bits \in 0 .. max_bits
    BY <1>2 DEF DecodeInv
  <2>2. /\ (safely_peek_bits \in 0 .. max_bits)'
        /\ (available \in 0 .. max_bits)' /\ (bits \in 0 .. Two(available) - 1)'
        /\ (peek_bits \in 0 .. max_bits)' /\ (reached = peek_bits)'
        /\ (peek_bits = safely_peek_bits)'
    BY <1>1, <1>3, <1>5, <2>1
  <2> QED BY <1>1, <2>2 DEF DecodeInv
<1>7. CodesInv'
  BY <1>1, <1>2, <1>3, <1>4, <1>6 DEF CodesInv
<1> QED BY <1>1, <1>3, <1>7 DEF HuffInv, Tabled

LEMMA PeekStep ==
  ASSUME HuffInv, Peek
  PROVE  HuffInv'
<1>1. /\ UNCHANGED <<lengths, encoder, table, safely_peek_bits, available, bits>>
      /\ stage = "decode" /\ stage' \in {"short", "invalid", "decoded", "decode"}
      /\ lengths \in [Symbols -> Nat] /\ Wide
  BY DEF Peek, built, filling, HuffInv, Tabled
<1>2. /\ TableInv(All) /\ encoder \in [Symbols -> Nat] /\ \A s \in All : Numbered(s)
      /\ DecodeInv /\ \A s \in All : encoder[s] = CodeOf(s)
  BY <1>1 DEF HuffInv, CodesInv, Tabled
<1>3. /\ All' = All /\ Wide' = Wide /\ max_bits' = max_bits
      /\ \A s : CodeOf(s)' = CodeOf(s)
  BY <1>1, CodesKept
<1>4. TableInv(All)' /\ \A s \in All' : Numbered(s)'
  BY <1>1, <1>2, AllKept
<1>5. /\ safely_peek_bits \in 0 .. max_bits
      /\ available \in 0 .. max_bits /\ bits \in 0 .. Two(available) - 1
      /\ peek_bits \in 0 .. max_bits /\ reached = peek_bits
      /\ \/ peek_bits = safely_peek_bits
         \/ \E q \in 0 .. available, t \in Symbols :
              /\ q < peek_bits /\ table[bits % Two(q)] = t
              /\ lengths[t] = peek_bits
  BY <1>1, <1>2 DEF DecodeInv
<1>6. max_bits \in Nat
  BY <1>1, MaxExists
<1>7. peeked = table[bits % Two(peek_bits)] /\ peeked \in Symbols \cup {None}
  <2>1. bits \in Index
    BY <1>1, <1>5, BitsAreIndex
  <2>2. bits % Two(peek_bits) \in Index
    BY <1>1, <1>5, <2>1, PeekedIs
  <2> QED BY <1>2, <2>2 DEF peeked, Two, TableInv
<1>8. ASSUME peek_bits > available
      PROVE  DecodeInv'
  <2>1. stage' = "short" /\ UNCHANGED <<peek_bits, reached, result>>
    BY <1>8 DEF Peek
  <2> QED BY <1>1, <1>3, <1>5, <1>8, <2>1 DEF DecodeInv
<1>9. ASSUME ~ (peek_bits > available) /\ peeked = None
      PROVE  DecodeInv'
  <2>1. stage' = "invalid" /\ UNCHANGED <<peek_bits, reached, result>>
    BY <1>9 DEF Peek
  <2>2. peeked' = None
    BY <1>1, <1>9, <2>1 DEF peeked
  <2>3. peek_bits <= available
    BY <1>5, <1>6, <1>9
  <2> QED BY <1>1, <1>3, <1>5, <2>1, <2>2, <2>3 DEF DecodeInv
<1>10. ASSUME ~ (peek_bits > available) /\ peeked # None /\ Fits
       PROVE  DecodeInv'
  <2>1. stage' = "decoded" /\ result' = peeked /\ UNCHANGED <<peek_bits, reached>>
    BY <1>10 DEF Peek
  <2>2. peeked' = peeked
    BY <1>1, <2>1 DEF peeked
  <2>3. /\ peek_bits <= available /\ lengths[peeked] <= peek_bits
        /\ peeked \in Symbols
    BY <1>5, <1>6, <1>7, <1>10 DEF Fits
  <2> QED BY <1>1, <1>3, <1>5, <2>1, <2>2, <2>3 DEF DecodeInv
<1>11. ASSUME ~ (peek_bits > available) /\ peeked # None /\ ~ Fits
       PROVE  DecodeInv'
  <2> DEFINE l == lengths[peeked]
  <2>1. stage' = "decode" /\ peek_bits' = l /\ reached' = Max({reached, l})
    BY <1>1, <1>11 DEF Peek
  <2>2. peeked \in Symbols /\ l \in 0 .. max_bits /\ ~ (l <= peek_bits)
    BY <1>1, <1>7, <1>11, Widest DEF Fits
  <2>3. peek_bits \in 0 .. available
    BY <1>5, <1>6, <1>11
  <2>4. peek_bits < l /\ l \in Nat /\ peek_bits \in Nat
    BY <1>5, <1>6, <2>2
  <2> HIDE DEF l
  <2>5. Max({peek_bits, l}) = l
    <3>1. Max({peek_bits, l}) \in {peek_bits, l} /\ l <= Max({peek_bits, l})
      BY <2>4, GreatestOfTwo
    <3> QED BY <2>4, <3>1
  <2>6. reached' = peek_bits'
    BY <1>5, <2>1, <2>5
  <2>7. \E q \in 0 .. available', t \in Symbols :
          /\ q < peek_bits' /\ table'[bits' % Two(q)] = t
          /\ lengths'[t] = peek_bits'
    <3>1. /\ peek_bits < peek_bits' /\ table'[bits' % Two(peek_bits)] = peeked
          /\ lengths'[peeked] = peek_bits'
      BY <1>1, <1>7, <2>1, <2>4 DEF l
    <3>2. peek_bits \in 0 .. available'
      BY <1>1, <2>3
    <3> QED BY <2>2, <3>1, <3>2
  <2> QED BY <1>1, <1>3, <1>5, <2>1, <2>2, <2>6, <2>7 DEF DecodeInv
<1>12. DecodeInv'
  BY <1>8, <1>9, <1>10, <1>11
<1>13. CodesInv'
  BY <1>1, <1>2, <1>3, <1>4, <1>12 DEF CodesInv
<1> QED BY <1>1, <1>3, <1>13 DEF HuffInv, Tabled

LEMMA HuffStep ==
  ASSUME HuffInv, [HNext]_hvars
  PROVE  HuffInv'
<1>1. CASE AssignCode
  BY <1>1, AssignCodeStep
<1>2. CASE BeginTable
  BY <1>2, BeginTableStep
<1>3. CASE FillEntry
  BY <1>3, FillEntryStep
<1>4. CASE Peek
  BY <1>4, PeekStep
<1>5. CASE \E e \in Symbols \cup {None}, p \in SafelyPeek : FillDone(e, p)
  BY <1>5, FillDoneStep
<1>6. CASE \E n \in 0 .. max_bits : \E b \in 0 .. 2 ^ n - 1 : Decode(n, b)
  BY <1>6, DecodeStep
<1>7. CASE UNCHANGED hvars
  <2>1. /\ UNCHANGED <<lengths, entries, code, previous, encoder, table,
                       safely_peek_bits, bits, available, peek_bits, reached,
                       result, stage>>
    BY <1>7 DEF hvars, built, filling, reading
  <2>2. /\ All' = All /\ Wide' = Wide /\ max_bits' = max_bits
        /\ Space(All)' = Space(All) /\ Two(max_bits)' = Two(max_bits)
        /\ \A s : CodeOf(s)' = CodeOf(s)
    BY <2>1, CodesKept
  <2>3. ASSUME CodesInv PROVE CodesInv'
    <3>1. LoopInv => LoopInv' /\ Done' = Done
      BY <2>1, LoopKept
    <3>2. LoopInv /\ TableInv(Done) => TableInv(Done)'
      BY <2>1, FillKept
    <3>3. TableInv(All) /\ (\A s \in All : Numbered(s))
            => TableInv(All)' /\ \A s \in All' : Numbered(s)'
      BY <2>1, AllKept
    <3>4. DecodeInv => DecodeInv'
      <4>1. peeked' = peeked
        BY <2>1 DEF peeked
      <4> QED BY <2>1, <2>2, <4>1 DEF DecodeInv
    <3>5. \A s \in All : encoder[s] = CodeOf(s) => encoder'[s] = CodeOf(s)'
      BY <2>1, <2>2
    <3>6. CASE stage = "codes"
      <4>1. LoopInv /\ \A s \in Done : encoder[s] = CodeOf(s)
        BY <2>3, <3>6 DEF CodesInv
      <4> QED BY <2>1, <2>2, <2>3, <3>1, <3>6, <4>1 DEF CodesInv, Tabled
    <3>7. CASE stage # "codes"
      <4>1. \A s \in All' : encoder'[s] = CodeOf(s)'
        BY <2>1, <2>2, <2>3, <3>7 DEF CodesInv
      <4> QED BY <2>1, <2>3, <3>1, <3>2, <3>3, <3>4, <3>7, <4>1 DEF CodesInv
    <3> QED BY <3>6, <3>7
  <2> QED BY <2>1, <2>2, <2>3 DEF HuffInv
<1> QED BY <1>1, <1>2, <1>3, <1>4, <1>5, <1>6, <1>7 DEF HNext

(* The codes are right in every state the invariant allows.                *)
LEMMA CodesAreRight ==
  ASSUME HuffInv
  PROVE  RefusesNoCode /\ DecodesTheCode
<1>1. RefusesNoCode
  <2>1. ASSUME stage = "ready"
        PROVE  max_bits <= MAX_BITS /\ Kraft(lengths) <= 2 ^ max_bits
    <3>1. Wide /\ TableInv(All)
      BY <2>1 DEF HuffInv, CodesInv, Tabled
    <3> QED BY <3>1, KraftIs DEF TableInv, All, Two, Wide, MAX_BITS
  <2>2. ASSUME stage = "refused"
        PROVE  max_bits = 0 \/ max_bits > MAX_BITS \/ Kraft(lengths) > 2 ^ max_bits
    <3>1. max_bits = 0 \/ max_bits > MAX_BITS \/ (Wide /\ Space(All) > Two(max_bits))
      BY <2>2 DEF HuffInv
    <3> QED BY <3>1, KraftIs DEF All, Two
  <2> QED BY <2>1, <2>2 DEF RefusesNoCode
<1>2. DecodesTheCode
  <2>1. CASE stage \in Tabled
    BY <2>1, DecodesRight DEF HuffInv, CodesInv, Tabled
  <2>2. CASE stage \notin Tabled
    BY <2>2 DEF DecodesTheCode, Tabled
  <2> QED BY <2>1, <2>2
<1> QED BY <1>1, <1>2
=============================================================================
