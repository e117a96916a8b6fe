----------------------------- MODULE DataLemmas -----------------------------
(***************************************************************************)
(* Facts about what is left of a sequence from a place on, and about       *)
(* remainders, which the proofs of several components use.                 *)
(***************************************************************************)
EXTENDS Integers, Sequences, SequenceTheorems, WellFoundedInduction, TLAPS

(* What is behind the first k elements.                                    *)
LEMMA DropProperties ==
  ASSUME NEW S, NEW s \in Seq(S), NEW k \in 0 .. Len(s)
  PROVE  /\ SubSeq(s, k + 1, Len(s)) \in Seq(S)
         /\ Len(SubSeq(s, k + 1, Len(s))) = Len(s) - k
         /\ \A i \in 1 .. Len(s) - k : SubSeq(s, k + 1, Len(s))[i] = s[k + i]
<1>1. Len(s) \in Nat /\ \A i \in k + 1 .. Len(s) : s[i] \in S
  BY ElementOfSeq
<1>2. /\ SubSeq(s, k + 1, Len(s)) \in Seq(S)
      /\ Len(SubSeq(s, k + 1, Len(s)))
           = IF k + 1 <= Len(s) THEN Len(s) - (k + 1) + 1 ELSE 0
      /\ \A i \in 1 .. Len(s) - (k + 1) + 1 :
           SubSeq(s, k + 1, Len(s))[i] = s[k + 1 + i - 1]
  BY <1>1, SubSeqProperties
<1> QED BY <1>1, <1>2

(* The first k elements.                                                   *)
LEMMA TakeProperties ==
  ASSUME NEW S, NEW s \in Seq(S), NEW k \in 0 .. Len(s)
  PROVE  /\ SubSeq(s, 1, k) \in Seq(S)
         /\ Len(SubSeq(s, 1, k)) = k
         /\ \A i \in 1 .. k : SubSeq(s, 1, k)[i] = s[i]
<1>1. Len(s) \in Nat /\ \A i \in 1 .. k : s[i] \in S
  BY ElementOfSeq
<1>2. /\ SubSeq(s, 1, k) \in Seq(S)
      /\ Len(SubSeq(s, 1, k)) = IF 1 <= k THEN k - 1 + 1 ELSE 0
      /\ \A i \in 1 .. k - 1 + 1 : SubSeq(s, 1, k)[i] = s[1 + i - 1]
  BY <1>1, SubSeqProperties
<1> QED BY <1>1, <1>2

(* A sequence is its first k elements and what is behind them.             *)
LEMMA SplitAt ==
  ASSUME NEW S, NEW s \in Seq(S), NEW k \in 0 .. Len(s)
  PROVE  s = SubSeq(s, 1, k) \o SubSeq(s, k + 1, Len(s))
<1>1. SubSeq(s, 1, k) \o SubSeq(s, k + 1, Len(s)) = SubSeq(s, 1, Len(s))
  <2>1. /\ Len(s) \in Nat /\ 1 \in 1 .. Len(s) + 1
        /\ k \in 1 - 1 .. Len(s) /\ Len(s) \in k .. Len(s)
    BY LenProperties
  <2> QED BY <2>1, ConcatAdjacentSubSeq
<1> QED BY <1>1, SubSeqFull

(* What is appended stays behind what is dropped.                          *)
LEMMA DropOfConcat ==
  ASSUME NEW S, NEW s \in Seq(S), NEW t \in Seq(S), NEW k \in 0 .. Len(s)
  PROVE  SubSeq(s \o t, k + 1, Len(s \o t)) = SubSeq(s, k + 1, Len(s)) \o t
<1> DEFINE u == s \o t
           d == SubSeq(s, k + 1, Len(s))
           e == SubSeq(u, k + 1, Len(u))
<1>1. /\ u \in Seq(S) /\ Len(u) = Len(s) + Len(t)
      /\ \A i \in 1 .. Len(s) + Len(t) :
           u[i] = IF i <= Len(s) THEN s[i] ELSE t[i - Len(s)]
  BY ConcatProperties
<1>2. Len(s) \in Nat /\ Len(t) \in Nat /\ k \in 0 .. Len(u)
  BY <1>1, LenProperties
<1> HIDE DEF u
<1>3. /\ d \in Seq(S) /\ Len(d) = Len(s) - k
      /\ \A i \in 1 .. Len(s) - k : d[i] = s[k + i]
  BY DropProperties
<1>4. /\ e \in Seq(S) /\ Len(e) = Len(u) - k
      /\ \A i \in 1 .. Len(u) - k : e[i] = u[k + i]
  BY <1>1, <1>2, DropProperties
<1> HIDE DEF d, e
<1>5. /\ d \o t \in Seq(S) /\ Len(d \o t) = Len(d) + Len(t)
      /\ \A i \in 1 .. Len(d) + Len(t) :
           (d \o t)[i] = IF i <= Len(d) THEN d[i] ELSE t[i - Len(d)]
  BY <1>3, ConcatProperties
<1>6. Len(e) = Len(d \o t)
  BY <1>1, <1>2, <1>3, <1>4, <1>5
<1>7. \A i \in 1 .. Len(e) : e[i] = (d \o t)[i]
  <2> TAKE i \in 1 .. Len(e)
  <2>1. e[i] = u[k + i] /\ k + i \in 1 .. Len(s) + Len(t)
    BY <1>1, <1>2, <1>4
  <2>2. CASE k + i <= Len(s)
    <3>1. e[i] = s[k + i]
      BY <1>1, <2>1, <2>2
    <3>2. i \in 1 .. Len(s) - k
      BY <1>1, <1>2, <1>4, <2>2
    <3>3. (d \o t)[i] = d[i]
      BY <1>2, <1>3, <1>5, <1>6, <3>2
    <3> QED BY <1>3, <3>1, <3>2, <3>3
  <2>3. CASE k + i > Len(s)
    <3>1. e[i] = t[k + i - Len(s)]
      BY <1>1, <1>2, <2>1, <2>3
    <3>2. (d \o t)[i] = t[i - Len(d)]
      BY <1>2, <1>3, <1>5, <1>6, <2>3
    <3>3. i - Len(d) = k + i - Len(s)
      BY <1>2, <1>3
    <3> QED BY <3>1, <3>2, <3>3
  <2>4. k + i <= Len(s) \/ k + i > Len(s)
    BY <1>2, <2>1
  <2> QED BY <2>2, <2>3, <2>4
<1>8. e = d \o t
  BY <1>4, <1>5, <1>6, <1>7, SeqEqual
<1> QED BY <1>8 DEF d, e, u

(* Dropping twice.                                                         *)
LEMMA DropOfDrop ==
  ASSUME NEW S, NEW s \in Seq(S), NEW k \in 0 .. Len(s),
         NEW n \in 0 .. Len(s) - k
  PROVE  SubSeq(SubSeq(s, k + 1, Len(s)), n + 1, Len(s) - k)
           = SubSeq(s, k + n + 1, Len(s))
<1> DEFINE d == SubSeq(s, k + 1, Len(s))
           e == SubSeq(d, n + 1, Len(d))
           f == SubSeq(s, (k + n) + 1, Len(s))
<1>1. Len(s) \in Nat /\ k + n \in 0 .. Len(s)
  BY LenProperties
<1>2. /\ d \in Seq(S) /\ Len(d) = Len(s) - k
      /\ \A i \in 1 .. Len(s) - k : d[i] = s[k + i]
  BY DropProperties
<1>3. /\ f \in Seq(S) /\ Len(f) = Len(s) - (k + n)
      /\ \A i \in 1 .. Len(s) - (k + n) : f[i] = s[k + n + i]
  BY <1>1, DropProperties
<1> HIDE DEF d, f
<1>4. /\ e \in Seq(S) /\ Len(e) = Len(d) - n
      /\ \A i \in 1 .. Len(d) - n : e[i] = d[n + i]
  BY <1>1, <1>2, DropProperties
<1> HIDE DEF e
<1>5. Len(e) = Len(f) /\ \A i \in 1 .. Len(e) : e[i] = f[i]
  <2>1. Len(e) = Len(f)
    BY <1>1, <1>2, <1>3, <1>4
  <2>2. ASSUME NEW i \in 1 .. Len(e) PROVE e[i] = f[i]
    <3>1. e[i] = d[n + i] /\ n + i \in 1 .. Len(s) - k
      BY <1>1, <1>2, <1>4
    <3>2. d[n + i] = s[k + (n + i)] /\ k + (n + i) = k + n + i
      BY <1>1, <1>2, <3>1
    <3> QED BY <1>1, <1>3, <2>1, <3>1, <3>2
  <2> QED BY <2>1, <2>2
<1>6. e = f
  BY <1>3, <1>4, <1>5, SeqEqual
<1> QED BY <1>2, <1>6 DEF d, e, f

(* Taking no element, and one more, to go behind others.                   *)
LEMMA TakeNone ==
  ASSUME NEW S, NEW s \in Seq(S), NEW u \in Seq(S)
  PROVE  s \o SubSeq(u, 1, 0) = s
<1>1. SubSeq(u, 1, 0) = << >>
  BY SubSeqEmpty
<1> QED BY <1>1, ConcatEmptySeq

LEMMA TakeOneMore ==
  ASSUME NEW S, NEW s \in Seq(S), NEW u \in Seq(S), NEW k \in 0 .. Len(u) - 1
  PROVE  /\ s \o SubSeq(u, 1, k) \in Seq(S)
         /\ s \o SubSeq(u, 1, k + 1) = Append(s \o SubSeq(u, 1, k), u[k + 1])
<1> DEFINE t == SubSeq(u, 1, k)
           v == SubSeq(u, 1, k + 1)
           e == u[k + 1]
<1>1. Len(u) \in Nat /\ k \in 0 .. Len(u) /\ k + 1 \in 0 .. Len(u) /\ k \in Nat
      /\ k + 1 \in 1 .. Len(u)
  BY LenProperties
<1>2. t \in Seq(S) /\ Len(t) = k /\ \A i \in 1 .. k : t[i] = u[i]
  BY <1>1, TakeProperties
<1>3. v \in Seq(S) /\ Len(v) = k + 1 /\ \A i \in 1 .. k + 1 : v[i] = u[i]
  BY <1>1, TakeProperties
<1>4. e \in S
  BY <1>1, ElementOfSeq
<1> HIDE DEF t, v, e
<1>5. v = Append(t, e)
  <2>1. /\ Append(t, e) \in Seq(S) /\ Len(Append(t, e)) = k + 1
        /\ \A i \in 1 .. k : Append(t, e)[i] = t[i]
        /\ Append(t, e)[k + 1] = e
    BY <1>2, <1>4, AppendProperties
  <2>2. ASSUME NEW i \in 1 .. k + 1 PROVE v[i] = Append(t, e)[i]
    <3>1. CASE i = k + 1
      BY <1>3, <2>1, <3>1 DEF e
    <3>2. CASE i # k + 1
      <4>1. i \in 1 .. k
        BY <1>1, <3>2
      <4> QED BY <1>2, <1>3, <2>1, <4>1
    <3> QED BY <3>1, <3>2
  <2>3. Len(v) = Len(Append(t, e)) /\ \A i \in 1 .. Len(v) : v[i] = Append(t, e)[i]
    BY <1>3, <2>1, <2>2
  <2> QED BY <1>3, <2>1, <2>3, SeqEqual
<1>6. s \o t \in Seq(S)
  BY <1>2, ConcatProperties
<1>7. s \o Append(t, e) = Append(s \o t, e)
  <2>1. Append(t, e) = t \o <<e>> /\ Append(s \o t, e) = (s \o t) \o <<e>>
    BY <1>2, <1>4, <1>6, AppendIsConcat
  <2>2. <<e>> \in Seq(S)
    BY <1>4
  <2>3. (s \o t) \o <<e>> = s \o (t \o <<e>>)
    BY <1>2, <2>2, ConcatAssociative
  <2> QED BY <2>1, <2>3
<1> QED BY <1>5, <1>6, <1>7 DEF t, v, e
-----------------------------------------------------------------------------
(* Numbers stay numbers when multiplied.                                   *)
LEMMA Product == \A x, y \in Nat : x * y \in Nat
  OBVIOUS

(* A multiple of more is no less.                                          *)
LEMMA Monotone ==
  ASSUME NEW c \in Nat, NEW x \in Nat, NEW y \in Nat, x <= y
  PROVE  c * x <= c * y
<1>1. y - x \in Nat /\ y = x + (y - x)
  OBVIOUS
<1>2. c * y = c * x + c * (y - x)
  BY <1>1
<1>3. c * (y - x) \in Nat
  BY <1>1, Product
<1>4. c * x \in Nat
  BY Product
<1> QED BY <1>2, <1>3, <1>4

(* A number is its remainder and a multiple of the divisor,                *)
LEMMA Division ==
  ASSUME NEW x \in Nat, NEW m \in Nat \ {0}
  PROVE  /\ x % m \in 0 .. m - 1
         /\ x \div m \in Nat
         /\ x = (x % m) + m * (x \div m)
  OBVIOUS

(* and there is only one such remainder, and one such multiple.            *)
LEMMA Remainder ==
  ASSUME NEW m \in Nat \ {0}, NEW k \in Nat, NEW r \in 0 .. m - 1
  PROVE  (r + m * k) % m = r /\ (r + m * k) \div m = k
<1> DEFINE x == r + m * k
           q == x \div m
           s == x % m
<1>1. x \in Nat
  BY Product
<1>2. s \in 0 .. m - 1 /\ q \in Nat /\ x = s + m * q
  BY <1>1, Division
<1>3. CASE q = k
  BY <1>2, <1>3, Product
<1>4. CASE q < k
  <2>1. m * (q + 1) <= m * k
    BY <1>2, <1>4, Monotone
  <2>2. m * (q + 1) = m * q + m /\ m * q \in Nat /\ m * k \in Nat
    BY <1>2, Product
  <2> HIDE DEF q, s
  <2> QED BY <1>2, <2>1, <2>2
<1>5. CASE q > k
  <2>1. m * (k + 1) <= m * q
    BY <1>2, <1>5, Monotone
  <2>2. m * (k + 1) = m * k + m /\ m * q \in Nat /\ m * k \in Nat
    BY <1>2, Product
  <2> HIDE DEF q, s
  <2> QED BY <1>2, <2>1, <2>2
<1> QED BY <1>2, <1>3, <1>4, <1>5

(* A sum may be reduced as it grows.                                       *)
LEMMA RemainderOfSum ==
  ASSUME NEW m \in Nat \ {0}, NEW x \in Nat, NEW y \in Nat
  PROVE  ((x % m) + y) % m = (x + y) % m
<1> DEFINE r == x % m
           q == x \div m
           z == r + y
           s == z % m
           p == z \div m
<1>1. r \in Nat /\ q \in Nat /\ x = r + m * q
  BY Division
<1>2. z \in Nat
  BY <1>1
<1>3. s \in 0 .. m - 1 /\ p \in Nat /\ z = s + m * p
  BY <1>2, Division
<1>4. x + y = s + m * (p + q)
  <2>1. m * (p + q) = m * p + m * q /\ m * p \in Nat /\ m * q \in Nat
    BY <1>1, <1>3, Product
  <2>2. x + y = r + m * q + y /\ z = r + y
    BY <1>1
  <2> HIDE DEF r, q, z, s, p
  <2> QED BY <1>1, <1>3, <2>1, <2>2
<1> HIDE DEF q, s, p
<1>5. (s + m * (p + q)) % m = s
  <2>1. p + q \in Nat
    BY <1>1, <1>3
  <2> QED BY <1>3, <2>1, Remainder
<1> QED BY <1>4, <1>5 DEF s

(* A set of numbers has a least one.                                       *)
LEMMA LeastOf ==
  ASSUME NEW T \in SUBSET Nat, T # {}
  PROVE  \E m \in T : \A k \in T : m <= k
<1>1. PICK m \in T : \A k \in T : ~ (<<k, m>> \in OpToRel(<, Nat))
  BY NatLessThanWellFounded, WFMin
<1>2. ASSUME NEW k \in T PROVE m <= k
  <2>1. ~ (k < m)
    BY <1>1 DEF OpToRel
  <2> QED BY <2>1
<1> QED BY <1>2

(* The place of a byte behind a distance, in steps of the distance.        *)
LEMMA StepBack ==
  ASSUME NEW x \in Nat, NEW d \in Nat \ {0}
  PROVE  /\ x < d => x % d = x
         /\ x >= d => x % d = (x - d) % d
<1>1. x < d => x % d = x
  OBVIOUS
<1>2. ASSUME x >= d PROVE x % d = (x - d) % d
  <2> DEFINE q == (x - d) \div d
             s == (x - d) % d
             t == x \div d
             u == x % d
  <2>1. /\ s \in 0 .. d - 1 /\ q \in Nat /\ x - d = s + d * q
        /\ u \in 0 .. d - 1 /\ t \in Nat /\ x = u + d * t
    <3>1. x - d \in Nat
      BY <1>2
    <3>2. s \in 0 .. d - 1 /\ q \in Nat /\ x - d = s + d * q
      BY <3>1, Division
    <3>3. u \in 0 .. d - 1 /\ t \in Nat /\ x = u + d * t
      BY Division
    <3> QED BY <3>2, <3>3
  <2> HIDE DEF q, s, t, u
  <2>2. x = s + d * (q + 1) /\ d * (q + 1) \in Nat
    BY <2>1
  <2>3. CASE t = q + 1
    BY <2>1, <2>2, <2>3 DEF s, u
  <2>4. CASE t < q + 1
    <3>1. q - t \in Nat /\ q + 1 = t + 1 + (q - t)
      BY <2>1, <2>4
    <3>2. d * (q + 1) = d * t + d + d * (q - t)
          /\ d * (q - t) \in Nat /\ d * t \in Nat
      BY <2>1, <3>1, Product
    <3> QED BY <2>1, <2>2, <3>2
  <2>5. CASE t > q + 1
    <3>1. t - q - 2 \in Nat /\ t = (q + 1) + 1 + (t - q - 2)
      BY <2>1, <2>5
    <3>2. d * t = d * (q + 1) + d + d * (t - q - 2)
          /\ d * (t - q - 2) \in Nat
      BY <2>1, <3>1, Product
    <3> QED BY <2>1, <2>2, <3>2
  <2>6. t = q + 1 \/ t < q + 1 \/ t > q + 1
    BY <2>1
  <2> QED BY <2>3, <2>4, <2>5, <2>6
<1> QED BY <1>1, <1>2

(* What agrees with what is d before it, from n on, repeats the last d     *)
(* elements up to n.                                                       *)
LEMMA Period ==
  ASSUME NEW s, NEW n \in Nat, NEW d \in 1 .. n, NEW k \in Nat,
         \A p \in n + 1 .. n + k : s[p] = s[p - d]
  PROVE  \A i \in 1 .. k : s[n + i] = s[n - d + 1 + ((i - 1) % d)]
<1> DEFINE T == {i \in 1 .. k : s[n + i] # s[n - d + 1 + ((i - 1) % d)]}
<1>1. SUFFICES ASSUME T # {} PROVE FALSE
  OBVIOUS
<1>2. T \in SUBSET Nat
  OBVIOUS
<1>3. PICK m \in T : \A i \in T : m <= i
  BY <1>1, <1>2, LeastOf
<1>4. /\ m \in 1 .. k /\ m - 1 \in Nat /\ d \in Nat \ {0}
      /\ s[n + m] # s[n - d + 1 + ((m - 1) % d)]
  BY <1>3
<1>5. s[n + m] = s[n + m - d]
  BY <1>4
<1>6. CASE m <= d
  <2>1. (m - 1) % d = m - 1
    <3> DEFINE x == m - 1
    <3>1. x \in Nat /\ x < d
      BY <1>4, <1>6
    <3> HIDE DEF x
    <3>2. x % d = x
      BY <1>4, <3>1, StepBack
    <3> QED BY <3>2 DEF x
  <2>2. n - d + 1 + (m - 1) = n + m - d
    BY <1>4
  <2> QED BY <1>4, <1>5, <2>1, <2>2
<1>7. CASE m > d
  <2> DEFINE j == m - d
  <2>1. /\ j \in 1 .. k /\ ~ (m <= j) /\ n + m - d = n + j
    BY <1>4, <1>7
  <2>2. (m - 1) % d = (j - 1) % d
    <3> DEFINE x == m - 1
    <3>1. x \in Nat /\ x >= d /\ j - 1 = x - d
      BY <1>4, <1>7
    <3> HIDE DEF x, j
    <3>2. x % d = (x - d) % d
      BY <1>4, <3>1, StepBack
    <3> QED BY <3>1, <3>2 DEF x
  <2> HIDE DEF j
  <2>3. s[n + j] = s[n - d + 1 + ((j - 1) % d)]
    BY <1>3, <2>1
  <2> QED BY <1>4, <1>5, <2>1, <2>2, <2>3
<1> QED BY <1>4, <1>6, <1>7
-----------------------------------------------------------------------------
(* What is defined step by step, from 0 to N, exists.                      *)
Follows(f, N, step) == \A n \in 1 .. N : f[n] = step[n][f[n - 1]]

Recursions(N, A, first, step) ==
  {f \in [0 .. N -> A] : f[0] = first /\ Follows(f, N, step)}

LEMMA RecursionExists ==
  ASSUME NEW N \in Nat, NEW A, NEW first \in A, NEW step \in [1 .. N -> [A -> A]]
  PROVE  Recursions(N, A, first, step) # {}
<1> DEFINE Upto(n) == \E f \in [0 .. n -> A] :
                        /\ f[0] = first
                        /\ \A m \in 1 .. n : f[m] = step[m][f[m - 1]]
           T == {n \in 0 .. N : ~ Upto(n)}
<1>1. SUFFICES ASSUME T # {} PROVE FALSE
  <2>1. SUFFICES Upto(N)
    BY DEF Recursions, Follows
  <2>2. N \in 0 .. N
    OBVIOUS
  <2> HIDE DEF Upto
  <2> QED BY <2>2
<1>2. T \in SUBSET Nat
  OBVIOUS
<1>3. PICK n \in T : \A m \in T : n <= m
  BY <1>1, <1>2, LeastOf
<1>4. n \in 0 .. N /\ ~ Upto(n)
  BY <1>3
<1>5. CASE n = 0
  <2> DEFINE f == [x \in 0 .. 0 |-> first]
  <2>1. f \in [0 .. 0 -> A] /\ f[0] = first /\ 1 .. 0 = {}
    OBVIOUS
  <2> HIDE DEF f
  <2> QED BY <1>4, <1>5, <2>1
<1>6. CASE n # 0
  <2>1. n - 1 \in 0 .. N /\ ~ (n <= n - 1) /\ n \in 1 .. N
    BY <1>4, <1>6
  <2>2. Upto(n - 1)
    BY <1>3, <2>1
  <2>3. PICK f \in [0 .. n - 1 -> A] :
               /\ f[0] = first
               /\ \A m \in 1 .. n - 1 : f[m] = step[m][f[m - 1]]
    BY <2>2
  <2> DEFINE g == [x \in 0 .. n |-> IF x = n THEN step[n][f[n - 1]] ELSE f[x]]
  <2>4. step[n][f[n - 1]] \in A
    <3>1. n - 1 \in 0 .. n - 1
      BY <2>1
    <3> QED BY <2>1, <3>1
  <2>5. g \in [0 .. n -> A] /\ g[0] = first
    <3>1. \A x \in 0 .. n : x # n => x \in 0 .. n - 1
      BY <2>1
    <3>2. 0 \in 0 .. n /\ 0 # n
      BY <2>1
    <3> QED BY <2>3, <2>4, <3>1, <3>2
  <2>6. ASSUME NEW m \in 1 .. n PROVE g[m] = step[m][g[m - 1]]
    <3>1. m \in 0 .. n /\ m - 1 \in 0 .. n /\ m - 1 # n
      BY <2>1
    <3>2. g[m - 1] = f[m - 1]
      BY <3>1
    <3>3. CASE m = n
      BY <3>1, <3>2, <3>3
    <3>4. CASE m # n
      <4>1. m \in 1 .. n - 1
        BY <2>1, <3>4
      <4>2. g[m] = f[m]
        BY <3>1, <3>4
      <4> QED BY <2>3, <3>2, <4>1, <4>2
    <3> QED BY <3>3, <3>4
  <2> HIDE DEF g
  <2>7. Upto(n)
    BY <2>5, <2>6
  <2> QED BY <1>4, <2>7
<1> QED BY <1>5, <1>6

(* Induction up to a bound.                                                *)
LEMMA UpTo ==
  ASSUME NEW N \in Nat, NEW S, 0 \in S, \A n \in 1 .. N : n - 1 \in S => n \in S
  PROVE  \A n \in 0 .. N : n \in S
<1> DEFINE T == {n \in 0 .. N : n \notin S}
<1>1. SUFFICES ASSUME T # {} PROVE FALSE
  OBVIOUS
<1>2. T \in SUBSET Nat
  OBVIOUS
<1>3. PICK n \in T : \A m \in T : n <= m
  BY <1>1, <1>2, LeastOf
<1>4. n \in 0 .. N /\ n # 0 /\ n \notin S
  BY <1>3
<1>5. n \in 1 .. N /\ n - 1 \in 0 .. N /\ ~ (n <= n - 1)
  BY <1>4
<1>6. n - 1 \in S
  BY <1>3, <1>5
<1> QED BY <1>4, <1>5, <1>6

(* And it is the only one.                                                 *)
LEMMA RecursionUnique ==
  ASSUME NEW N \in Nat, NEW step, NEW f, NEW g,
         f[0] = g[0], Follows(f, N, step), Follows(g, N, step)
  PROVE  \A n \in 0 .. N : f[n] = g[n]
<1> DEFINE T == {n \in 0 .. N : f[n] # g[n]}
<1>1. SUFFICES ASSUME T # {} PROVE FALSE
  OBVIOUS
<1>2. T \in SUBSET Nat
  OBVIOUS
<1>3. PICK n \in T : \A m \in T : n <= m
  BY <1>1, <1>2, LeastOf
<1>4. n \in 1 .. N /\ n - 1 \in 0 .. N /\ ~ (n <= n - 1)
  <2>1. n \in 0 .. N /\ f[n] # g[n]
    BY <1>3
  <2>2. n # 0
    BY <2>1
  <2> QED BY <2>1, <2>2
<1>5. f[n - 1] = g[n - 1]
  BY <1>3, <1>4
<1>6. f[n] = g[n]
  BY <1>4, <1>5 DEF Follows
<1> QED BY <1>3, <1>6
=============================================================================
