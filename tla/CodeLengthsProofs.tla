------------------------- MODULE CodeLengthsProofs -------------------------
(***************************************************************************)
(* Proofs, for every value of the constants, about the code lengths: which *)
(* of them the decoder refuses, that it decodes what the encoder's codes   *)
(* write, that the encoder makes code lengths that are those of a code     *)
(* within the limit, which no decoder refuses, and that no such code is    *)
(* shorter.                                                                *)
(***************************************************************************)
EXTENDS CodesProofs

(* How often the nodes of a list have each symbol.                         *)
Nodes == [symbols : [Symbols -> Nat], weight : Nat]
Never == [s \in Symbols |-> 0]

Contents(nodes) ==
  LET widths[n \in 0 .. Len(nodes)] ==
        IF n = 0 THEN [s \in Symbols |-> 0]
                 ELSE Plus(widths[n - 1], nodes[n].symbols)
  IN widths[Len(nodes)]

Counted(c, nodes) == /\ c \in [0 .. Len(nodes) -> [Symbols -> Nat]] /\ c[0] = Never
                     /\ \A n \in 1 .. Len(nodes) :
                          c[n] = Plus(c[n - 1], nodes[n].symbols)

LEMMA PlusIs ==
  ASSUME NEW a \in [Symbols -> Nat], NEW b \in [Symbols -> Nat]
  PROVE  /\ Plus(a, b) \in [Symbols -> Nat]
         /\ \A s \in Symbols : Plus(a, b)[s] = a[s] + b[s]
BY DEF Plus

LEMMA PlusSwaps ==
  ASSUME NEW a \in [Symbols -> Nat], NEW b \in [Symbols -> Nat], NEW u \in [Symbols -> Nat]
  PROVE  /\ Plus(Plus(a, b), u) = Plus(Plus(a, u), b)
         /\ Plus(Plus(a, b), u) = Plus(a, Plus(b, u))
<1>1. \A s \in Symbols : /\ (a[s] + b[s]) + u[s] = (a[s] + u[s]) + b[s]
                         /\ (a[s] + b[s]) + u[s] = a[s] + (b[s] + u[s])
  OBVIOUS
<1> QED BY <1>1 DEF Plus

LEMMA ContentsExist ==
  ASSUME NEW nodes \in Seq(Nodes)
  PROVE  \E c : Counted(c, nodes) /\ Contents(nodes) = c[Len(nodes)]
<1> DEFINE L == Len(nodes)
           A == [Symbols -> Nat]
           stepped == [n \in 1 .. L |-> [a \in A |-> Plus(a, nodes[n].symbols)]]
           Body(h) == [n \in 0 .. L |->
                         IF n = 0 THEN [s \in Symbols |-> 0]
                         ELSE Plus(h[n - 1], nodes[n].symbols)]
           g == CHOOSE h : h = Body(h)
<1>1. L \in Nat /\ Never \in A
  BY DEF Never
<1>2. \A n \in 1 .. L : nodes[n].symbols \in A
  <2>1. \A n \in 1 .. L : nodes[n] \in Nodes
    OBVIOUS
  <2> HIDE DEF A
  <2>2. \A x \in Nodes : x.symbols \in [Symbols -> Nat]
    BY DEF Nodes
  <2> QED BY <2>1, <2>2 DEF A
<1>3. stepped \in [1 .. L -> [A -> A]]
  BY <1>2, PlusIs
<1>4. PICK f \in [0 .. L -> A] : f[0] = Never /\ \A n \in 1 .. L : f[n] = stepped[n][f[n - 1]]
  <2> HIDE DEF stepped, A, L
  <2>1. Recursions(L, A, Never, stepped) # {}
    BY <1>1, <1>3, RecursionExists
  <2> QED BY <2>1 DEF Recursions, Follows
<1>5. \A n \in 1 .. L : f[n] = Plus(f[n - 1], nodes[n].symbols)
  <2>1. \A n \in 1 .. L : n - 1 \in 0 .. L /\ f[n - 1] \in A
    <3> HIDE DEF A, L, stepped
    <3>1. \A n \in 1 .. L : n - 1 \in 0 .. L
      BY <1>1
    <3> QED BY <1>4, <3>1
  <2> QED BY <1>4, <2>1
<1> HIDE DEF stepped
<1>6. f = Body(f)
  <2>1. ASSUME NEW n \in 0 .. L
        PROVE  f[n] = IF n = 0 THEN [s \in Symbols |-> 0]
                      ELSE Plus(f[n - 1], nodes[n].symbols)
    <3>1. n # 0 => n \in 1 .. L
      BY <1>1
    <3> QED BY <1>4, <1>5, <3>1 DEF Never
  <2> QED BY <1>4, <2>1
<1>7. g = Body(g) /\ Contents(nodes) = g[L]
  <2>1. Contents(nodes) = g[L]
    BY DEF Contents
  <2> HIDE DEF Body
  <2> QED BY <1>6, <2>1
<1> HIDE DEF g
<1>8. \A n \in 0 .. L : g[n] = IF n = 0 THEN [s \in Symbols |-> 0]
                               ELSE Plus(g[n - 1], nodes[n].symbols)
  BY <1>7
<1>9. g[0] = Never /\ \A n \in 1 .. L : g[n] = Plus(g[n - 1], nodes[n].symbols)
  <2>1. 0 \in 0 .. L /\ \A n \in 1 .. L : n # 0 /\ n \in 0 .. L
    BY <1>1
  <2> QED BY <1>8, <2>1 DEF Never
<1>10. \A n \in 0 .. L : n \in {m \in 0 .. L : g[m] = f[m]}
  <2> DEFINE S == {m \in 0 .. L : g[m] = f[m]}
  <2>1. 0 \in S
    BY <1>1, <1>4, <1>9
  <2>2. \A n \in 1 .. L : n - 1 \in S => n \in S
    BY <1>1, <1>5, <1>9
  <2> HIDE DEF S, L
  <2>3. \A n \in 0 .. L : n \in S
    BY <1>1, <2>1, <2>2, UpTo
  <2> QED BY <2>3 DEF S
<1>11. L \in 0 .. L
  BY <1>1
<1>12. Contents(nodes) = f[L]
  BY <1>7, <1>10, <1>11
<1> QED BY <1>4, <1>5, <1>12 DEF Counted

LEMMA CountedIs ==
  ASSUME NEW nodes \in Seq(Nodes), NEW c, Counted(c, nodes)
  PROVE  Contents(nodes) = c[Len(nodes)]
<1> DEFINE L == Len(nodes)
<1>1. PICK f : Counted(f, nodes) /\ Contents(nodes) = f[L]
  BY ContentsExist
<1> DEFINE S == {m \in 0 .. L : c[m] = f[m]}
<1>2. L \in Nat /\ L \in 0 .. L
  OBVIOUS
<1>3. 0 \in S
  BY <1>1, <1>2 DEF Counted
<1>4. \A n \in 1 .. L : n - 1 \in S => n \in S
  BY <1>1, <1>2 DEF Counted
<1>5. \A n \in 0 .. L : n \in S
  <2> HIDE DEF S, L
  <2> QED BY <1>2, <1>3, <1>4, UpTo
<1> QED BY <1>1, <1>2, <1>5

LEMMA ContentsType ==
  ASSUME NEW nodes \in Seq(Nodes)
  PROVE  Contents(nodes) \in [Symbols -> Nat]
<1>1. PICK c : Counted(c, nodes) /\ Contents(nodes) = c[Len(nodes)]
  BY ContentsExist
<1>2. Len(nodes) \in 0 .. Len(nodes)
  OBVIOUS
<1> QED BY <1>1, <1>2 DEF Counted

LEMMA ContentsNone == Contents(<< >>) = Never
<1>1. << >> \in Seq(Nodes) /\ Len(<< >>) = 0
  OBVIOUS
<1>2. PICK c : Counted(c, << >>) /\ Contents(<< >>) = c[Len(<< >>)]
  BY <1>1, ContentsExist
<1> QED BY <1>1, <1>2 DEF Counted

LEMMA ContentsAppend ==
  ASSUME NEW nodes \in Seq(Nodes), NEW x \in Nodes
  PROVE  Contents(Append(nodes, x)) = Plus(Contents(nodes), x.symbols)
<1> DEFINE L == Len(nodes)
           more == Append(nodes, x)
<1>1. PICK c : Counted(c, nodes) /\ Contents(nodes) = c[L]
  BY ContentsExist
<1> DEFINE d == [n \in 0 .. L + 1 |-> IF n = L + 1 THEN Plus(c[L], x.symbols) ELSE c[n]]
<1>2. /\ more \in Seq(Nodes) /\ Len(more) = L + 1 /\ L \in Nat
      /\ more[L + 1] = x /\ \A n \in 1 .. L : more[n] = nodes[n]
  OBVIOUS
<1>3. c \in [0 .. L -> [Symbols -> Nat]] /\ L \in 0 .. L /\ c[L] \in [Symbols -> Nat]
  BY <1>1, <1>2 DEF Counted
<1>4. Plus(c[L], x.symbols) \in [Symbols -> Nat]
  BY <1>3, PlusIs DEF Nodes
<1>5. d \in [0 .. L + 1 -> [Symbols -> Nat]]
  <2>1. \A n \in 0 .. L + 1 : n # L + 1 => n \in 0 .. L
    BY <1>2
  <2> QED BY <1>3, <1>4, <2>1
<1>6. d[0] = Never
  BY <1>1, <1>2 DEF Counted
<1>7. ASSUME NEW n \in 1 .. L + 1
      PROVE  d[n] = Plus(d[n - 1], more[n].symbols)
  <2>1. n - 1 \in 0 .. L /\ n - 1 # L + 1 /\ n \in 0 .. L + 1 /\ n - 1 \in 0 .. L + 1
    BY <1>2
  <2>2. CASE n = L + 1
    <3>1. n - 1 = L
      BY <1>2, <2>2
    <3> QED BY <1>2, <2>1, <2>2, <3>1
  <2>3. CASE n # L + 1
    <3>1. n \in 1 .. L
      BY <1>2, <2>3
    <3> QED BY <1>1, <1>2, <2>1, <2>3, <3>1 DEF Counted
  <2> QED BY <2>2, <2>3
<1>8. d[L + 1] = Plus(c[L], x.symbols)
  BY <1>2
<1> HIDE DEF d
<1>9. Counted(d, more)
  BY <1>2, <1>5, <1>6, <1>7 DEF Counted
<1>10. Contents(more) = d[Len(more)]
  BY <1>2, <1>9, CountedIs
<1> QED BY <1>1, <1>2, <1>8, <1>10

LEMMA BothIs ==
  ASSUME NEW x \in Nodes, NEW y \in Nodes
  PROVE  /\ Both(x, y) \in Nodes /\ Both(x, y).weight = x.weight + y.weight
         /\ Both(x, y).symbols = Plus(x.symbols, y.symbols)
<1>1. /\ x.symbols \in [Symbols -> Nat] /\ y.symbols \in [Symbols -> Nat]
      /\ x.weight \in Nat /\ y.weight \in Nat
  BY DEF Nodes
<1>2. Plus(x.symbols, y.symbols) \in [Symbols -> Nat]
  BY <1>1, PlusIs
<1> HIDE DEF Plus
<1>3. x.weight + y.weight \in Nat
  BY <1>1
<1> QED BY <1>2, <1>3 DEF Both, Nodes

(* Packages are of two nodes each, and an odd node is left out.            *)
LEMMA PackageNodes ==
  ASSUME NEW nodes \in Seq(Nodes), Len(nodes) >= 2
  PROVE  /\ package(nodes) \in Seq(Nodes)
         /\ Len(package(nodes)) = Len(nodes) \div 2
         /\ \A k \in 1 .. Len(nodes) \div 2 :
              package(nodes)[k] = Both(nodes[2 * k - 1], nodes[2 * k])
<1> DEFINE H == Len(nodes) \div 2
           P(k) == Both(nodes[2 * k - 1], nodes[2 * k])
           Body(h) == [n \in 0 .. H |->
                         IF n = 0 THEN << >>
                         ELSE Append(h[n - 1], Both(nodes[2 * n - 1], nodes[2 * n]))]
           g == CHOOSE h : h = Body(h)
           f == [n \in 0 .. H |-> [k \in 1 .. n |-> P(k)]]
<1>1. H \in Nat /\ \A k \in 1 .. H : 2 * k - 1 \in 1 .. Len(nodes) /\ 2 * k \in 1 .. Len(nodes)
  OBVIOUS
<1>2. \A k \in 1 .. H : P(k) \in Nodes
  <2>1. \A i \in 1 .. Len(nodes) : nodes[i] \in Nodes
    OBVIOUS
  <2>2. ASSUME NEW k \in 1 .. H PROVE P(k) \in Nodes
    <3> DEFINE x == nodes[2 * k - 1]
               y == nodes[2 * k]
    <3>1. x \in Nodes /\ y \in Nodes
      BY <1>1, <2>1
    <3> HIDE DEF x, y
    <3>2. Both(x, y) \in Nodes
      BY <3>1, BothIs
    <3> QED BY <3>2 DEF x, y
  <2> QED BY <2>2
<1> HIDE DEF P, H
<1>3. \A n \in 0 .. H : [k \in 1 .. n |-> P(k)] \in Seq(Nodes)
  <2>1. ASSUME NEW n \in 0 .. H PROVE [k \in 1 .. n |-> P(k)] \in Seq(Nodes)
    <3>1. n \in Nat /\ \A k \in 1 .. n : k \in 1 .. H
      BY <1>1
    <3> QED BY <1>2, <3>1
  <2> QED BY <2>1
<1>4. ASSUME NEW n \in 1 .. H
      PROVE  Append([k \in 1 .. n - 1 |-> P(k)], P(n)) = [k \in 1 .. n |-> P(k)]
  <2> DEFINE a == [k \in 1 .. n - 1 |-> P(k)]
             b == [k \in 1 .. n |-> P(k)]
  <2>1. /\ n \in Nat /\ n - 1 \in Nat /\ n - 1 \in 0 .. H /\ n \in 0 .. H
        /\ n \in 1 .. n /\ \A k \in 1 .. n : k # n => k \in 1 .. n - 1
    BY <1>1
  <2>2. a \in Seq(Nodes) /\ b \in Seq(Nodes) /\ Len(a) = n - 1 /\ Len(b) = n
    BY <1>3, <2>1
  <2>3. \A k \in 1 .. n - 1 : a[k] = P(k)
    OBVIOUS
  <2>4. \A k \in 1 .. n : b[k] = P(k)
    OBVIOUS
  <2> HIDE DEF a, b
  <2>5. Append(a, P(n)) \in Seq(Nodes) /\ Len(Append(a, P(n))) = n
    BY <1>2, <2>1, <2>2
  <2>6. \A k \in 1 .. n : Append(a, P(n))[k] = b[k]
    BY <1>2, <2>1, <2>2, <2>3, <2>4
  <2>7. Append(a, P(n)) = b
    BY <2>2, <2>5, <2>6
  <2> QED BY <2>7 DEF a, b
<1>5. f = Body(f)
  <2>1. ASSUME NEW n \in 0 .. H
        PROVE  f[n] = IF n = 0 THEN << >>
                      ELSE Append(f[n - 1], Both(nodes[2 * n - 1], nodes[2 * n]))
    <3>1. CASE n = 0
      <4>1. 1 .. 0 = {}
        OBVIOUS
      <4>2. [k \in 1 .. 0 |-> P(k)] = << >>
        BY <4>1
      <4> QED BY <3>1, <4>2
    <3>2. CASE n # 0
      <4>1. n \in 1 .. H /\ n - 1 \in 0 .. H
        BY <1>1, <3>2
      <4> QED BY <1>4, <3>2, <4>1 DEF P
    <3> QED BY <3>1, <3>2
  <2> HIDE DEF f
  <2>2. f = [n \in 0 .. H |-> f[n]]
    BY DEF f
  <2> QED BY <2>1, <2>2
<1> HIDE DEF f
<1>6. g = Body(g) /\ package(nodes) = g[H]
  <2>1. package(nodes) = g[H]
    BY DEF package, H
  <2> HIDE DEF Body
  <2> QED BY <1>5, <2>1
<1> HIDE DEF g
<1>7. \A n \in 0 .. H : /\ g[n] = IF n = 0 THEN << >>
                                  ELSE Append(g[n - 1], Both(nodes[2 * n - 1], nodes[2 * n]))
                        /\ f[n] = IF n = 0 THEN << >>
                                  ELSE Append(f[n - 1], Both(nodes[2 * n - 1], nodes[2 * n]))
  BY <1>5, <1>6
<1>8. g[H] = f[H]
  <2> DEFINE S == {n \in 0 .. H : g[n] = f[n]}
  <2>1. 0 \in S
    BY <1>1, <1>7
  <2>2. ASSUME NEW n \in 1 .. H, n - 1 \in S PROVE n \in S
    <3>1. n \in 0 .. H /\ n # 0
      BY <1>1
    <3> QED BY <1>7, <2>2, <3>1
  <2> HIDE DEF S
  <2>3. \A n \in 0 .. H : n \in S
    BY <1>1, <2>1, <2>2, UpTo
  <2>4. H \in 0 .. H
    BY <1>1
  <2> QED BY <2>3, <2>4 DEF S
<1>9. package(nodes) = [k \in 1 .. H |-> P(k)]
  <2>1. H \in 0 .. H
    BY <1>1
  <2> QED BY <1>6, <1>8, <2>1 DEF f
<1>10. package(nodes) \in Seq(Nodes) /\ Len(package(nodes)) = H
  <2>1. H \in 0 .. H
    BY <1>1
  <2> QED BY <1>1, <1>3, <1>9, <2>1
<1>11. \A k \in 1 .. H : package(nodes)[k] = P(k)
  BY <1>9
<1> QED BY <1>10, <1>11 DEF H, P

(* What is counted in the packages up to one: each is of two nodes.        *)
LEMMA PackageCounted ==
  ASSUME NEW nodes \in Seq(Nodes), Len(nodes) >= 2, NEW c, Counted(c, nodes)
  PROVE  Counted([k \in 0 .. Len(nodes) \div 2 |-> c[2 * k]], package(nodes))
<1> DEFINE L == Len(nodes)
           H == L \div 2
           p == package(nodes)
           d == [k \in 0 .. H |-> c[2 * k]]
<1>1. /\ Len(p) = H
      /\ \A k \in 1 .. H : p[k] = Both(nodes[2 * k - 1], nodes[2 * k])
  BY PackageNodes
<1>2. /\ L \in Nat /\ H \in Nat /\ 0 \in 0 .. H /\ 2 * 0 = 0
      /\ \A k \in 0 .. H : 2 * k \in 0 .. L
      /\ \A k \in 1 .. H : /\ k - 1 \in 0 .. H /\ k \in 0 .. H
                           /\ 2 * k - 1 \in 1 .. L /\ 2 * k \in 1 .. L
                           /\ 2 * k - 2 \in 0 .. L /\ 2 * k - 1 \in 0 .. L
                           /\ 2 * k - 1 - 1 = 2 * k - 2 /\ 2 * (k - 1) = 2 * k - 2
  OBVIOUS
<1>3. /\ c \in [0 .. L -> [Symbols -> Nat]] /\ c[0] = Never
      /\ \A n \in 1 .. L : c[n] = Plus(c[n - 1], nodes[n].symbols)
  BY DEF Counted
<1>4. \A n \in 1 .. L : nodes[n] \in Nodes
  OBVIOUS
<1>5. \A x \in Nodes : x.symbols \in [Symbols -> Nat]
  BY DEF Nodes
<1> HIDE DEF L, H, p
<1>6. d \in [0 .. H -> [Symbols -> Nat]] /\ d[0] = Never
  BY <1>2, <1>3
<1>7. ASSUME NEW k \in 1 .. H
      PROVE  d[k] = Plus(d[k - 1], p[k].symbols)
  <2> DEFINE x == nodes[2 * k - 1]
             y == nodes[2 * k]
             a == c[2 * k - 2]
             u == x.symbols
             v == y.symbols
  <2>1. d[k] = c[2 * k] /\ d[k - 1] = a
    BY <1>2
  <2>2. c[2 * k] = Plus(c[2 * k - 1], v) /\ c[2 * k - 1] = Plus(a, u)
    BY <1>2, <1>3
  <2>3. x \in Nodes /\ y \in Nodes /\ a \in [Symbols -> Nat]
        /\ u \in [Symbols -> Nat] /\ v \in [Symbols -> Nat]
    BY <1>2, <1>3, <1>4, <1>5
  <2>4. p[k].symbols = Plus(u, v)
    <3>1. p[k] = Both(x, y)
      BY <1>1
    <3> HIDE DEF x, y
    <3> QED BY <2>3, <3>1, BothIs
  <2> HIDE DEF x, y, a, u, v, d
  <2>5. Plus(Plus(a, u), v) = Plus(a, Plus(u, v))
    BY <2>3, PlusSwaps
  <2> QED BY <2>1, <2>2, <2>4, <2>5
<1> HIDE DEF d
<1>8. Counted(d, p)
  BY <1>1, <1>6, <1>7 DEF Counted
<1> QED BY <1>8 DEF d, H, L, p

LEMMA PackageIs ==
  ASSUME NEW nodes \in Seq(Nodes)
  PROVE  /\ package(nodes) \in Seq(Nodes)
         /\ \A s \in Symbols : Contents(package(nodes))[s] <= Contents(nodes)[s]
<1> DEFINE L == Len(nodes)
           H == L \div 2
           p == package(nodes)
<1>1. CASE L < 2
  <2>1. p = nodes
    BY <1>1 DEF package
  <2>2. Contents(nodes) \in [Symbols -> Nat]
    BY ContentsType
  <2> QED BY <2>1, <2>2
<1>2. CASE L >= 2
  <2>1. p \in Seq(Nodes) /\ Len(p) = H
    BY <1>2, PackageNodes
  <2>2. PICK c : Counted(c, nodes) /\ Contents(nodes) = c[L]
    BY ContentsExist
  <2>3. /\ L \in Nat /\ H \in Nat /\ H \in 0 .. H /\ 2 * H \in 0 .. L
        /\ L = 2 * H \/ L = 2 * H + 1
    OBVIOUS
  <2>4. /\ c \in [0 .. L -> [Symbols -> Nat]]
        /\ \A n \in 1 .. L : c[n] = Plus(c[n - 1], nodes[n].symbols)
    BY <2>2 DEF Counted
  <2>5. \A n \in 1 .. L : nodes[n].symbols \in [Symbols -> Nat]
    <3>1. \A n \in 1 .. L : nodes[n] \in Nodes
      OBVIOUS
    <3>2. \A x \in Nodes : x.symbols \in [Symbols -> Nat]
      BY DEF Nodes
    <3> HIDE DEF L
    <3> QED BY <3>1, <3>2
  <2>6. Contents(p) = c[2 * H]
    <3> DEFINE d == [k \in 0 .. H |-> c[2 * k]]
    <3>1. Counted(d, p)
      BY <1>2, <2>2, PackageCounted
    <3>2. d[H] = c[2 * H]
      BY <2>3
    <3> HIDE DEF d, p, H
    <3> QED BY <2>1, <3>1, <3>2, CountedIs
  <2> HIDE DEF L, H, p
  <2>7. \A s \in Symbols : c[2 * H][s] <= c[L][s]
    <3>1. CASE L = 2 * H
      <4>1. c[L] \in [Symbols -> Nat]
        BY <2>3, <2>4, <3>1
      <4>2. c[2 * H] = c[L]
        BY <3>1
      <4>3. \A s \in Symbols : c[L][s] <= c[L][s]
        BY <4>1
      <4> QED BY <4>2, <4>3
    <3>2. CASE L = 2 * H + 1
      <4>1. L \in 1 .. L /\ L - 1 = 2 * H /\ 2 * H \in 0 .. L
        BY <2>3, <3>2
      <4>2. c[2 * H] \in [Symbols -> Nat] /\ nodes[L].symbols \in [Symbols -> Nat]
        BY <2>4, <2>5, <4>1
      <4> DEFINE a == c[2 * H]
                 b == nodes[L].symbols
      <4>3. c[L] = Plus(a, b)
        BY <2>4, <4>1
      <4>4. a \in [Symbols -> Nat] /\ b \in [Symbols -> Nat]
        BY <4>2
      <4> HIDE DEF a, b
      <4>5. \A s \in Symbols : a[s] \in Nat /\ b[s] \in Nat /\ c[L][s] = a[s] + b[s]
        BY <4>3, <4>4, PlusIs, SMTT(30)
      <4>6. \A s \in Symbols : a[s] <= c[L][s]
        BY <4>5
      <4> QED BY <4>6, Zenon DEF a
    <3> QED BY <2>3, <3>1, <3>2
  <2> QED BY <2>1, <2>2, <2>6, <2>7 DEF p
<1> QED BY <1>1, <1>2

(* The lists while they are merged: li of the nodes are of the left one.   *)
MergeAt(left, right, a, n) ==
  /\ a \in [merged : Seq(Nodes), li : Nat] /\ Len(a.merged) = n
  /\ a.li \in 0 .. Len(left) /\ n - a.li \in 0 .. Len(right)

TakesLeft(left, right, a, n) ==
  /\ a.li + 1 \in 1 .. Len(left)
  /\ \/ n - a.li = Len(right)
     \/ /\ n - a.li + 1 \in 1 .. Len(right)
        /\ left[a.li + 1].weight < right[n - a.li + 1].weight
  /\ Merging(left, right, a) = [merged |-> Append(a.merged, left[a.li + 1]), li |-> a.li + 1]

TakesRight(left, right, a, n) ==
  /\ n - a.li + 1 \in 1 .. Len(right)
  /\ \/ a.li = Len(left)
     \/ /\ a.li + 1 \in 1 .. Len(left)
        /\ ~ (left[a.li + 1].weight < right[n - a.li + 1].weight)
  /\ Merging(left, right, a) = [merged |-> Append(a.merged, right[n - a.li + 1]), li |-> a.li]

LEMMA MergingIs ==
  ASSUME NEW left \in Seq(Nodes), NEW right \in Seq(Nodes),
         NEW n \in 0 .. Len(left) + Len(right) - 1, NEW a, MergeAt(left, right, a, n)
  PROVE  /\ TakesLeft(left, right, a, n) \/ TakesRight(left, right, a, n)
         /\ MergeAt(left, right, Merging(left, right, a), n + 1)
<1> DEFINE l == Len(left)
           r == Len(right)
           i == a.li
           j == n - i
<1>1. /\ l \in Nat /\ r \in Nat /\ n \in Nat /\ n < l + r
      /\ i \in 0 .. l /\ j \in 0 .. r /\ n = i + j
  BY DEF MergeAt
<1>2. a.merged \in Seq(Nodes) /\ Len(a.merged) = n
  BY DEF MergeAt
<1>3. Merging(left, right, a) =
        IF j = r \/ (i < l /\ left[i + 1].weight < right[j + 1].weight)
        THEN [merged |-> Append(a.merged, left[i + 1]), li |-> i + 1]
        ELSE [merged |-> Append(a.merged, right[j + 1]), li |-> i]
  BY <1>2 DEF Merging
<1>4. \A k \in 1 .. l : left[k] \in Nodes
  OBVIOUS
<1>5. \A k \in 1 .. r : right[k] \in Nodes
  OBVIOUS
<1> HIDE DEF l, r, i, j
<1>6. CASE j = r \/ (i < l /\ left[i + 1].weight < right[j + 1].weight)
  <2>1. i + 1 \in 1 .. l /\ i + 1 \in 0 .. l /\ n + 1 - (i + 1) = j /\ i + 1 \in Nat
    <3>1. j = r \/ i < l
      BY <1>6
    <3>2. i < l
      BY <1>1, <3>1
    <3> QED BY <1>1, <3>2
  <2>2. left[i + 1] \in Nodes
    BY <1>4, <2>1
  <2>3. Merging(left, right, a) = [merged |-> Append(a.merged, left[i + 1]), li |-> i + 1]
    BY <1>3, <1>6
  <2>4. Append(a.merged, left[i + 1]) \in Seq(Nodes) /\ Len(Append(a.merged, left[i + 1])) = n + 1
    BY <1>2, <2>2
  <2>5. MergeAt(left, right, Merging(left, right, a), n + 1)
    BY <1>1, <2>1, <2>3, <2>4 DEF MergeAt, l, r
  <2>6. j = r \/ (j + 1 \in 1 .. r /\ left[i + 1].weight < right[j + 1].weight)
    BY <1>1, <1>6
  <2>7. TakesLeft(left, right, a, n)
    BY <2>1, <2>3, <2>6 DEF TakesLeft, i, j, l, r
  <2> QED BY <2>5, <2>7
<1>7. CASE ~ (j = r \/ (i < l /\ left[i + 1].weight < right[j + 1].weight))
  <2>1. j + 1 \in 1 .. r /\ j + 1 \in 0 .. r /\ n + 1 - i = j + 1 /\ i \in Nat
    BY <1>1, <1>7
  <2>2. right[j + 1] \in Nodes
    BY <1>5, <2>1
  <2>3. Merging(left, right, a) = [merged |-> Append(a.merged, right[j + 1]), li |-> i]
    BY <1>3, <1>7
  <2>4. Append(a.merged, right[j + 1]) \in Seq(Nodes) /\ Len(Append(a.merged, right[j + 1])) = n + 1
    BY <1>2, <2>2
  <2>5. MergeAt(left, right, Merging(left, right, a), n + 1)
    BY <1>1, <2>1, <2>3, <2>4 DEF MergeAt, l, r
  <2>6. i = l \/ (i + 1 \in 1 .. l /\ ~ (left[i + 1].weight < right[j + 1].weight))
    BY <1>1, <1>7
  <2>7. TakesRight(left, right, a, n)
    BY <2>1, <2>3, <2>6 DEF TakesRight, i, j, l, r
  <2> QED BY <2>5, <2>7
<1> QED BY <1>6, <1>7

Merge(f, left, right) ==
  /\ f[0] = [merged |-> << >>, li |-> 0]
  /\ \A n \in 0 .. Len(left) + Len(right) : MergeAt(left, right, f[n], n)
  /\ \A n \in 1 .. Len(left) + Len(right) :
       /\ f[n] = Merging(left, right, f[n - 1])
       /\ \/ TakesLeft(left, right, f[n - 1], n - 1)
          \/ TakesRight(left, right, f[n - 1], n - 1)

LEMMA MergeExists ==
  ASSUME NEW left \in Seq(Nodes), NEW right \in Seq(Nodes)
  PROVE  \E f : /\ Merge(f, left, right)
                /\ merge_nodes(left, right) = f[Len(left) + Len(right)].merged
<1> DEFINE T == Len(left) + Len(right)
           A == [merged : Seq(Nodes), li : Nat]
           first == [merged |-> << >>, li |-> 0]
           stepped == [n \in 1 .. T |->
                      [a \in A |-> IF MergeAt(left, right, a, n - 1)
                                   THEN Merging(left, right, a) ELSE a]]
           Body(h) == [n \in 0 .. T |->
                         IF n = 0 THEN [merged |-> << >>, li |-> 0]
                         ELSE Merging(left, right, h[n - 1])]
           g == CHOOSE h : h = Body(h)
<1>1. T \in Nat /\ Len(left) \in Nat /\ Len(right) \in Nat
  OBVIOUS
<1>2. first \in A /\ MergeAt(left, right, first, 0)
  <2>1. << >> \in Seq(Nodes) /\ Len(<< >>) = 0
    OBVIOUS
  <2> QED BY <1>1, <2>1 DEF MergeAt
<1> HIDE DEF first, T
<1>3. \A n \in 1 .. T : \A a : MergeAt(left, right, a, n - 1)
        => /\ MergeAt(left, right, Merging(left, right, a), n)
           /\ \/ TakesLeft(left, right, a, n - 1) \/ TakesRight(left, right, a, n - 1)
  <2>1. ASSUME NEW n \in 1 .. T, NEW a, MergeAt(left, right, a, n - 1)
        PROVE  /\ MergeAt(left, right, Merging(left, right, a), n)
               /\ \/ TakesLeft(left, right, a, n - 1) \/ TakesRight(left, right, a, n - 1)
    <3> DEFINE m == n - 1
    <3>1. m \in 0 .. Len(left) + Len(right) - 1 /\ m + 1 = n
      BY <1>1 DEF T
    <3>2. MergeAt(left, right, a, m)
      BY <2>1
    <3> HIDE DEF m
    <3>3. /\ MergeAt(left, right, Merging(left, right, a), m + 1)
          /\ \/ TakesLeft(left, right, a, m) \/ TakesRight(left, right, a, m)
      BY <3>1, <3>2, MergingIs
    <3> QED BY <3>1, <3>3 DEF m
  <2> QED BY <2>1
<1>4. stepped \in [1 .. T -> [A -> A]]
  <2>1. \A n \in 1 .. T, a \in A : MergeAt(left, right, a, n - 1)
          => Merging(left, right, a) \in A
    BY <1>3 DEF MergeAt
  <2> HIDE DEF A
  <2> QED BY <2>1
<1>5. PICK f \in [0 .. T -> A] : f[0] = first /\ \A n \in 1 .. T : f[n] = stepped[n][f[n - 1]]
  <2> HIDE DEF stepped, A
  <2>1. Recursions(T, A, first, stepped) # {}
    BY <1>1, <1>2, <1>4, RecursionExists
  <2> QED BY <2>1 DEF Recursions, Follows
<1>6. \A n \in 0 .. T : MergeAt(left, right, f[n], n)
  <2> DEFINE S == {n \in 0 .. T : MergeAt(left, right, f[n], n)}
  <2>1. 0 \in S
    BY <1>1, <1>2, <1>5
  <2>2. ASSUME NEW n \in 1 .. T, n - 1 \in S PROVE n \in S
    <3>1. n \in 0 .. T /\ f[n - 1] \in A
      <4> HIDE DEF A, stepped
      <4>1. n \in 0 .. T /\ n - 1 \in 0 .. T
        BY <1>1
      <4> QED BY <1>5, <4>1
    <3>2. f[n] = Merging(left, right, f[n - 1])
      <4> HIDE DEF A
      <4> QED BY <1>5, <2>2, <3>1
    <3> QED BY <1>3, <2>2, <3>1, <3>2
  <2> HIDE DEF S
  <2>3. \A n \in 0 .. T : n \in S
    BY <1>1, <2>1, <2>2, UpTo
  <2> QED BY <2>3 DEF S
<1>7. \A n \in 1 .. T : n - 1 \in 0 .. T /\ f[n] = Merging(left, right, f[n - 1])
  <2> SUFFICES ASSUME NEW n \in 1 .. T
               PROVE  n - 1 \in 0 .. T /\ f[n] = Merging(left, right, f[n - 1])
    OBVIOUS
  <2>1. n - 1 \in 0 .. T
    BY <1>1
  <2>2. MergeAt(left, right, f[n - 1], n - 1) /\ f[n - 1] \in A
    <3> HIDE DEF A, stepped
    <3> QED BY <1>5, <1>6, <2>1
  <2> HIDE DEF A
  <2> QED BY <1>5, <2>1, <2>2
<1> HIDE DEF stepped, A
<1>8. f = Body(f)
  <2>1. ASSUME NEW n \in 0 .. T
        PROVE  f[n] = IF n = 0 THEN [merged |-> << >>, li |-> 0]
                      ELSE Merging(left, right, f[n - 1])
    <3>1. n # 0 => n \in 1 .. T
      BY <1>1
    <3> QED BY <1>5, <1>7, <3>1 DEF first
  <2> QED BY <1>5, <2>1
<1>9. g = Body(g) /\ merge_nodes(left, right) = g[T].merged
  <2>1. merge_nodes(left, right) = g[T].merged
    BY DEF merge_nodes, T
  <2> HIDE DEF Body
  <2> QED BY <1>8, <2>1
<1> HIDE DEF g
<1>10. \A n \in 0 .. T : g[n] = IF n = 0 THEN [merged |-> << >>, li |-> 0]
                                ELSE Merging(left, right, g[n - 1])
  BY <1>9
<1>11. g[T] = f[T]
  <2> DEFINE S == {n \in 0 .. T : g[n] = f[n]}
  <2>1. 0 \in S
    BY <1>1, <1>5, <1>10 DEF first
  <2>2. ASSUME NEW n \in 1 .. T, n - 1 \in S PROVE n \in S
    <3>1. n \in 0 .. T /\ n # 0
      BY <1>1
    <3> QED BY <1>7, <1>10, <2>2, <3>1
  <2> HIDE DEF S
  <2>3. \A n \in 0 .. T : n \in S
    BY <1>1, <2>1, <2>2, UpTo
  <2>4. T \in 0 .. T
    BY <1>1
  <2> QED BY <2>3, <2>4 DEF S
<1>12. \A n \in 1 .. T : \/ TakesLeft(left, right, f[n - 1], n - 1)
                         \/ TakesRight(left, right, f[n - 1], n - 1)
  BY <1>3, <1>6, <1>7
<1>13. Merge(f, left, right)
  BY <1>5, <1>6, <1>7, <1>12 DEF Merge, first, T
<1> QED BY <1>9, <1>11, <1>13 DEF T

(* A list merged of two: the first n of its nodes are the first at[n] of   *)
(* the left list and the first n - at[n] of the right one.                 *)
Interleaves(out, at, left, right) ==
  LET l == Len(left)  r == Len(right)
  IN  /\ out \in Seq(Nodes) /\ Len(out) = l + r
      /\ at[0] = 0
      /\ \A n \in 0 .. l + r : at[n] \in 0 .. l /\ n - at[n] \in 0 .. r
      /\ \A n \in 1 .. l + r :
           \/ /\ at[n] = at[n - 1] + 1 /\ out[n] = left[at[n]]
              /\ \/ n - at[n] = r
                 \/ left[at[n]].weight < right[n - at[n] + 1].weight
           \/ /\ at[n] = at[n - 1] /\ out[n] = right[n - at[n]]
              /\ \/ at[n] = l
                 \/ ~ (left[at[n] + 1].weight < right[n - at[n]].weight)

LEMMA InterleavesExist ==
  ASSUME NEW left \in Seq(Nodes), NEW right \in Seq(Nodes)
  PROVE  \E at : Interleaves(merge_nodes(left, right), at, left, right)
<1> DEFINE l == Len(left)
           r == Len(right)
           T == l + r
<1>1. PICK f : Merge(f, left, right) /\ merge_nodes(left, right) = f[T].merged
  BY MergeExists
<1> DEFINE out == f[T].merged
           at == [n \in 0 .. T |-> f[n].li]
<1>2. l \in Nat /\ r \in Nat /\ T \in Nat /\ T \in 0 .. T /\ 0 \in 0 .. T
  OBVIOUS
<1>3. /\ f[0] = [merged |-> << >>, li |-> 0]
      /\ \A n \in 0 .. T : MergeAt(left, right, f[n], n)
      /\ \A n \in 1 .. T : f[n] = Merging(left, right, f[n - 1])
      /\ \A n \in 1 .. T : \/ TakesLeft(left, right, f[n - 1], n - 1)
                           \/ TakesRight(left, right, f[n - 1], n - 1)
  BY <1>1 DEF Merge
<1>4. \A n \in 0 .. T : /\ f[n].merged \in Seq(Nodes) /\ Len(f[n].merged) = n
                        /\ at[n] \in 0 .. l /\ n - at[n] \in 0 .. r /\ at[n] = f[n].li
  BY <1>3 DEF MergeAt
<1>5. at[0] = 0
  BY <1>2, <1>3
<1> HIDE DEF l, r, T, at
<1>6. ASSUME NEW n \in 1 .. T
      PROVE  LET x == f[n].merged[n] IN
             /\ \/ /\ at[n] = at[n - 1] + 1 /\ x = left[at[n]]
                   /\ \/ n - at[n] = r
                      \/ left[at[n]].weight < right[n - at[n] + 1].weight
                \/ /\ at[n] = at[n - 1] /\ x = right[n - at[n]]
                   /\ \/ at[n] = l
                      \/ ~ (left[at[n] + 1].weight < right[n - at[n]].weight)
             /\ \A k \in 1 .. n - 1 : f[n].merged[k] = f[n - 1].merged[k]
  <2> DEFINE m == n - 1
             w == f[m]
             i == at[m]
             j == m - i
             x == f[n].merged[n]
  <2>1. n \in 0 .. T /\ m \in 0 .. T /\ m \in Nat /\ m + 1 = n
    BY <1>2
  <2>2. /\ w.merged \in Seq(Nodes) /\ Len(w.merged) = m /\ i \in 0 .. l /\ j \in 0 .. r
        /\ i = w.li
    BY <1>4, <2>1
  <2>3. TakesLeft(left, right, w, m) \/ TakesRight(left, right, w, m)
    BY <1>3
  <2>4. f[n] = Merging(left, right, w) /\ at[n] = f[n].li
    BY <1>3, <1>4, <2>1
  <2>5. \A y : /\ Append(w.merged, y)[n] = y
               /\ \A k \in 1 .. m : Append(w.merged, y)[k] = w.merged[k]
    BY <2>1, <2>2
  <2> HIDE DEF w, i, m
  <2>6. CASE TakesLeft(left, right, w, m)
    <3>1. /\ f[n].merged = Append(w.merged, left[i + 1]) /\ at[n] = i + 1
          /\ \/ j = r
             \/ left[i + 1].weight < right[j + 1].weight
      BY <2>2, <2>4, <2>6 DEF TakesLeft, r
    <3>2. n - (i + 1) = j
      <4>1. i \in Nat /\ n = m + 1 /\ m \in Nat
        BY <1>2, <2>1, <2>2
      <4> QED BY <4>1
    <3>3. x = left[at[n]]
      BY <2>5, <3>1
    <3>4. at[n] = i + 1 /\ (n - at[n] = r \/ left[at[n]].weight < right[n - at[n] + 1].weight)
      BY <3>1, <3>2
    <3>5. \A k \in 1 .. m : f[n].merged[k] = w.merged[k]
      BY <2>5, <3>1
    <3> QED BY <3>3, <3>4, <3>5 DEF w, i, m
  <2>7. CASE TakesRight(left, right, w, m)
    <3>1. /\ f[n].merged = Append(w.merged, right[j + 1]) /\ at[n] = i
          /\ \/ i = l
             \/ ~ (left[i + 1].weight < right[j + 1].weight)
      BY <2>2, <2>4, <2>7, SMTT(30) DEF TakesRight, l
    <3>2. n - i = j + 1
      BY <1>2, <2>1, <2>2, SMTT(30)
    <3>3. x = right[n - at[n]]
      BY <2>5, <3>1, <3>2
    <3>4. at[n] = i /\ (at[n] = l \/ ~ (left[at[n] + 1].weight < right[n - at[n]].weight))
      BY <3>1, <3>2
    <3>5. \A k \in 1 .. m : f[n].merged[k] = w.merged[k]
      BY <2>5, <3>1
    <3> QED BY <3>3, <3>4, <3>5 DEF w, i, m
  <2> QED BY <2>3, <2>6, <2>7
<1>7. ASSUME NEW k \in 1 .. T
      PROVE  out[k] = f[k].merged[k]
  <2> DEFINE S == {n \in 0 .. T : n >= k => f[n].merged[k] = f[k].merged[k]}
  <2>1. 0 \in S
    BY <1>2
  <2>2. ASSUME NEW n \in 1 .. T, n - 1 \in S PROVE n \in S
    <3>1. n \in 0 .. T
      BY <1>2
    <3>2. CASE n <= k
      <4>1. n >= k => n = k
        BY <1>2, <3>2
      <4> QED BY <3>1, <4>1
    <3>3. CASE ~ (n <= k)
      <4>1. k \in 1 .. n - 1 /\ n - 1 >= k
        BY <1>2, <3>3
      <4>2. f[n].merged[k] = f[n - 1].merged[k]
        BY <1>6, <4>1
      <4> QED BY <2>2, <3>1, <4>1, <4>2
    <3> QED BY <3>2, <3>3
  <2> HIDE DEF S
  <2>3. \A n \in 0 .. T : n \in S
    BY <1>2, <2>1, <2>2, UpTo
  <2>4. T \in S /\ T >= k
    BY <1>2, <2>3
  <2> QED BY <2>4 DEF S
<1>8. out \in Seq(Nodes) /\ Len(out) = T
  BY <1>2, <1>4
<1> HIDE DEF out
<1>9. ASSUME NEW n \in 1 .. T
      PROVE  \/ /\ at[n] = at[n - 1] + 1 /\ out[n] = left[at[n]]
                /\ \/ n - at[n] = r
                   \/ left[at[n]].weight < right[n - at[n] + 1].weight
             \/ /\ at[n] = at[n - 1] /\ out[n] = right[n - at[n]]
                /\ \/ at[n] = l
                   \/ ~ (left[at[n] + 1].weight < right[n - at[n]].weight)
  BY <1>6, <1>7
<1>10. Interleaves(out, at, left, right)
  BY <1>4, <1>5, <1>8, <1>9 DEF Interleaves, l, r, T
<1> QED BY <1>1, <1>10 DEF out

(* What is counted in a merged list up to a place.                         *)
LEMMA MergeCounted ==
  ASSUME NEW left \in Seq(Nodes), NEW right \in Seq(Nodes), NEW out, NEW at,
         Interleaves(out, at, left, right),
         NEW a, Counted(a, left), NEW b, Counted(b, right)
  PROVE  Counted([n \in 0 .. Len(left) + Len(right) |-> Plus(a[at[n]], b[n - at[n]])], out)
<1> DEFINE l == Len(left)
           r == Len(right)
           T == l + r
           d == [n \in 0 .. T |-> Plus(a[at[n]], b[n - at[n]])]
<1>1. l \in Nat /\ r \in Nat /\ T \in Nat /\ 0 \in 0 .. T
  OBVIOUS
<1>2. /\ \A n \in 1 .. l : left[n].symbols \in [Symbols -> Nat]
      /\ \A n \in 1 .. r : right[n].symbols \in [Symbols -> Nat]
  <2>1. \A x \in Nodes : x.symbols \in [Symbols -> Nat]
    BY DEF Nodes
  <2> QED BY <2>1
<1>3. /\ a \in [0 .. l -> [Symbols -> Nat]] /\ a[0] = Never
      /\ \A n \in 1 .. l : a[n] = Plus(a[n - 1], left[n].symbols)
      /\ b \in [0 .. r -> [Symbols -> Nat]] /\ b[0] = Never
      /\ \A n \in 1 .. r : b[n] = Plus(b[n - 1], right[n].symbols)
  BY DEF Counted
<1>4. /\ Len(out) = T /\ at[0] = 0
      /\ \A n \in 0 .. T : at[n] \in 0 .. l /\ n - at[n] \in 0 .. r
      /\ \A n \in 1 .. T : \/ at[n] = at[n - 1] + 1 /\ out[n] = left[at[n]]
                           \/ at[n] = at[n - 1] /\ out[n] = right[n - at[n]]
  BY DEF Interleaves
<1> HIDE DEF l, r, T
<1>5. \A n \in 0 .. T : d[n] = Plus(a[at[n]], b[n - at[n]])
  OBVIOUS
<1>6. \A n \in 0 .. T : d[n] \in [Symbols -> Nat]
  BY <1>3, <1>4, PlusIs
<1>7. d \in [0 .. T -> [Symbols -> Nat]]
  BY <1>6
<1>8. d[0] = Never
  <2>1. Plus(Never, Never) = Never
    <3>1. \A s \in Symbols : Never[s] + Never[s] = Never[s]
      BY DEF Never
    <3> QED BY <3>1 DEF Never, Plus
  <2>2. 0 - 0 = 0
    OBVIOUS
  <2> HIDE DEF d
  <2> QED BY <1>1, <1>3, <1>4, <1>5, <2>1, <2>2
<1>9. ASSUME NEW n \in 1 .. T
      PROVE  d[n] = Plus(d[n - 1], out[n].symbols)
  <2> DEFINE m == n - 1
             i == at[m]
             j == m - i
             u == a[i]
             v == b[j]
  <2>1. /\ n \in 0 .. T /\ m \in 0 .. T /\ m \in Nat /\ n = m + 1
        /\ i \in 0 .. l /\ j \in 0 .. r /\ at[n] \in 0 .. l /\ n - at[n] \in 0 .. r
    BY <1>1, <1>4
  <2>2. d[m] = Plus(u, v) /\ u \in [Symbols -> Nat] /\ v \in [Symbols -> Nat]
    BY <1>3, <1>5, <2>1
  <2>3. \/ at[n] = i + 1 /\ out[n] = left[i + 1]
        \/ at[n] = i /\ out[n] = right[n - i]
    BY <1>4
  <2>4. d[n] = Plus(a[at[n]], b[n - at[n]])
    BY <1>5, <2>1
  <2>5. m = i + j /\ i \in Nat /\ j \in Nat
    BY <1>1, <2>1
  <2> DEFINE x == out[n].symbols
  <2> HIDE DEF d, m, i, j, u, v
  <2>6. CASE at[n] = i + 1 /\ out[n] = left[i + 1]
    <3>1. n - at[n] = j /\ i + 1 \in 1 .. l /\ (i + 1) - 1 = i
      BY <1>1, <2>1, <2>5, <2>6
    <3>2. a[i + 1] = Plus(u, x) /\ x \in [Symbols -> Nat]
      BY <1>2, <1>3, <2>6, <3>1 DEF u
    <3> HIDE DEF x
    <3>3. d[n] = Plus(Plus(u, x), v)
      BY <2>4, <2>6, <3>1, <3>2 DEF v
    <3>4. Plus(Plus(u, v), x) = Plus(Plus(u, x), v)
      BY <2>2, <3>2, PlusSwaps
    <3> QED BY <2>2, <3>3, <3>4 DEF x, m
  <2>7. CASE at[n] = i /\ out[n] = right[n - i]
    <3>1. n - at[n] = j + 1 /\ n - i = j + 1 /\ j + 1 \in 1 .. r /\ (j + 1) - 1 = j
      BY <1>1, <2>1, <2>5, <2>7
    <3>2. b[j + 1] = Plus(v, x) /\ x \in [Symbols -> Nat]
      BY <1>2, <1>3, <2>7, <3>1 DEF v
    <3> HIDE DEF x
    <3>3. d[n] = Plus(u, Plus(v, x))
      BY <2>4, <2>7, <3>1, <3>2 DEF u
    <3>4. Plus(Plus(u, v), x) = Plus(u, Plus(v, x))
      BY <2>2, <3>2, PlusSwaps
    <3> QED BY <2>2, <3>3, <3>4 DEF x, m
  <2> QED BY <2>3, <2>6, <2>7
<1>10. Counted(d, out)
  <2> HIDE DEF d
  <2> QED BY <1>4, <1>7, <1>8, <1>9 DEF Counted
<1> QED BY <1>10 DEF T, l, r

LEMMA MergeIs ==
  ASSUME NEW left \in Seq(Nodes), NEW right \in Seq(Nodes)
  PROVE  /\ merge_nodes(left, right) \in Seq(Nodes)
         /\ Len(merge_nodes(left, right)) = Len(left) + Len(right)
         /\ Contents(merge_nodes(left, right)) = Plus(Contents(left), Contents(right))
<1> DEFINE l == Len(left)
           r == Len(right)
           T == l + r
           out == merge_nodes(left, right)
<1>1. PICK at : Interleaves(out, at, left, right)
  BY InterleavesExist
<1>2. PICK a : Counted(a, left) /\ Contents(left) = a[l]
  BY ContentsExist
<1>3. PICK b : Counted(b, right) /\ Contents(right) = b[r]
  BY ContentsExist
<1> DEFINE d == [n \in 0 .. T |-> Plus(a[at[n]], b[n - at[n]])]
<1>4. Counted(d, out)
  BY <1>1, <1>2, <1>3, MergeCounted
<1>5. /\ out \in Seq(Nodes) /\ Len(out) = T
      /\ \A n \in 0 .. T : at[n] \in 0 .. l /\ n - at[n] \in 0 .. r
  BY <1>1 DEF Interleaves
<1>6. l \in Nat /\ r \in Nat /\ T \in 0 .. T /\ T = l + r
  OBVIOUS
<1> HIDE DEF out, l, r, T
<1>7. at[T] = l /\ T - at[T] = r
  <2> DEFINE i == at[T]
  <2>1. i \in 0 .. l /\ T - i \in 0 .. r
    BY <1>5, <1>6
  <2> HIDE DEF i
  <2>2. i = l /\ T - i = r
    BY <1>6, <2>1
  <2> QED BY <2>2 DEF i
<1>8. d[T] = Plus(a[l], b[r])
  BY <1>6, <1>7
<1> HIDE DEF d
<1>9. Contents(out) = d[T]
  BY <1>4, <1>5, CountedIs
<1> QED BY <1>2, <1>3, <1>5, <1>8, <1>9 DEF out, T, l, r

(* The symbols that occur, sorted: those that are left come behind.        *)
InOrder(f, sorted) ==
  /\ sorted \in Seq(Symbols)
  /\ \A i \in 1 .. Len(sorted) : sorted[i] \in Used(f)
  /\ \A i, j \in 1 .. Len(sorted) : i < j => Earlier(f, sorted[i], sorted[j])
  /\ \A i \in 1 .. Len(sorted), t \in Used(f) :
       (\A j \in 1 .. Len(sorted) : t # sorted[j]) => Earlier(f, sorted[i], t)

Left(f, sorted) == {t \in Used(f) : \A i \in 1 .. Len(sorted) : t # sorted[i]}

LEMMA WithNextIs ==
  ASSUME NEW f \in [Symbols -> Nat], NEW sorted, InOrder(f, sorted)
  PROVE  /\ InOrder(f, WithNext(f, sorted))
         /\ Left(f, sorted) = {} => WithNext(f, sorted) = sorted
         /\ Left(f, sorted) # {} =>
              /\ Len(WithNext(f, sorted)) = Len(sorted) + 1
              /\ \E t \in Left(f, sorted) : Left(f, WithNext(f, sorted)) = Left(f, sorted) \ {t}
<1> DEFINE L == Len(sorted)
           left == Left(f, sorted)
           s == First(f, left)
           more == Append(sorted, s)
<1>1. /\ sorted \in Seq(Symbols) /\ L \in Nat
      /\ \A i \in 1 .. L : sorted[i] \in Used(f)
      /\ \A i, j \in 1 .. L : i < j => Earlier(f, sorted[i], sorted[j])
      /\ \A i \in 1 .. L, t \in left : Earlier(f, sorted[i], t)
  BY DEF InOrder, Left
<1>2. WithNext(f, sorted) = IF left = {} THEN sorted ELSE more
  <2>1. Range(sorted) = {sorted[i] : i \in 1 .. L}
    BY <1>1 DEF Range
  <2>2. Used(f) \ Range(sorted) = left
    BY <2>1 DEF Left
  <2> QED BY <2>2 DEF WithNext
<1>3. left \subseteq Used(f) /\ Used(f) \subseteq Symbols
  BY DEF Left, Used
<1>4. CASE left = {}
  BY <1>2, <1>4
<1>5. CASE left # {}
  <2>1. left \in SUBSET Symbols
    BY <1>3
  <2> HIDE DEF left
  <2>2. s \in left /\ \A t \in left \ {s} : Earlier(f, s, t)
    BY <1>5, <2>1, FirstExists
  <2>3. s \in Used(f) /\ s \in Symbols
    BY <1>3, <2>2
  <2> HIDE DEF s, L
  <2>4. /\ more \in Seq(Symbols) /\ Len(more) = L + 1 /\ more[L + 1] = s
        /\ \A i \in 1 .. L : more[i] = sorted[i]
    BY <1>1, <2>3 DEF L
  <2>5. Left(f, more) = left \ {s}
    <3>1. \A i : i \in 1 .. L + 1 <=> i \in 1 .. L \/ i = L + 1
      BY <1>1
    <3>2. \A t : (\A i \in 1 .. L + 1 : t # more[i])
                   <=> t # s /\ \A i \in 1 .. L : t # sorted[i]
      BY <2>4, <3>1
    <3> HIDE DEF more
    <3> QED BY <2>4, <3>2 DEF Left, left, L
  <2>6. \A i \in 1 .. Len(more) : more[i] \in Used(f)
    <3>1. \A i \in 1 .. Len(more) : i \in 1 .. L \/ i = L + 1
      BY <1>1, <2>4
    <3> QED BY <1>1, <2>3, <2>4, <3>1
  <2>7. ASSUME NEW i \in 1 .. Len(more), NEW j \in 1 .. Len(more), i < j
        PROVE  Earlier(f, more[i], more[j])
    <3>1. i \in 1 .. L /\ (j \in 1 .. L \/ j = L + 1)
      BY <1>1, <2>4, <2>7
    <3> QED BY <1>1, <2>2, <2>4, <2>7, <3>1
  <2>8. ASSUME NEW i \in 1 .. Len(more), NEW t \in Used(f),
               \A j \in 1 .. Len(more) : t # more[j]
        PROVE  Earlier(f, more[i], t)
    <3>1. t \in left \ {s}
      BY <2>5, <2>8 DEF Left
    <3>2. i \in 1 .. L \/ i = L + 1
      BY <1>1, <2>4
    <3> QED BY <1>1, <2>2, <2>4, <3>1, <3>2
  <2>9. InOrder(f, more)
    BY <2>4, <2>6, <2>7, <2>8 DEF InOrder
  <2> HIDE DEF more
  <2>10. WithNext(f, sorted) = more
    BY <1>2, <1>5
  <2>11. Len(more) = L + 1
    BY <2>4 DEF more
  <2> QED BY <1>5, <2>2, <2>5, <2>9, <2>10, <2>11 DEF left, L
<1> QED BY <1>4, <1>5

Sorting(g, f) ==
  /\ g[0] = << >>
  /\ \A n \in 0 .. N : InOrder(f, g[n])
  /\ \A n \in 1 .. N : g[n] = WithNext(f, g[n - 1])

Node(f, s) == [symbols |-> [u \in Symbols |-> IF u = s THEN 1 ELSE 0], weight |-> f[s]]

LEMMA SortedExists ==
  ASSUME NEW f \in [Symbols -> Nat]
  PROVE  \E g : /\ Sorting(g, f)
                /\ Source(f) = [i \in 1 .. Len(g[N]) |-> Node(f, g[N][i])]
<1> DEFINE A == {sorted \in Seq(Symbols) : InOrder(f, sorted)}
           stepped == [n \in 1 .. N |-> [sorted \in A |-> WithNext(f, sorted)]]
           Body(h) == [n \in 0 .. N |-> IF n = 0 THEN << >> ELSE WithNext(f, h[n - 1])]
           g == CHOOSE h : h = Body(h)
<1>1. N \in Nat
  BY HuffmanAssumption
<1>2. << >> \in A
  <2>1. << >> \in Seq(Symbols) /\ Len(<< >>) = 0 /\ 1 .. 0 = {}
    OBVIOUS
  <2> QED BY <2>1 DEF InOrder
<1>3. stepped \in [1 .. N -> [A -> A]]
  <2>1. \A sorted \in A : InOrder(f, WithNext(f, sorted))
    BY WithNextIs
  <2>2. \A sorted \in A : WithNext(f, sorted) \in A
    BY <2>1 DEF InOrder
  <2> HIDE DEF A
  <2> QED BY <2>2
<1>4. PICK h \in [0 .. N -> A] : h[0] = << >> /\ \A n \in 1 .. N : h[n] = stepped[n][h[n - 1]]
  <2> HIDE DEF stepped, A
  <2>1. Recursions(N, A, << >>, stepped) # {}
    BY <1>1, <1>2, <1>3, RecursionExists
  <2> QED BY <2>1 DEF Recursions, Follows
<1>5. \A n \in 1 .. N : n - 1 \in 0 .. N /\ h[n] = WithNext(f, h[n - 1])
  <2> SUFFICES ASSUME NEW n \in 1 .. N
               PROVE  n - 1 \in 0 .. N /\ h[n] = WithNext(f, h[n - 1])
    OBVIOUS
  <2>1. n - 1 \in 0 .. N /\ h[n - 1] \in A
    <3> HIDE DEF A, stepped
    <3>1. n - 1 \in 0 .. N
      BY <1>1
    <3> QED BY <1>4, <3>1
  <2> HIDE DEF A
  <2> QED BY <1>4, <2>1
<1> HIDE DEF stepped
<1>6. h = Body(h)
  <2>1. ASSUME NEW n \in 0 .. N
        PROVE  h[n] = IF n = 0 THEN << >> ELSE WithNext(f, h[n - 1])
    <3>1. n # 0 => n \in 1 .. N
      BY <1>1
    <3> QED BY <1>4, <1>5, <3>1
  <2> HIDE DEF A
  <2> QED BY <1>4, <2>1
<1>7. /\ g = Body(g)
      /\ Source(f) = [i \in DOMAIN g[N] |->
                        [symbols |-> [s \in Symbols |-> IF s = g[N][i] THEN 1 ELSE 0],
                         weight  |-> f[g[N][i]]]]
  <2>1. Source(f) = [i \in DOMAIN g[N] |->
                        [symbols |-> [s \in Symbols |-> IF s = g[N][i] THEN 1 ELSE 0],
                         weight  |-> f[g[N][i]]]]
    BY DEF Source
  <2> HIDE DEF Body
  <2> QED BY <1>6, <2>1
<1> HIDE DEF g
<1>8. g[0] = << >> /\ \A n \in 1 .. N : g[n] = WithNext(f, g[n - 1])
  <2>1. \A n \in 0 .. N : g[n] = IF n = 0 THEN << >> ELSE WithNext(f, g[n - 1])
    BY <1>7
  <2>2. 0 \in 0 .. N /\ \A n \in 1 .. N : n # 0 /\ n \in 0 .. N
    BY <1>1
  <2> QED BY <2>1, <2>2
<1>9. \A n \in 0 .. N : InOrder(f, g[n])
  <2> DEFINE S == {n \in 0 .. N : InOrder(f, g[n])}
  <2>1. 0 \in S
    BY <1>1, <1>2, <1>8
  <2>2. ASSUME NEW n \in 1 .. N, n - 1 \in S PROVE n \in S
    <3>1. n \in 0 .. N
      BY <1>1
    <3> QED BY <1>8, <2>2, <3>1, WithNextIs
  <2> HIDE DEF S
  <2>3. \A n \in 0 .. N : n \in S
    BY <1>1, <2>1, <2>2, UpTo
  <2> QED BY <2>3 DEF S
<1>10. DOMAIN g[N] = 1 .. Len(g[N])
  <2>1. N \in 0 .. N
    BY <1>1
  <2>2. g[N] \in Seq(Symbols)
    BY <1>9, <2>1 DEF InOrder
  <2> QED BY <2>2
<1> QED BY <1>7, <1>8, <1>9, <1>10 DEF Sorting, Node

(* A node for each symbol that occurs, once.                               *)
LEMMA SourceIs ==
  ASSUME NEW f \in [Symbols -> Nat]
  PROVE  /\ Source(f) \in Seq(Nodes)
         /\ \A s \in Symbols : Contents(Source(f))[s] \in {0, 1}
         /\ \A s \in Symbols : s \notin Used(f) => Contents(Source(f))[s] = 0
<1>1. PICK g : /\ Sorting(g, f)
               /\ Source(f) = [i \in 1 .. Len(g[N]) |-> Node(f, g[N][i])]
  BY SortedExists
<1> DEFINE sorted == g[N]
           L == Len(sorted)
<1>2. InOrder(f, sorted)
  <2>1. N \in 0 .. N
    BY HuffmanAssumption
  <2> QED BY <1>1, <2>1 DEF Sorting
<1>3. /\ sorted \in Seq(Symbols) /\ L \in Nat
      /\ \A i \in 1 .. L : sorted[i] \in Used(f) /\ sorted[i] \in Symbols
      /\ \A i, j \in 1 .. L : i < j => Earlier(f, sorted[i], sorted[j])
  BY <1>2 DEF InOrder, Used
<1>4. Source(f) = [i \in 1 .. L |-> Node(f, sorted[i])]
  BY <1>1
<1> HIDE DEF sorted, L
<1>5. \A s \in Symbols : Node(f, s) \in Nodes
  BY DEF Node, Nodes
<1>6. Source(f) \in Seq(Nodes) /\ Len(Source(f)) = L
  <2>1. \A i \in 1 .. L : Node(f, sorted[i]) \in Nodes
    BY <1>3, <1>5
  <2> QED BY <1>3, <1>4, <2>1
<1>7. \A i, j \in 1 .. L : i < j => sorted[i] # sorted[j]
  <2>1. \A s \in Symbols : ~ Earlier(f, s, s)
    <3>1. \A s \in Symbols : f[s] \in Nat /\ s \in Nat
      BY HuffmanAssumption DEF Symbols
    <3> QED BY <3>1 DEF Earlier
  <2> QED BY <1>3, <2>1
<1> DEFINE Has(n, s) == \E i \in 1 .. n : sorted[i] = s
           c == [n \in 0 .. L |-> [s \in Symbols |-> IF Has(n, s) THEN 1 ELSE 0]]
<1>8. Counted(c, Source(f))
  <2>1. c \in [0 .. L -> [Symbols -> Nat]]
    <3> HIDE DEF Has
    <3> QED OBVIOUS
  <2>2. c[0] = Never
    <3>1. 1 .. 0 = {} /\ 0 \in 0 .. L
      BY <1>3
    <3>2. \A s \in Symbols : ~ Has(0, s)
      BY <3>1
    <3> HIDE DEF Has
    <3> QED BY <3>1, <3>2 DEF Never
  <2>3. ASSUME NEW n \in 1 .. L
        PROVE  c[n] = Plus(c[n - 1], Source(f)[n].symbols)
    <3>1. n \in 0 .. L /\ n - 1 \in 0 .. L
      BY <1>3
    <3>2. ASSUME NEW s \in Symbols
          PROVE  (IF Has(n, s) THEN 1 ELSE 0)
                   = (IF Has(n - 1, s) THEN 1 ELSE 0) + (IF s = sorted[n] THEN 1 ELSE 0)
      <4>1. \A i : i \in 1 .. n <=> i \in 1 .. n - 1 \/ i = n
        BY <1>3
      <4>2. Has(n, s) <=> Has(n - 1, s) \/ s = sorted[n]
        BY <4>1
      <4>3. Has(n - 1, s) => s # sorted[n]
        <5>1. \A i \in 1 .. n - 1 : i \in 1 .. L /\ i < n
          BY <1>3
        <5> QED BY <1>7, <5>1
      <4> HIDE DEF Has
      <4> QED BY <4>2, <4>3
    <3>3. Source(f)[n].symbols = [s \in Symbols |-> IF s = sorted[n] THEN 1 ELSE 0]
      BY <1>4 DEF Node
    <3>4. /\ c[n] = [s \in Symbols |-> IF Has(n, s) THEN 1 ELSE 0]
          /\ c[n - 1] = [s \in Symbols |-> IF Has(n - 1, s) THEN 1 ELSE 0]
      BY <3>1
    <3> HIDE DEF c, Has
    <3> QED BY <3>2, <3>3, <3>4 DEF Plus
  <2> HIDE DEF c
  <2> QED BY <1>6, <2>1, <2>2, <2>3 DEF Counted
<1>9. Contents(Source(f)) = [s \in Symbols |-> IF Has(L, s) THEN 1 ELSE 0]
  <2>1. Contents(Source(f)) = c[L] /\ L \in 0 .. L
    <3> HIDE DEF c
    <3> QED BY <1>3, <1>6, <1>8, CountedIs
  <2> QED BY <2>1
<1>10. \A s \in Symbols : s \notin Used(f) => ~ Has(L, s)
  BY <1>3
<1> HIDE DEF Has
<1> QED BY <1>6, <1>9, <1>10

(* The heap of trees; of these only the weights and widths are kept.       *)
Trees == [weight : Nat, width : Nat]

LEMMA LightestIs ==
  ASSUME NEW trees \in Seq(Trees), Len(trees) >= 1
  PROVE  /\ Lightest(trees) \in 1 .. Len(trees)
         /\ \A j \in 1 .. Len(trees) : ~ Lighter(trees[j], trees[Lightest(trees)])
<1> DEFINE L == Len(trees)
           Best(n) == \E i \in 1 .. n : \A j \in 1 .. n : ~ Lighter(trees[j], trees[i])
           S == {n \in 0 .. L : n = 0 \/ Best(n)}
<1>1. /\ L \in Nat /\ L # 0 /\ L \in 0 .. L
      /\ \A i \in 1 .. L : trees[i].weight \in Nat /\ trees[i].width \in Nat
  <2>1. \A x \in Trees : x.weight \in Nat /\ x.width \in Nat
    BY DEF Trees
  <2> QED BY <2>1
<1>2. ASSUME NEW n \in 1 .. L, n - 1 \in S PROVE Best(n)
  <2>1. n \in 1 .. n /\ n \in Nat /\ \A i : i \in 1 .. n <=> i \in 1 .. n - 1 \/ i = n
    BY <1>1
  <2>2. ~ Lighter(trees[n], trees[n])
    BY <1>1 DEF Lighter
  <2>3. CASE n = 1
    <3>1. \A j \in 1 .. n : j = n
      BY <2>3
    <3> QED BY <2>1, <2>2, <3>1
  <2>4. CASE n # 1
    <3>1. PICK i \in 1 .. n - 1 : \A j \in 1 .. n - 1 : ~ Lighter(trees[j], trees[i])
      BY <1>1, <1>2, <2>4
    <3>2. i \in 1 .. L /\ \A j \in 1 .. n - 1 : j \in 1 .. L
      BY <1>1
    <3>3. CASE Lighter(trees[n], trees[i])
      <4>1. \A j \in 1 .. n - 1 : ~ Lighter(trees[j], trees[n])
        BY <1>1, <3>1, <3>2, <3>3 DEF Lighter
      <4> QED BY <2>1, <2>2, <4>1
    <3>4. CASE ~ Lighter(trees[n], trees[i])
      BY <2>1, <3>1, <3>4
    <3> QED BY <3>3, <3>4
  <2> QED BY <2>3, <2>4
<1>3. Best(L)
  <2>1. 0 \in S
    BY <1>1
  <2>2. \A n \in 1 .. L : n - 1 \in S => n \in S
    <3> HIDE DEF Best
    <3>1. \A n \in 1 .. L : n \in 0 .. L
      BY <1>1
    <3> QED BY <1>2, <3>1
  <2> HIDE DEF S, L
  <2>3. \A n \in 0 .. L : n \in S
    BY <1>1, <2>1, <2>2, UpTo
  <2>4. L \in S
    BY <1>1, <2>3
  <2> QED BY <1>1, <2>4 DEF S
<1>4. DOMAIN trees = 1 .. L
  OBVIOUS
<1> QED BY <1>3, <1>4 DEF Lightest

LEMMA RemovedIs ==
  ASSUME NEW S, NEW s \in Seq(S), NEW i \in 1 .. Len(s)
  PROVE  /\ RemoveAt(s, i) \in Seq(S) /\ Len(RemoveAt(s, i)) = Len(s) - 1
         /\ \A k \in 1 .. i - 1 : RemoveAt(s, i)[k] = s[k]
         /\ \A k \in i .. Len(s) - 1 : RemoveAt(s, i)[k] = s[k + 1]
<1> DEFINE a == SubSeq(s, 1, i - 1)
           b == SubSeq(s, i + 1, Len(s))
           L == Len(s)
<1>1. L \in Nat /\ i \in 1 .. L /\ i - 1 \in 0 .. L /\ i \in 0 .. L
  OBVIOUS
<1>2. b \in Seq(S) /\ Len(b) = L - i /\ \A k \in 1 .. L - i : b[k] = s[i + k]
  BY <1>1, DropProperties
<1>3. a \in Seq(S) /\ Len(a) = i - 1 /\ \A k \in 1 .. i - 1 : a[k] = s[k]
  BY <1>1, TakeProperties
<1> HIDE DEF a, b, L
<1>4. a \o b \in Seq(S) /\ Len(a \o b) = L - 1
  BY <1>1, <1>2, <1>3
<1>5. \A k \in 1 .. i - 1 : (a \o b)[k] = s[k]
  BY <1>1, <1>2, <1>3
<1>6. ASSUME NEW k \in i .. L - 1
      PROVE  (a \o b)[k] = s[k + 1]
  <2>1. k - (i - 1) \in 1 .. L - i /\ i + (k - (i - 1)) = k + 1 /\ k > i - 1 /\ k \in 1 .. L - 1
    BY <1>1
  <2>2. (a \o b)[k] = b[k - (i - 1)]
    BY <1>1, <1>2, <1>3, <2>1
  <2> QED BY <1>2, <2>1, <2>2
<1> QED BY <1>4, <1>5, <1>6 DEF RemoveAt, a, b, L

LEMMA JoinIs ==
  ASSUME NEW trees \in Seq(Trees)
  PROVE  JoinLightest(trees) \in Seq(Trees)
<1>1. CASE Len(trees) < 2
  BY <1>1 DEF JoinLightest
<1>2. CASE ~ (Len(trees) < 2)
  <2> DEFINE i == Lightest(trees)
             others == RemoveAt(trees, i)
             j == Lightest(others)
             a == trees[i]
             b == others[j]
  <2>1. Len(trees) \in Nat /\ Len(trees) >= 2
    BY <1>2
  <2>2. i \in 1 .. Len(trees)
    BY <2>1, LightestIs
  <2> HIDE DEF i
  <2>3. others \in Seq(Trees) /\ Len(others) = Len(trees) - 1
    BY <2>2, RemovedIs
  <2> HIDE DEF others
  <2>4. j \in 1 .. Len(others)
    BY <2>1, <2>3, LightestIs
  <2> HIDE DEF j
  <2>5. RemoveAt(others, j) \in Seq(Trees)
    BY <2>3, <2>4, RemovedIs
  <2>6. a \in Trees /\ b \in Trees
    BY <2>2, <2>3, <2>4
  <2> HIDE DEF a, b
  <2>7. Joined(a, b) \in Trees
    <3>1. a.weight \in Nat /\ b.weight \in Nat /\ a.width \in Nat /\ b.width \in Nat
      BY <2>6 DEF Trees
    <3>2. Max({a.width, b.width}) \in Nat
      BY <3>1, GreatestOfTwo
    <3>3. a.weight + b.weight \in Nat /\ 1 + Max({a.width, b.width}) \in Nat
      BY <3>1, <3>2
    <3> QED BY <3>3 DEF Joined, Trees
  <2>8. JoinLightest(trees) = Append(RemoveAt(others, j), Joined(a, b))
    BY <1>2 DEF JoinLightest, i, others, j, a, b
  <2> QED BY <2>5, <2>7, <2>8
<1> QED BY <1>1, <1>2

Heap(g, source) ==
  /\ g[0] = [i \in DOMAIN source |-> [weight |-> source[i].weight, width |-> 0]]
  /\ \A n \in 0 .. Len(source) : g[n] \in Seq(Trees)
  /\ \A n \in 1 .. Len(source) : g[n] = JoinLightest(g[n - 1])

LEMMA HeapExists ==
  ASSUME NEW source \in Seq(Nodes)
  PROVE  \E g : /\ Heap(g, source)
                /\ ordinary_huffman_optimal_max_bitwidth(source) =
                     IF g[Len(source)] = << >> THEN 1
                     ELSE Max({1, g[Len(source)][1].width})
<1> DEFINE L == Len(source)
           A == Seq(Trees)
           first == [i \in DOMAIN source |-> [weight |-> source[i].weight, width |-> 0]]
           stepped == [n \in 1 .. L |-> [trees \in A |-> JoinLightest(trees)]]
           Body(h) == [n \in 0 .. L |->
                         IF n = 0
                         THEN [i \in DOMAIN source |-> [weight |-> source[i].weight,
                                                        width  |-> 0]]
                         ELSE JoinLightest(h[n - 1])]
           g == CHOOSE h : h = Body(h)
<1>1. L \in Nat
  OBVIOUS
<1>2. first \in A
  <2>1. DOMAIN source = 1 .. L /\ \A i \in 1 .. L : source[i] \in Nodes
    OBVIOUS
  <2>2. \A x \in Nodes : x.weight \in Nat
    BY DEF Nodes
  <2>3. \A i \in 1 .. L : [weight |-> source[i].weight, width |-> 0] \in Trees
    BY <2>1, <2>2 DEF Trees
  <2> HIDE DEF L
  <2> QED BY <1>1, <2>1, <2>3
<1> HIDE DEF first, L
<1>3. stepped \in [1 .. L -> [A -> A]]
  BY JoinIs
<1>4. PICK h \in [0 .. L -> A] : h[0] = first /\ \A n \in 1 .. L : h[n] = stepped[n][h[n - 1]]
  <2> HIDE DEF stepped, A
  <2>1. Recursions(L, A, first, stepped) # {}
    BY <1>1, <1>2, <1>3, RecursionExists
  <2> QED BY <2>1 DEF Recursions, Follows
<1>5. \A n \in 1 .. L : n - 1 \in 0 .. L /\ h[n] = JoinLightest(h[n - 1])
  <2> SUFFICES ASSUME NEW n \in 1 .. L
               PROVE  n - 1 \in 0 .. L /\ h[n] = JoinLightest(h[n - 1])
    OBVIOUS
  <2>1. n - 1 \in 0 .. L /\ h[n - 1] \in A
    <3> HIDE DEF A, stepped
    <3>1. n - 1 \in 0 .. L
      BY <1>1
    <3> QED BY <1>4, <3>1
  <2> HIDE DEF A
  <2> QED BY <1>4, <2>1
<1> HIDE DEF stepped, A
<1>6. h = Body(h)
  <2>1. ASSUME NEW n \in 0 .. L
        PROVE  h[n] = IF n = 0 THEN first ELSE JoinLightest(h[n - 1])
    <3>1. n # 0 => n \in 1 .. L
      BY <1>1
    <3> QED BY <1>4, <1>5, <3>1
  <2>2. h = [n \in 0 .. L |-> IF n = 0 THEN first ELSE JoinLightest(h[n - 1])]
    BY <1>4, <2>1
  <2> QED BY <2>2 DEF first
<1>7. /\ g = Body(g)
      /\ ordinary_huffman_optimal_max_bitwidth(source) =
           IF g[L] = << >> THEN 1 ELSE Max({1, g[L][1].width})
  <2>1. ordinary_huffman_optimal_max_bitwidth(source) =
           IF g[L] = << >> THEN 1 ELSE Max({1, g[L][1].width})
    BY DEF ordinary_huffman_optimal_max_bitwidth, L
  <2> HIDE DEF Body
  <2> QED BY <1>6, <2>1
<1> HIDE DEF g
<1>8. g[0] = first /\ \A n \in 1 .. L : g[n] = JoinLightest(g[n - 1])
  <2>1. \A n \in 0 .. L : g[n] = IF n = 0 THEN first ELSE JoinLightest(g[n - 1])
    BY <1>7 DEF first
  <2>2. 0 \in 0 .. L /\ \A n \in 1 .. L : n # 0 /\ n \in 0 .. L
    BY <1>1
  <2> QED BY <2>1, <2>2
<1>9. \A n \in 0 .. L : g[n] \in Seq(Trees)
  <2> DEFINE S == {n \in 0 .. L : g[n] \in Seq(Trees)}
  <2>1. 0 \in S
    BY <1>1, <1>2, <1>8 DEF A
  <2>2. ASSUME NEW n \in 1 .. L, n - 1 \in S PROVE n \in S
    <3>1. n \in 0 .. L
      BY <1>1
    <3> QED BY <1>8, <2>2, <3>1, JoinIs
  <2> HIDE DEF S
  <2>3. \A n \in 0 .. L : n \in S
    BY <1>1, <2>1, <2>2, UpTo
  <2> QED BY <2>3 DEF S
<1> QED BY <1>7, <1>8, <1>9 DEF Heap, L, first

LEMMA OptimalType ==
  ASSUME NEW source \in Seq(Nodes)
  PROVE  ordinary_huffman_optimal_max_bitwidth(source) \in Nat \ {0}
<1>1. PICK g : /\ Heap(g, source)
               /\ ordinary_huffman_optimal_max_bitwidth(source) =
                    IF g[Len(source)] = << >> THEN 1
                    ELSE Max({1, g[Len(source)][1].width})
  BY HeapExists
<1> DEFINE top == g[Len(source)]
<1>2. top \in Seq(Trees)
  <2>1. Len(source) \in 0 .. Len(source)
    OBVIOUS
  <2> QED BY <1>1, <2>1 DEF Heap
<1>3. CASE top = << >>
  BY <1>1, <1>3
<1>4. CASE top # << >>
  <2> DEFINE w == top[1].width
  <2>1. w \in Nat
    <3>1. top[1] \in Trees
      BY <1>2, <1>4
    <3> QED BY <3>1 DEF Trees
  <2>2. Max({1, w}) \in Nat /\ 1 <= Max({1, w})
    <3> HIDE DEF w
    <3> QED BY <2>1, GreatestOfTwo
  <2> QED BY <1>1, <1>4, <2>2
<1> QED BY <1>3, <1>4

(* The lists of package-merge, one for each width but the last.            *)
Weighting(g, source, m) ==
  /\ g[0] = source
  /\ \A n \in 0 .. m - 1 : g[n] \in Seq(Nodes)
  /\ \A n \in 1 .. m - 1 : g[n] = merge_nodes(package(g[n - 1]), source)

LEMMA WeightingExists ==
  ASSUME NEW source \in Seq(Nodes), NEW m \in Nat \ {0}
  PROVE  \E g : /\ Weighting(g, source, m)
                /\ package_merge_code_lengths(source, m) = Contents(package(g[m - 1]))
<1> DEFINE L == m - 1
           A == Seq(Nodes)
           stepped == [n \in 1 .. L |-> [nodes \in A |-> merge_nodes(package(nodes), source)]]
           Body(h) == [n \in 0 .. m - 1 |->
                         IF n = 0 THEN source
                         ELSE merge_nodes(package(h[n - 1]), source)]
           g == CHOOSE h : h = Body(h)
<1>1. L \in Nat /\ source \in A
  OBVIOUS
<1>2. \A nodes \in Seq(Nodes) : merge_nodes(package(nodes), source) \in Seq(Nodes)
  BY PackageIs, MergeIs
<1> HIDE DEF L
<1>3. stepped \in [1 .. L -> [A -> A]]
  BY <1>2
<1>4. PICK h \in [0 .. L -> A] : h[0] = source /\ \A n \in 1 .. L : h[n] = stepped[n][h[n - 1]]
  <2> HIDE DEF stepped, A
  <2>1. Recursions(L, A, source, stepped) # {}
    BY <1>1, <1>3, RecursionExists
  <2> QED BY <2>1 DEF Recursions, Follows
<1>5. \A n \in 1 .. L : n - 1 \in 0 .. L /\ h[n] = merge_nodes(package(h[n - 1]), source)
  <2> SUFFICES ASSUME NEW n \in 1 .. L
               PROVE  n - 1 \in 0 .. L /\ h[n] = merge_nodes(package(h[n - 1]), source)
    OBVIOUS
  <2>1. n - 1 \in 0 .. L /\ h[n - 1] \in A
    <3> HIDE DEF A, stepped
    <3>1. n - 1 \in 0 .. L
      BY <1>1
    <3> QED BY <1>4, <3>1
  <2> HIDE DEF A
  <2> QED BY <1>4, <2>1
<1> HIDE DEF stepped, A
<1>6. h = Body(h)
  <2>1. ASSUME NEW n \in 0 .. L
        PROVE  h[n] = IF n = 0 THEN source ELSE merge_nodes(package(h[n - 1]), source)
    <3>1. n # 0 => n \in 1 .. L
      BY <1>1
    <3> QED BY <1>4, <1>5, <3>1
  <2>2. h = [n \in 0 .. L |-> IF n = 0 THEN source
                              ELSE merge_nodes(package(h[n - 1]), source)]
    BY <1>4, <2>1
  <2> QED BY <2>2 DEF L
<1>7. /\ g = Body(g)
      /\ package_merge_code_lengths(source, m) = Contents(package(g[m - 1]))
  <2>1. package_merge_code_lengths(source, m) = Contents(package(g[m - 1]))
    BY DEF package_merge_code_lengths, Contents
  <2> HIDE DEF Body
  <2> QED BY <1>6, <2>1
<1> HIDE DEF g
<1>8. g[0] = source /\ \A n \in 1 .. L : g[n] = merge_nodes(package(g[n - 1]), source)
  <2>1. \A n \in 0 .. L : g[n] = IF n = 0 THEN source
                                 ELSE merge_nodes(package(g[n - 1]), source)
    BY <1>7 DEF L
  <2>2. 0 \in 0 .. L /\ \A n \in 1 .. L : n # 0 /\ n \in 0 .. L
    BY <1>1
  <2> QED BY <2>1, <2>2
<1>9. \A n \in 0 .. L : g[n] \in Seq(Nodes)
  <2> DEFINE S == {n \in 0 .. L : g[n] \in Seq(Nodes)}
  <2>1. 0 \in S
    BY <1>1, <1>8
  <2>2. ASSUME NEW n \in 1 .. L, n - 1 \in S PROVE n \in S
    <3>1. n \in 0 .. L
      BY <1>1
    <3> QED BY <1>2, <1>8, <2>2, <3>1
  <2> HIDE DEF S
  <2>3. \A n \in 0 .. L : n \in S
    BY <1>1, <2>1, <2>2, UpTo
  <2> QED BY <2>3 DEF S
<1> QED BY <1>7, <1>8, <1>9 DEF Weighting, L

(* A symbol is at most once in the nodes of every width.                   *)
LEMMA WeightingIs ==
  ASSUME NEW source \in Seq(Nodes), NEW m \in Nat \ {0}, NEW g, Weighting(g, source, m),
         NEW s \in Symbols, Contents(source)[s] \in {0, 1}
  PROVE  \A n \in 0 .. m - 1 : /\ Contents(g[n])[s] \in 0 .. n + 1
                               /\ Contents(source)[s] = 0 => Contents(g[n])[s] = 0
<1> DEFINE L == m - 1
           k == Contents(source)[s]
           x(n) == Contents(g[n])[s]
           S == {n \in 0 .. L : x(n) \in 0 .. n + 1 /\ (k = 0 => x(n) = 0)}
<1>1. L \in Nat /\ k \in {0, 1}
  OBVIOUS
<1>2. /\ g[0] = source /\ \A n \in 0 .. L : g[n] \in Seq(Nodes)
      /\ \A n \in 1 .. L : g[n] = merge_nodes(package(g[n - 1]), source)
  BY DEF Weighting
<1>3. 0 \in S
  BY <1>1, <1>2
<1>4. ASSUME NEW n \in 1 .. L, n - 1 \in S PROVE n \in S
  <2> DEFINE nodes == g[n - 1]
             p == package(nodes)
             y == Contents(p)[s]
  <2>1. n - 1 \in 0 .. L /\ n \in 0 .. L /\ n \in Nat
    BY <1>1
  <2>2. nodes \in Seq(Nodes)
    BY <1>2, <2>1
  <2>3. p \in Seq(Nodes) /\ y <= x(n - 1)
    <3> HIDE DEF nodes
    <3>1. p \in Seq(Nodes) /\ y <= Contents(nodes)[s]
      BY <2>2, PackageIs
    <3> QED BY <3>1 DEF nodes
  <2> HIDE DEF p
  <2>4. y \in Nat /\ k \in Nat
    BY <2>3, ContentsType
  <2>5. x(n) = y + k
    <3>1. g[n] = merge_nodes(p, source)
      BY <1>2 DEF p
    <3>2. Contents(g[n]) = Plus(Contents(p), Contents(source))
      BY <2>3, <3>1, MergeIs
    <3>3. Contents(p) \in [Symbols -> Nat] /\ Contents(source) \in [Symbols -> Nat]
      BY <2>3, ContentsType
    <3>4. Contents(g[n])[s] = Contents(p)[s] + Contents(source)[s]
      <4> DEFINE u == Contents(p)
                 v == Contents(source)
      <4>1. u \in [Symbols -> Nat] /\ v \in [Symbols -> Nat]
        BY <3>3
      <4> HIDE DEF u, v
      <4>2. Plus(u, v)[s] = u[s] + v[s]
        BY <4>1, PlusIs
      <4> QED BY <3>2, <4>2 DEF u, v
    <3> QED BY <3>4
  <2>6. x(n - 1) \in 0 .. (n - 1) + 1 /\ (k = 0 => x(n - 1) = 0)
    BY <1>4
  <2> HIDE DEF x, y, k
  <2>7. x(n) \in 0 .. n + 1 /\ (k = 0 => x(n) = 0)
    <3> DEFINE u == x(n - 1)
               v == x(n)
    <3>1. u \in 0 .. n /\ (k = 0 => u = 0) /\ y <= u /\ v = y + k
      BY <2>1, <2>3, <2>5, <2>6
    <3> HIDE DEF u, v
    <3>2. v \in 0 .. n + 1 /\ (k = 0 => v = 0)
      BY <1>1, <2>1, <2>4, <3>1
    <3> QED BY <3>2 DEF v
  <2> QED BY <2>1, <2>7
<1> HIDE DEF S, L
<1>5. \A n \in 0 .. L : n \in S
  BY <1>1, <1>3, <1>4, UpTo
<1> QED BY <1>5 DEF S, L

(* What the code lengths made from frequencies are, whatever these are:    *)
(* within the limit, and none for a symbol that does not occur.            *)
LEMMA LengthsAre ==
  ASSUME NEW f \in [Symbols -> Nat], NEW max_bitwidth \in Nat \ {0}
  PROVE  LET l == length_limited_code_lengths(f, max_bitwidth)
         IN  /\ l \in [Symbols -> Nat]
             /\ \A s \in Symbols : l[s] <= max_bitwidth
             /\ \A s \in Symbols : s \notin Used(f) => l[s] = 0
<1> DEFINE source == Source(f)
           o == ordinary_huffman_optimal_max_bitwidth(source)
           m == Min({max_bitwidth, o})
           l == length_limited_code_lengths(f, max_bitwidth)
<1>1. /\ source \in Seq(Nodes)
      /\ \A s \in Symbols : Contents(source)[s] \in {0, 1}
      /\ \A s \in Symbols : s \notin Used(f) => Contents(source)[s] = 0
  BY SourceIs
<1>2. o \in Nat \ {0}
  <2> HIDE DEF source
  <2> QED BY <1>1, OptimalType
<1>3. l = package_merge_code_lengths(source, m)
  BY DEF length_limited_code_lengths
<1> HIDE DEF source, o, l
<1>4. m \in Nat \ {0} /\ m <= max_bitwidth
  BY <1>2, LeastOfTwo
<1> HIDE DEF m
<1>5. PICK g : /\ Weighting(g, source, m)
               /\ package_merge_code_lengths(source, m) = Contents(package(g[m - 1]))
  BY <1>1, <1>4, WeightingExists
<1> DEFINE nodes == g[m - 1]
<1>6. m - 1 \in 0 .. m - 1 /\ nodes \in Seq(Nodes)
  BY <1>4, <1>5 DEF Weighting
<1>7. ASSUME NEW s \in Symbols
      PROVE  /\ Contents(nodes)[s] \in 0 .. m
             /\ s \notin Used(f) => Contents(nodes)[s] = 0
  <2>1. Contents(nodes)[s] \in 0 .. (m - 1) + 1
        /\ (Contents(source)[s] = 0 => Contents(nodes)[s] = 0)
    BY <1>1, <1>4, <1>5, <1>6, WeightingIs
  <2> HIDE DEF nodes
  <2> QED BY <1>1, <1>4, <2>1
<1> HIDE DEF nodes
<1>8. /\ package(nodes) \in Seq(Nodes) /\ Contents(package(nodes)) \in [Symbols -> Nat]
      /\ \A s \in Symbols : Contents(package(nodes))[s] <= Contents(nodes)[s]
  BY <1>6, PackageIs, ContentsType
<1>9. l = Contents(package(nodes))
  BY <1>3, <1>5 DEF nodes
<1>10. \A s \in Symbols : l[s] \in Nat /\ l[s] <= Contents(nodes)[s]
  BY <1>8, <1>9
<1>11. \A s \in Symbols : l[s] <= max_bitwidth
  BY <1>4, <1>7, <1>10
<1>12. \A s \in Symbols : s \notin Used(f) => l[s] = 0
  BY <1>7, <1>10
<1> QED BY <1>8, <1>9, <1>11, <1>12 DEF l
-----------------------------------------------------------------------------
(* Every symbol that occurs gets a code.  The list of nodes is as long as  *)
(* there are such symbols, and the least frequent are first.               *)
Ascending(nodes) == \A i, j \in 1 .. Len(nodes) : i <= j => nodes[i].weight <= nodes[j].weight

LEMMA SortedIsWhole ==
  ASSUME NEW f \in [Symbols -> Nat], NEW g, Sorting(g, f)
  PROVE  /\ \A s \in Used(f) : \E i \in 1 .. Len(g[N]) : g[N][i] = s
         /\ Len(g[N]) = Cardinality(Used(f))
<1> DEFINE C(n) == Cardinality(Left(f, g[n]))
           U == Used(f)
           Whole(n) == /\ IsFiniteSet(Left(f, g[n])) /\ C(n) \in 0 .. N - n
                       /\ C(n) + Len(g[n]) = Cardinality(U)
           S == {n \in 0 .. N : Whole(n)}
<1>1. N \in Nat /\ Symbols = 0 .. N - 1
  BY HuffmanAssumption DEF Symbols
<1>2. IsFiniteSet(U) /\ Cardinality(U) \in 0 .. N
  <2>1. IsFiniteSet(Symbols) /\ Cardinality(Symbols) = N
    <3>1. IsFiniteSet(0 .. N - 1) /\ Cardinality(0 .. N - 1) = IF 0 > N - 1 THEN 0 ELSE N - 1 - 0 + 1
      BY <1>1, FS_Interval
    <3> QED BY <1>1, <3>1
  <2>2. U \in SUBSET Symbols
    BY DEF Used
  <2>3. IsFiniteSet(U) /\ Cardinality(U) <= Cardinality(Symbols)
    BY <2>1, <2>2, FS_Subset
  <2>4. Cardinality(U) \in Nat
    BY <2>3, FS_CardinalityType
  <2> QED BY <1>1, <2>1, <2>3, <2>4
<1>3. /\ g[0] = << >>
      /\ \A n \in 0 .. N : InOrder(f, g[n])
      /\ \A n \in 1 .. N : g[n] = WithNext(f, g[n - 1])
  BY DEF Sorting
<1> HIDE DEF U
<1>4. 0 \in S
  <2>1. Left(f, g[0]) = U /\ Len(g[0]) = 0
    <3>1. Len(<< >>) = 0 /\ 1 .. 0 = {}
      OBVIOUS
    <3> QED BY <1>3, <3>1 DEF Left, U
  <2>2. C(0) \in 0 .. N - 0 /\ C(0) + Len(g[0]) = Cardinality(U)
    BY <1>1, <1>2, <2>1
  <2> QED BY <1>1, <1>2, <2>1, <2>2
<1>5. ASSUME NEW n \in 1 .. N, n - 1 \in S PROVE n \in S
  <2> DEFINE m == n - 1
  <2>1. n \in 0 .. N /\ m \in 0 .. N /\ m \in Nat /\ n = m + 1 /\ N - n \in Nat
    BY <1>1
  <2>2. /\ IsFiniteSet(Left(f, g[m])) /\ C(m) \in 0 .. N - m
        /\ C(m) + Len(g[m]) = Cardinality(U)
    BY <1>5
  <2>3. InOrder(f, g[m]) /\ g[n] = WithNext(f, g[m])
    BY <1>3, <2>1
  <2>4. Len(g[m]) \in Nat
    BY <2>3 DEF InOrder
  <2> HIDE DEF m
  <2>5. CASE Left(f, g[m]) = {}
    <3>1. g[n] = g[m] /\ C(m) = 0
      BY <2>3, <2>5, FS_EmptySet, WithNextIs
    <3>2. C(n) \in 0 .. N - n
      BY <2>1, <3>1
    <3> QED BY <2>1, <2>2, <3>1, <3>2
  <2>6. CASE Left(f, g[m]) # {}
    <3>1. PICK t \in Left(f, g[m]) : Left(f, g[n]) = Left(f, g[m]) \ {t}
      BY <2>3, <2>6, WithNextIs
    <3>2. Len(g[n]) = Len(g[m]) + 1
      BY <2>3, <2>6, WithNextIs
    <3>3. IsFiniteSet(Left(f, g[n])) /\ C(n) = C(m) - 1 /\ C(n) \in Nat
      <4>1. IsFiniteSet(Left(f, g[n])) /\ C(n) = C(m) - 1
        BY <2>2, <3>1, FS_RemoveElement
      <4>2. C(n) \in Nat
        BY <4>1, FS_CardinalityType
      <4> QED BY <4>1, <4>2
    <3> DEFINE x == C(n)
               y == C(m)
    <3>4. x = y - 1 /\ x \in Nat /\ y \in 0 .. N - m /\ y + Len(g[m]) = Cardinality(U)
      BY <2>2, <3>3
    <3> HIDE DEF x, y, C
    <3>5. x \in 0 .. N - n /\ x + Len(g[n]) = Cardinality(U)
      BY <1>1, <1>2, <2>1, <2>4, <3>2, <3>4
    <3> QED BY <2>1, <3>3, <3>5 DEF x, C
  <2> QED BY <2>5, <2>6
<1>6. Whole(N)
  <2> HIDE DEF Whole
  <2>1. 0 \in S /\ \A n \in 1 .. N : n - 1 \in S => n \in S
    BY <1>4, <1>5
  <2> HIDE DEF S
  <2>2. \A n \in 0 .. N : n \in S
    BY <1>1, <2>1, UpTo
  <2>3. N \in 0 .. N
    BY <1>1
  <2> QED BY <2>2, <2>3 DEF S
<1>7. C(N) = 0 /\ Left(f, g[N]) = {}
  <2>1. C(N) \in 0 .. N - N
    BY <1>6
  <2>2. C(N) = 0
    BY <1>1, <2>1
  <2> QED BY <1>6, <2>2, FS_EmptySet
<1>8. Len(g[N]) = Cardinality(U)
  <2>1. N \in 0 .. N
    BY <1>1
  <2>2. Len(g[N]) \in Nat
    BY <1>3, <2>1 DEF InOrder
  <2>3. C(N) + Len(g[N]) = Cardinality(U)
    BY <1>6
  <2> HIDE DEF C
  <2> QED BY <1>7, <2>2, <2>3
<1> QED BY <1>7, <1>8 DEF Left, U

(* The symbols of the first nodes of the list.                             *)
Leading(sorted, a) == {sorted[i] : i \in 1 .. a}

(* Each node is of one symbol, of its own, and the lightest come first.    *)
Sorted(source, sorted) ==
  /\ source \in Seq(Nodes) /\ Ascending(source)
  /\ \A i \in 1 .. Len(source) :
       /\ sorted[i] \in Symbols
       /\ source[i].symbols = [u \in Symbols |-> IF u = sorted[i] THEN 1 ELSE 0]
  /\ \A i, j \in 1 .. Len(source) : sorted[i] = sorted[j] => i = j

(* Each node weighs as much as its symbol occurs.                          *)
Honest(f, source, sorted) == \A i \in 1 .. Len(source) : source[i].weight = f[sorted[i]]

LEMMA SourceIsWhole ==
  ASSUME NEW f \in [Symbols -> Nat]
  PROVE  /\ Len(Source(f)) = Cardinality(Used(f))
         /\ \E sorted : /\ Sorted(Source(f), sorted) /\ Honest(f, Source(f), sorted)
                        /\ Leading(sorted, Len(Source(f))) = Used(f)
<1>1. PICK g : /\ Sorting(g, f)
               /\ Source(f) = [i \in 1 .. Len(g[N]) |-> Node(f, g[N][i])]
  BY SortedExists
<1> DEFINE sorted == g[N]
           L == Len(sorted)
<1>2. InOrder(f, sorted)
  <2>1. N \in 0 .. N
    BY HuffmanAssumption
  <2> QED BY <1>1, <2>1 DEF Sorting
<1>3. /\ sorted \in Seq(Symbols) /\ L \in Nat
      /\ \A i \in 1 .. L : sorted[i] \in Used(f) /\ sorted[i] \in Symbols
      /\ \A i, j \in 1 .. L : i < j => Earlier(f, sorted[i], sorted[j])
  BY <1>2 DEF InOrder, Used
<1>4. /\ \A s \in Used(f) : \E i \in 1 .. L : sorted[i] = s
      /\ L = Cardinality(Used(f))
  BY <1>1, SortedIsWhole
<1>5. Source(f) = [i \in 1 .. L |-> Node(f, sorted[i])]
  BY <1>1
<1>6. Source(f) \in Seq(Nodes)
  BY SourceIs
<1> HIDE DEF sorted, L
<1>7. Len(Source(f)) = L
  <2> DEFINE e == [i \in 1 .. L |-> Node(f, sorted[i])]
  <2>1. DOMAIN e = 1 .. L
    OBVIOUS
  <2> HIDE DEF e
  <2>2. Source(f) = e
    BY <1>5, Zenon DEF e
  <2> DEFINE x == Len(e)
  <2>3. e \in Seq(Nodes)
    BY <1>6, <2>2
  <2>4. DOMAIN e = 1 .. x /\ x \in Nat
    BY <2>3
  <2>5. x = Len(Source(f))
    BY <2>2
  <2> HIDE DEF x
  <2>6. 1 .. x = 1 .. L
    BY <2>1, <2>4
  <2>7. (x = 0 \/ x \in 1 .. x) /\ (L = 0 \/ L \in 1 .. L)
    BY <1>3, <2>4
  <2>8. (x = 0 \/ x \in 1 .. L) /\ (L = 0 \/ L \in 1 .. x)
    BY <2>6, <2>7
  <2>9. x = L
    BY <1>3, <2>4, <2>8
  <2> QED BY <2>5, <2>9
<1>8. \A i \in 1 .. L : /\ Source(f)[i].weight = f[sorted[i]]
                       /\ Source(f)[i].symbols =
                            [u \in Symbols |-> IF u = sorted[i] THEN 1 ELSE 0]
  <2>1. ASSUME NEW i \in 1 .. L PROVE Source(f)[i] = Node(f, sorted[i])
    BY <1>5, Zenon
  <2>2. \A s \in Symbols : /\ Node(f, s).weight = f[s]
                           /\ Node(f, s).symbols = [u \in Symbols |-> IF u = s THEN 1 ELSE 0]
    BY DEF Node
  <2> QED BY <1>3, <2>1, <2>2
<1>9. ASSUME NEW i \in 1 .. L, NEW j \in 1 .. L, i <= j
      PROVE  f[sorted[i]] <= f[sorted[j]]
  <2>1. f[sorted[i]] \in Nat /\ f[sorted[j]] \in Nat
    BY <1>3
  <2>2. CASE i = j
    BY <2>1, <2>2
  <2>3. CASE i < j
    BY <1>3, <2>1, <2>3 DEF Earlier
  <2> QED BY <1>3, <1>9, <2>2, <2>3
<1>10. Ascending(Source(f))
  BY <1>7, <1>8, <1>9 DEF Ascending
<1>11. ASSUME NEW i \in 1 .. L, NEW j \in 1 .. L, sorted[i] = sorted[j]
       PROVE  i = j
  <2>1. \A s \in Symbols : ~ Earlier(f, s, s)
    BY HuffmanAssumption DEF Earlier, Symbols
  <2>2. ~ (i < j) /\ ~ (j < i)
    BY <1>3, <1>11, <2>1
  <2> QED BY <1>3, <2>2
<1>12. Leading(sorted, L) = Used(f)
  BY <1>3, <1>4 DEF Leading
<1>13. Sorted(Source(f), sorted)
  BY <1>3, <1>6, <1>7, <1>8, <1>10, <1>11 DEF Sorted
<1>14. Honest(f, Source(f), sorted)
  BY <1>7, <1>8 DEF Honest
<1> QED BY <1>4, <1>7, <1>12, <1>13, <1>14

LEMMA NeighboursAscend ==
  ASSUME NEW nodes \in Seq(Nodes),
         \A n \in 1 .. Len(nodes) - 1 : nodes[n].weight <= nodes[n + 1].weight
  PROVE  Ascending(nodes)
<1> DEFINE L == Len(nodes)
<1>1. L \in Nat /\ \A i \in 1 .. L : nodes[i].weight \in Nat
  <2>1. \A x \in Nodes : x.weight \in Nat
    BY DEF Nodes
  <2> QED BY <2>1
<1> HIDE DEF L
<1>2. ASSUME NEW i \in 1 .. L
      PROVE  \A j \in 1 .. L : i <= j => nodes[i].weight <= nodes[j].weight
  <2> DEFINE S == {j \in 0 .. L : i <= j => nodes[i].weight <= nodes[j].weight}
  <2>1. 0 \in S
    BY <1>1
  <2>2. ASSUME NEW j \in 1 .. L, j - 1 \in S PROVE j \in S
    <3>1. j \in 0 .. L /\ nodes[i].weight \in Nat /\ nodes[j].weight \in Nat
      BY <1>1
    <3>2. CASE j <= i
      <4>1. i <= j => i = j
        BY <1>1, <3>2
      <4> QED BY <3>1, <4>1
    <3>3. CASE ~ (j <= i)
      <4>1. j - 1 \in 1 .. L - 1 /\ j - 1 \in 1 .. L /\ i <= j - 1 /\ (j - 1) + 1 = j
        BY <1>1, <3>3
      <4>2. nodes[j - 1].weight <= nodes[j].weight /\ nodes[j - 1].weight \in Nat
        <5> DEFINE k == j - 1
        <5>1. k \in 1 .. L - 1 /\ k \in 1 .. L /\ k + 1 = j
          BY <4>1
        <5> HIDE DEF k
        <5>2. nodes[k].weight <= nodes[k + 1].weight /\ nodes[k].weight \in Nat
          BY <1>1, <5>1 DEF L
        <5> QED BY <5>1, <5>2 DEF k
      <4>3. nodes[i].weight <= nodes[j - 1].weight
        BY <2>2, <4>1
      <4> QED BY <3>1, <4>2, <4>3
    <3> QED BY <3>2, <3>3
  <2> HIDE DEF S
  <2>3. \A j \in 0 .. L : j \in S
    BY <1>1, <2>1, <2>2, UpTo
  <2>4. \A j \in 1 .. L : j \in 0 .. L
    BY <1>1
  <2> QED BY <2>3, <2>4 DEF S
<1> QED BY <1>2 DEF Ascending, L

(* Of two sorted lists merged, those before a place are no heavier than    *)
(* those behind it, and of two as heavy the right one comes first.         *)
LEMMA InterleavedIs ==
  ASSUME NEW left \in Seq(Nodes), NEW right \in Seq(Nodes), NEW out, NEW at,
         Interleaves(out, at, left, right), Ascending(left), Ascending(right)
  PROVE  /\ Ascending(out)
         /\ \A n \in 0 .. Len(left) + Len(right) :
              LET i == at[n]  j == n - at[n]
              IN  /\ i >= 1 /\ j < Len(right) => left[i].weight < right[j + 1].weight
                  /\ j >= 1 /\ i < Len(left) => right[j].weight <= left[i + 1].weight
                  /\ j >= 1 => right[j].weight <= out[n].weight
<1> DEFINE l == Len(left)
           r == Len(right)
           T == l + r
           A(i) == left[i].weight
           B(j) == right[j].weight
           C(n) == out[n].weight
           Holds(n, i, j) ==
             /\ i >= 1 /\ j < r => A(i) < B(j + 1)
             /\ j >= 1 /\ i < l => B(j) <= A(i + 1)
             /\ i >= 1 => A(i) <= C(n)
             /\ j >= 1 => B(j) <= C(n)
             /\ n >= 1 => (i >= 1 /\ C(n) = A(i)) \/ (j >= 1 /\ C(n) = B(j))
<1>1. l \in Nat /\ r \in Nat /\ T \in Nat
  OBVIOUS
<1>2. /\ \A i \in 1 .. l : A(i) \in Nat
      /\ \A j \in 1 .. r : B(j) \in Nat
  <2>1. \A x \in Nodes : x.weight \in Nat
    BY DEF Nodes
  <2> QED BY <2>1
<1>3. /\ \A i, k \in 1 .. l : i <= k => A(i) <= A(k)
      /\ \A j, k \in 1 .. r : j <= k => B(j) <= B(k)
  BY DEF Ascending
<1>4. /\ out \in Seq(Nodes) /\ Len(out) = T /\ at[0] = 0
      /\ \A n \in 0 .. T : at[n] \in 0 .. l /\ n - at[n] \in 0 .. r
  BY DEF Interleaves
<1>5. \A n \in 1 .. T :
           \/ /\ at[n] = at[n - 1] + 1 /\ C(n) = A(at[n])
              /\ n - at[n] = r \/ A(at[n]) < B(n - at[n] + 1)
           \/ /\ at[n] = at[n - 1] /\ C(n) = B(n - at[n])
              /\ at[n] = l \/ ~ (A(at[n] + 1) < B(n - at[n]))
  BY DEF Interleaves
<1> HIDE DEF l, r, T, A, B, C
<1>6. ASSUME NEW n \in 1 .. T, Holds(n - 1, at[n - 1], n - 1 - at[n - 1])
      PROVE  Holds(n, at[n], n - at[n]) /\ (n - 1 >= 1 => C(n - 1) <= C(n))
  <2> DEFINE m == n - 1
             i == at[m]
             j == m - i
  <2>1. /\ n \in 0 .. T /\ m \in 0 .. T /\ m \in Nat /\ n = m + 1
        /\ i \in 0 .. l /\ j \in 0 .. r /\ at[n] \in 0 .. l /\ n - at[n] \in 0 .. r
    BY <1>1, <1>4
  <2>2. Holds(m, i, j)
    BY <1>6
  <2>3. \/ /\ at[n] = i + 1 /\ C(n) = A(i + 1)
           /\ n - at[n] = r \/ A(i + 1) < B(n - at[n] + 1)
        \/ /\ at[n] = i /\ C(n) = B(n - i)
           /\ i = l \/ ~ (A(i + 1) < B(n - i))
    BY <1>5
  <2>4. m = i + j
    BY <1>1, <2>1
  <2> HIDE DEF m, i, j
  <2>5. CASE /\ at[n] = i + 1 /\ C(n) = A(i + 1)
             /\ n - at[n] = r \/ A(i + 1) < B(n - at[n] + 1)
    <3>1. n - at[n] = j /\ i + 1 \in 1 .. l /\ i < l
      BY <1>1, <2>1, <2>4, <2>5
    <3>2. j = r \/ A(i + 1) < B(j + 1)
      BY <2>5, <3>1
    <3>3. A(i + 1) \in Nat
      BY <1>2, <3>1
    <3>4. i >= 1 => A(i) <= A(i + 1)
      BY <1>1, <1>3, <2>1, <3>1
    <3>5. j >= 1 => B(j) <= A(i + 1)
      BY <2>2, <3>1
    <3>6. i + 1 < l /\ j >= 1 => B(j) <= A(i + 1 + 1)
      <4> SUFFICES ASSUME i + 1 < l, j >= 1 PROVE B(j) <= A(i + 1 + 1)
        OBVIOUS
      <4>1. i + 1 + 1 \in 1 .. l /\ j \in 1 .. r
        BY <1>1, <2>1
      <4>2. A(i + 1) <= A(i + 1 + 1) /\ A(i + 1 + 1) \in Nat /\ B(j) \in Nat
        BY <1>1, <1>2, <1>3, <2>1, <3>1, <4>1
      <4> QED BY <3>3, <3>5, <4>2
    <3>7. Holds(n, i + 1, j)
      BY <1>1, <2>1, <2>5, <3>2, <3>3, <3>5, <3>6
    <3>8. m >= 1 => C(m) <= C(n)
      BY <2>2, <2>5, <3>4, <3>5
    <3> QED BY <2>5, <3>1, <3>7, <3>8 DEF m
  <2>6. CASE /\ at[n] = i /\ C(n) = B(n - i)
             /\ i = l \/ ~ (A(i + 1) < B(n - i))
    <3>1. n - i = j + 1 /\ j + 1 \in 1 .. r /\ j < r
      BY <1>1, <2>1, <2>4, <2>6
    <3>2. (i = l \/ ~ (A(i + 1) < B(j + 1))) /\ C(n) = B(j + 1)
      BY <2>6, <3>1
    <3>3. B(j + 1) \in Nat
      BY <1>2, <3>1
    <3>4. j >= 1 => B(j) <= B(j + 1)
      BY <1>1, <1>3, <2>1, <3>1
    <3>5. i >= 1 => A(i) < B(j + 1) /\ A(i) \in Nat
      <4>1. i >= 1 => i \in 1 .. l
        BY <1>1, <2>1
      <4> QED BY <1>2, <2>2, <3>1, <4>1
    <3>6. j + 1 < r /\ i >= 1 => A(i) < B(j + 1 + 1)
      <4> SUFFICES ASSUME j + 1 < r, i >= 1 PROVE A(i) < B(j + 1 + 1)
        OBVIOUS
      <4>1. j + 1 + 1 \in 1 .. r
        BY <1>1, <2>1
      <4>2. B(j + 1) <= B(j + 1 + 1) /\ B(j + 1 + 1) \in Nat
        BY <1>1, <1>2, <1>3, <2>1, <3>1, <4>1
      <4> QED BY <3>3, <3>5, <4>2
    <3>7. i < l => B(j + 1) <= A(i + 1)
      <4> SUFFICES ASSUME i < l PROVE B(j + 1) <= A(i + 1)
        OBVIOUS
      <4>1. i + 1 \in 1 .. l /\ i # l
        BY <1>1, <2>1
      <4>2. A(i + 1) \in Nat
        BY <1>2, <4>1
      <4> QED BY <3>2, <3>3, <4>1, <4>2
    <3>8. Holds(n, i, j + 1)
      BY <1>1, <2>1, <3>2, <3>3, <3>5, <3>6, <3>7
    <3>9. m >= 1 => C(m) <= C(n)
      BY <2>2, <3>2, <3>3, <3>4, <3>5
    <3> QED BY <2>6, <3>1, <3>8, <3>9 DEF m
  <2> QED BY <2>3, <2>5, <2>6
<1>7. \A n \in 0 .. T : Holds(n, at[n], n - at[n])
  <2> DEFINE S == {n \in 0 .. T : Holds(n, at[n], n - at[n])}
  <2>1. 0 \in S
    BY <1>1, <1>4
  <2>2. ASSUME NEW n \in 1 .. T, n - 1 \in S PROVE n \in S
    <3> HIDE DEF Holds
    <3>1. n \in 0 .. T
      BY <1>1
    <3> QED BY <1>6, <2>2, <3>1
  <2> HIDE DEF S, Holds
  <2>3. \A n \in 0 .. T : n \in S
    BY <1>1, <2>1, <2>2, UpTo
  <2> QED BY <2>3 DEF S
<1>8. ASSUME NEW n \in 1 .. Len(out) - 1
      PROVE  out[n].weight <= out[n + 1].weight
  <2> DEFINE k == n + 1
  <2>1. k \in 1 .. T /\ k - 1 = n /\ n \in 0 .. T /\ n >= 1
    BY <1>1, <1>4
  <2> HIDE DEF Holds, k
  <2>2. C(k - 1) <= C(k)
    BY <1>6, <1>7, <2>1
  <2> QED BY <2>1, <2>2 DEF C, k
<1>9. Ascending(out)
  BY <1>4, <1>8, NeighboursAscend
<1>10. \A n \in 0 .. T : LET i == at[n]  j == n - at[n]
              IN  /\ i >= 1 /\ j < r => A(i) < B(j + 1)
                  /\ j >= 1 /\ i < l => B(j) <= A(i + 1)
                  /\ j >= 1 => B(j) <= C(n)
  BY <1>7
<1> QED BY <1>9, <1>10 DEF A, B, C, l, r, T

(* Packages of an ascending list ascend, and are heavier than its nodes.   *)
LEMMA PackageAscends ==
  ASSUME NEW nodes \in Seq(Nodes), Len(nodes) >= 2, Ascending(nodes)
  PROVE  /\ Ascending(package(nodes))
         /\ \A k \in 1 .. Len(nodes) \div 2 :
              nodes[2 * k].weight <= package(nodes)[k].weight
<1> DEFINE L == Len(nodes)
           H == L \div 2
           p == package(nodes)
           W(n) == nodes[n].weight
<1>1. /\ p \in Seq(Nodes) /\ Len(p) = H
      /\ \A k \in 1 .. H : p[k] = Both(nodes[2 * k - 1], nodes[2 * k])
  BY PackageNodes
<1>2. /\ L \in Nat /\ H \in Nat
      /\ \A k \in 1 .. H : 2 * k - 1 \in 1 .. L /\ 2 * k \in 1 .. L
  OBVIOUS
<1>3. /\ \A n \in 1 .. L : nodes[n] \in Nodes
      /\ \A i, j \in 1 .. L : i <= j => W(i) <= W(j)
  BY DEF Ascending
<1>4. \A n \in 1 .. L : W(n) \in Nat
  BY <1>3 DEF Nodes
<1> HIDE DEF L, H, p, W
<1>5. ASSUME NEW k \in 1 .. H
      PROVE  p[k].weight = W(2 * k - 1) + W(2 * k)
  <2> DEFINE x == nodes[2 * k - 1]
             y == nodes[2 * k]
  <2>1. x \in Nodes /\ y \in Nodes /\ p[k] = Both(x, y)
    BY <1>1, <1>2, <1>3
  <2>2. x.weight = W(2 * k - 1) /\ y.weight = W(2 * k)
    BY DEF W
  <2> HIDE DEF x, y
  <2> QED BY <2>1, <2>2, BothIs
<1>6. \A k \in 1 .. H : W(2 * k) <= p[k].weight
  <2> SUFFICES ASSUME NEW k \in 1 .. H PROVE W(2 * k) <= p[k].weight
    OBVIOUS
  <2>1. W(2 * k - 1) \in Nat /\ W(2 * k) \in Nat
    BY <1>2, <1>4
  <2> QED BY <1>5, <2>1
<1>7. ASSUME NEW i \in 1 .. H, NEW j \in 1 .. H, i <= j
      PROVE  p[i].weight <= p[j].weight
  <2>1. /\ 2 * i - 1 \in 1 .. L /\ 2 * i \in 1 .. L /\ 2 * j - 1 \in 1 .. L /\ 2 * j \in 1 .. L
        /\ 2 * i - 1 <= 2 * j - 1 /\ 2 * i <= 2 * j
    BY <1>2, <1>7
  <2>2. W(2 * i - 1) <= W(2 * j - 1) /\ W(2 * i) <= W(2 * j)
    BY <1>3, <2>1
  <2>3. W(2 * i - 1) \in Nat /\ W(2 * i) \in Nat /\ W(2 * j - 1) \in Nat /\ W(2 * j) \in Nat
    BY <1>4, <2>1
  <2> QED BY <1>5, <2>2, <2>3
<1>8. Ascending(p)
  BY <1>1, <1>7 DEF Ascending
<1> QED BY <1>6, <1>8 DEF W, H, L, p

LEMMA TotalPlus ==
  ASSUME NEW w \in [Symbols -> Nat], NEW v \in [Symbols -> Nat]
  PROVE  Total(Plus(w, v)) = Total(w) + Total(v) /\ Total(w) \in Nat
<1>1. PICK f : Sums(f, w)
  BY SumsExist
<1>2. PICK g : Sums(g, v)
  BY SumsExist
<1> DEFINE h == [n \in 0 .. N |-> f[n] + g[n]]
<1>3. N \in Nat /\ N \in 0 .. N /\ \A n \in 1 .. N : n - 1 \in Symbols /\ n - 1 \in 0 .. N /\ n \in 0 .. N
  BY HuffmanAssumption DEF Symbols
<1>4. /\ \A n \in 0 .. N : f[n] \in Nat /\ g[n] \in Nat
      /\ f[0] = 0 /\ g[0] = 0
      /\ \A n \in 1 .. N : f[n] = f[n - 1] + w[n - 1] /\ g[n] = g[n - 1] + v[n - 1]
  BY <1>1, <1>2 DEF Sums
<1>5. Plus(w, v) \in [Symbols -> Nat] /\ \A s \in Symbols : Plus(w, v)[s] = w[s] + v[s]
  BY PlusIs
<1>6. h \in [0 .. N -> Nat] /\ h[0] = 0
  BY <1>3, <1>4
<1>7. ASSUME NEW n \in 1 .. N PROVE h[n] = h[n - 1] + Plus(w, v)[n - 1]
  <2> DEFINE m == n - 1
  <2>1. m \in Symbols /\ m \in 0 .. N /\ n \in 0 .. N
    BY <1>3
  <2>2. f[n] = f[m] + w[m] /\ g[n] = g[m] + v[m] /\ Plus(w, v)[m] = w[m] + v[m]
    BY <1>4, <1>5, <2>1
  <2>3. f[m] \in Nat /\ g[m] \in Nat /\ w[m] \in Nat /\ v[m] \in Nat
    BY <1>4, <2>1
  <2>4. h[n] = f[n] + g[n] /\ h[m] = f[m] + g[m]
    BY <2>1
  <2> HIDE DEF h, m
  <2>5. h[n] = h[m] + Plus(w, v)[m]
    BY <2>2, <2>3, <2>4
  <2> QED BY <2>5 DEF m
<1>8. h[N] = f[N] + g[N]
  BY <1>3
<1> HIDE DEF h
<1>9. Sums(h, Plus(w, v))
  BY <1>6, <1>7 DEF Sums
<1>10. Total(Plus(w, v)) = h[N] /\ Total(w) = f[N] /\ Total(v) = g[N]
  BY <1>1, <1>2, <1>5, <1>9, TotalIs
<1> QED BY <1>3, <1>4, <1>8, <1>10

LEMMA TotalTimes ==
  ASSUME NEW w \in [Symbols -> Nat], NEW x \in Nat
  PROVE  Total([s \in Symbols |-> x * w[s]]) = x * Total(w)
<1>1. PICK f : Sums(f, w)
  BY SumsExist
<1> DEFINE h == [n \in 0 .. N |-> x * f[n]]
           v == [s \in Symbols |-> x * w[s]]
<1>2. N \in Nat /\ N \in 0 .. N /\ \A n \in 1 .. N : n - 1 \in Symbols /\ n - 1 \in 0 .. N /\ n \in 0 .. N
  BY HuffmanAssumption DEF Symbols
<1>3. /\ \A n \in 0 .. N : f[n] \in Nat
      /\ f[0] = 0
      /\ \A n \in 1 .. N : f[n] = f[n - 1] + w[n - 1]
  BY <1>1 DEF Sums
<1>4. \A k \in Nat : x * k \in Nat
  OBVIOUS
<1>5. v \in [Symbols -> Nat] /\ \A s \in Symbols : v[s] = x * w[s]
  BY <1>4
<1>6. h \in [0 .. N -> Nat] /\ h[0] = 0
  BY <1>2, <1>3, <1>4
<1>7. ASSUME NEW n \in 1 .. N PROVE h[n] = h[n - 1] + v[n - 1]
  <2> DEFINE m == n - 1
             a == f[m]
             b == w[m]
  <2>1. m \in Symbols /\ m \in 0 .. N /\ n \in 0 .. N
    BY <1>2
  <2>2. f[n] = a + b /\ v[m] = x * b
    BY <1>3, <1>5, <2>1
  <2>3. a \in Nat /\ b \in Nat
    BY <1>3, <2>1
  <2>4. h[n] = x * f[n] /\ h[m] = x * a
    BY <2>1
  <2> HIDE DEF h, v, m, a, b
  <2>5. x * (a + b) = x * a + x * b
    BY <2>3
  <2>6. h[n] = h[m] + v[m]
    BY <2>2, <2>4, <2>5
  <2> QED BY <2>6 DEF m
<1>8. h[N] = x * f[N]
  BY <1>2
<1> HIDE DEF h, v
<1>9. Sums(h, v)
  BY <1>6, <1>7 DEF Sums
<1>10. Total(v) = h[N] /\ Total(w) = f[N]
  BY <1>1, <1>5, <1>9, TotalIs
<1> QED BY <1>8, <1>10 DEF v

LEMMA LeadingIs ==
  ASSUME NEW source, NEW sorted, Sorted(source, sorted)
  PROVE  /\ Leading(sorted, 0) = {}
         /\ \A a \in 0 .. Len(source) : Leading(sorted, a) \in SUBSET Symbols
         /\ \A a, b \in 0 .. Len(source) : a <= b => Leading(sorted, a) \subseteq Leading(sorted, b)
         /\ \A a \in 1 .. Len(source) :
              /\ sorted[a] \in Symbols /\ sorted[a] \notin Leading(sorted, a - 1)
              /\ Leading(sorted, a) = Leading(sorted, a - 1) \cup {sorted[a]}
<1> DEFINE L == Len(source)
<1>1. /\ L \in Nat
      /\ \A i \in 1 .. L : sorted[i] \in Symbols
      /\ \A i, j \in 1 .. L : sorted[i] = sorted[j] => i = j
  <2>1. source \in Seq(Nodes)
    BY DEF Sorted
  <2>2. /\ \A i \in 1 .. L : sorted[i] \in Symbols
        /\ \A i, j \in 1 .. L : sorted[i] = sorted[j] => i = j
    BY Zenon DEF Sorted
  <2> QED BY <2>1, <2>2
<1> HIDE DEF L
<1>2. Leading(sorted, 0) = {}
  BY DEF Leading
<1>3. \A a \in 0 .. L : Leading(sorted, a) \in SUBSET Symbols
  <2>1. \A a \in 0 .. L : \A i \in 1 .. a : i \in 1 .. L
    BY <1>1
  <2> QED BY <1>1, <2>1 DEF Leading
<1>4. \A a, b \in 0 .. L : a <= b => Leading(sorted, a) \subseteq Leading(sorted, b)
  <2>1. \A a, b \in 0 .. L : a <= b => \A i \in 1 .. a : i \in 1 .. b
    BY <1>1
  <2> QED BY <2>1 DEF Leading
<1>5. ASSUME NEW a \in 1 .. L
      PROVE  /\ sorted[a] \in Symbols /\ sorted[a] \notin Leading(sorted, a - 1)
             /\ Leading(sorted, a) = Leading(sorted, a - 1) \cup {sorted[a]}
  <2>1. /\ \A i : i \in 1 .. a <=> i \in 1 .. a - 1 \/ i = a
        /\ \A i \in 1 .. a - 1 : i \in 1 .. L /\ i # a
    BY <1>1
  <2>2. sorted[a] \notin Leading(sorted, a - 1)
    BY <1>1, <2>1 DEF Leading
  <2> QED BY <1>1, <2>1, <2>2 DEF Leading
<1> QED BY <1>2, <1>3, <1>4, <1>5 DEF L

LEMMA TotalLeading ==
  ASSUME NEW source, NEW sorted, Sorted(source, sorted), NEW x \in Nat
  PROVE  \A a \in 0 .. Len(source) :
           Total([s \in Symbols |-> IF s \in Leading(sorted, a) THEN x ELSE 0]) = a * x
<1> DEFINE L == Len(source)
           w(a) == [s \in Symbols |-> IF s \in Leading(sorted, a) THEN x ELSE 0]
           S == {a \in 0 .. L : Total(w(a)) = a * x}
<1>1. L \in Nat
  BY DEF Sorted
<1>2. \A a : w(a) \in [Symbols -> Nat]
  OBVIOUS
<1>3. 0 \in S
  <2>1. \A s \in Symbols : w(0)[s] = 0
    BY LeadingIs
  <2>2. w(0) \in [Symbols -> Nat]
    BY <1>2
  <2> HIDE DEF w
  <2>3. Total(w(0)) = 0
    BY <2>1, <2>2, TotalNone
  <2> QED BY <1>1, <2>3
<1>4. ASSUME NEW a \in 1 .. L, a - 1 \in S PROVE a \in S
  <2> DEFINE b == a - 1
             s == sorted[a]
             u == w(b)
             v == w(a)
  <2>1. a \in 0 .. L /\ b \in Nat /\ a = b + 1 /\ a \in Nat
    BY <1>1
  <2>2. s \in Symbols /\ s \notin Leading(sorted, b)
        /\ Leading(sorted, a) = Leading(sorted, b) \cup {s}
    BY LeadingIs
  <2>3. u[s] = 0 /\ v[s] = x /\ \A t \in Symbols \ {s} : v[t] = u[t]
    BY <2>2
  <2>4. u \in [Symbols -> Nat] /\ v \in [Symbols -> Nat] /\ v[s] = u[s] + x
    BY <1>2, <2>3
  <2>5. Total(u) = b * x
    BY <1>4
  <2> HIDE DEF u, v, b, s
  <2>6. Total(v) = Total(u) + x
    BY <2>2, <2>3, <2>4, TotalAdd
  <2>7. a * x = b * x + x
    BY <2>1
  <2>8. Total(v) = a * x
    BY <2>5, <2>6, <2>7
  <2> QED BY <2>1, <2>8 DEF v
<1> HIDE DEF S, L
<1>5. \A a \in 0 .. L : a \in S
  BY <1>1, <1>3, <1>4, UpTo
<1> QED BY <1>5 DEF S, L

(* How much shorter a table a code of these lengths needs than as many     *)
(* codes of no length, in tables of Two(k) places.                         *)
Spared(k, v) == [s \in Symbols |-> Two(k) - Two(k - v[s])]

(* A list of nodes up to a place: the symbols that it has are the first a  *)
(* of the source, none more than k times, and it spares x places.          *)
Grown(sorted, k, v, a, x) ==
  /\ v \in [Symbols -> 0 .. k]
  /\ \A s \in Symbols : v[s] > 0 <=> s \in Leading(sorted, a)
  /\ Total(Spared(k, v)) = x

LEMMA SparedIs ==
  ASSUME NEW k \in 0 .. MAX_BITS, NEW v \in [Symbols -> 0 .. k]
  PROVE  /\ Spared(k, v) \in [Symbols -> Nat]
         /\ \A s \in Symbols : /\ Two(k - v[s]) \in Nat \ {0} /\ Two(k) \in Nat \ {0}
                               /\ Spared(k, v)[s] = Two(k) - Two(k - v[s])
                               /\ Two(k - v[s]) <= Two(k)
<1>1. ASSUME NEW s \in Symbols
      PROVE  Two(k - v[s]) \in Nat \ {0} /\ Two(k) \in Nat \ {0} /\ Two(k - v[s]) <= Two(k)
  <2> DEFINE m == k - v[s]
  <2>1. m \in 0 .. MAX_BITS /\ v[s] \in 0 .. MAX_BITS - m /\ m + v[s] = k
    <3> DEFINE e == v[s]
    <3>1. e \in 0 .. k
      OBVIOUS
    <3> HIDE DEF e
    <3>2. k - e \in 0 .. MAX_BITS /\ e \in 0 .. MAX_BITS - (k - e) /\ (k - e) + e = k
      BY <3>1 DEF MAX_BITS
    <3> QED BY <3>2 DEF e
  <2> HIDE DEF m
  <2>2. Two(m) <= Two(m + v[s])
    BY <2>1, PowerSum
  <2>3. Two(m) \in Nat \ {0} /\ Two(k) \in Nat \ {0}
    BY <2>1, Powers
  <2> QED BY <2>1, <2>2, <2>3 DEF m
<1>2. \A s \in Symbols : Two(k) - Two(k - v[s]) \in Nat
  BY <1>1
<1> QED BY <1>1, <1>2 DEF Spared

(* What the first j nodes of the source add: each of their symbols is      *)
(* there once more, and no other was there before.                         *)
LEMMA GrowStep ==
  ASSUME NEW source, NEW sorted, Sorted(source, sorted), NEW b, Counted(b, source),
         NEW k \in 0 .. MAX_BITS - 1, NEW v, NEW a \in 0 .. Len(source), NEW x \in Nat,
         Grown(sorted, k, v, a, x), NEW j \in a .. Len(source)
  PROVE  Grown(sorted, k + 1, Plus(v, b[j]), j, x + j * Two(k))
<1> DEFINE n == Len(source)
           In(i) == Leading(sorted, i)
           u == b[j]
           y == Plus(v, u)
           t == [s \in Symbols |-> IF s \in In(j) THEN Two(k) ELSE 0]
<1>1. n \in Nat /\ source \in Seq(Nodes)
  BY DEF Sorted
<1>2. /\ k \in 0 .. MAX_BITS /\ k + 1 \in 0 .. MAX_BITS /\ k + 1 \in 1 .. MAX_BITS
      /\ k \in Nat /\ (k + 1) - 1 = k
  BY DEF MAX_BITS
<1>3. Two(k) \in Nat \ {0} /\ Two(k + 1) = 2 * Two(k)
  BY <1>2, Powers
<1>4. a \in 0 .. n /\ j \in 0 .. n /\ a <= j
  BY <1>1
<1>5. /\ b \in [0 .. n -> [Symbols -> Nat]] /\ b[0] = Never
      /\ \A i \in 1 .. n : b[i] = Plus(b[i - 1], source[i].symbols)
  BY DEF Counted
<1> HIDE DEF n
<1>6. \A i \in 0 .. n : \A s \in Symbols : b[i][s] = IF s \in In(i) THEN 1 ELSE 0
  <2> DEFINE Has(i) == \A s \in Symbols : b[i][s] = IF s \in In(i) THEN 1 ELSE 0
             S == {i \in 0 .. n : Has(i)}
  <2>1. 0 \in S
    <3>1. In(0) = {}
      BY LeadingIs
    <3> QED BY <1>1, <1>5, <3>1 DEF Never
  <2>2. ASSUME NEW i \in 1 .. n, i - 1 \in S PROVE i \in S
    <3> DEFINE p == b[i - 1]
               q == source[i].symbols
    <3>1. i \in 0 .. n /\ i - 1 \in 0 .. n
      BY <1>1
    <3>2. p \in [Symbols -> Nat] /\ b[i] = Plus(p, q)
      BY <1>5, <3>1
    <3>3. q = [w \in Symbols |-> IF w = sorted[i] THEN 1 ELSE 0]
      BY Zenon DEF Sorted, n
    <3>4. q \in [Symbols -> Nat] /\ \A s \in Symbols : q[s] = IF s = sorted[i] THEN 1 ELSE 0
      BY <3>3
    <3>5. sorted[i] \notin In(i - 1) /\ In(i) = In(i - 1) \cup {sorted[i]}
      BY LeadingIs DEF n
    <3>6. \A s \in Symbols : p[s] = IF s \in In(i - 1) THEN 1 ELSE 0
      BY <2>2
    <3> HIDE DEF p, q, In
    <3>7. \A s \in Symbols : b[i][s] = p[s] + q[s]
      BY <3>2, <3>4, PlusIs
    <3>8. Has(i)
      BY <3>4, <3>5, <3>6, <3>7
    <3> QED BY <3>1, <3>8
  <2> HIDE DEF S, Has
  <2>3. \A i \in 0 .. n : i \in S
    BY <1>1, <2>1, <2>2, UpTo
  <2> QED BY <2>3 DEF S, Has
<1>7. /\ v \in [Symbols -> 0 .. k] /\ Total(Spared(k, v)) = x
      /\ \A s \in Symbols : v[s] > 0 <=> s \in In(a)
  BY DEF Grown
<1>8. In(a) \subseteq In(j)
  BY <1>4, LeadingIs DEF n
<1>9. u \in [Symbols -> Nat] /\ \A s \in Symbols : u[s] = IF s \in In(j) THEN 1 ELSE 0
  BY <1>4, <1>5, <1>6
<1>10. v \in [Symbols -> Nat]
  BY <1>7
<1> HIDE DEF In, u
<1>11. \A s \in Symbols : y[s] = v[s] + u[s]
  BY <1>9, <1>10, PlusIs
<1>12. y \in [Symbols -> Nat]
  BY <1>9, <1>10, PlusIs
<1> HIDE DEF y
<1>13. \A s \in Symbols : /\ y[s] \in 0 .. k + 1
                          /\ y[s] > 0 <=> s \in In(j)
  <2> SUFFICES ASSUME NEW s \in Symbols
               PROVE  y[s] \in 0 .. k + 1 /\ (y[s] > 0 <=> s \in In(j))
    OBVIOUS
  <2>1. v[s] \in 0 .. k /\ (v[s] > 0 <=> s \in In(a)) /\ u[s] = (IF s \in In(j) THEN 1 ELSE 0)
        /\ y[s] = v[s] + u[s]
    BY <1>7, <1>9, <1>11
  <2> QED BY <1>2, <1>8, <2>1
<1>14. y \in [Symbols -> 0 .. k + 1]
  BY <1>12, <1>13
<1>15. /\ Spared(k, v) \in [Symbols -> Nat] /\ Spared(k + 1, y) \in [Symbols -> Nat]
       /\ t \in [Symbols -> Nat]
  BY <1>2, <1>3, <1>7, <1>14, SparedIs
<1>16. ASSUME NEW s \in Symbols
       PROVE  Spared(k + 1, y)[s] = Spared(k, v)[s] + t[s]
  <2>1. /\ Spared(k, v)[s] = Two(k) - Two(k - v[s]) /\ Two(k - v[s]) \in Nat
        /\ Spared(k + 1, y)[s] = Two(k + 1) - Two((k + 1) - y[s])
    <3>1. Spared(k, v)[s] = Two(k) - Two(k - v[s]) /\ Two(k - v[s]) \in Nat
      BY <1>2, <1>7, SparedIs
    <3>2. Spared(k + 1, y)[s] = Two(k + 1) - Two((k + 1) - y[s])
      <4> DEFINE K == k + 1
      <4>1. K \in 0 .. MAX_BITS /\ y \in [Symbols -> 0 .. K]
        BY <1>2, <1>14
      <4> HIDE DEF K
      <4>2. Spared(K, y)[s] = Two(K) - Two(K - y[s])
        BY <4>1, SparedIs
      <4> QED BY <4>2 DEF K
    <3> QED BY <3>1, <3>2
  <2>2. v[s] \in 0 .. k /\ (v[s] > 0 <=> s \in In(a)) /\ u[s] = (IF s \in In(j) THEN 1 ELSE 0)
        /\ y[s] = v[s] + u[s]
    BY <1>7, <1>9, <1>11
  <2>3. CASE s \in In(j)
    <3>1. (k + 1) - y[s] = k - v[s] /\ t[s] = Two(k)
      BY <1>2, <2>2, <2>3
    <3> HIDE DEF t
    <3> QED BY <1>3, <2>1, <3>1
  <2>4. CASE s \notin In(j)
    <3>1. v[s] = 0 /\ y[s] = 0 /\ t[s] = 0 /\ (k + 1) - y[s] = k + 1 /\ k - v[s] = k
      BY <1>2, <1>8, <2>2, <2>4
    <3> HIDE DEF t
    <3> QED BY <1>3, <2>1, <3>1
  <2> QED BY <2>3, <2>4
<1>17. Total(t) = j * Two(k)
  BY <1>3, <1>4, TotalLeading, SMTT(30) DEF In, n
<1> HIDE DEF t
<1>18. Spared(k + 1, y) = Plus(Spared(k, v), t)
  <2> DEFINE p == Spared(k, v)
             q == Spared(k + 1, y)
  <2>1. p \in [Symbols -> Nat] /\ q \in [Symbols -> Nat] /\ \A s \in Symbols : q[s] = p[s] + t[s]
    BY <1>15, <1>16
  <2> HIDE DEF p, q
  <2>2. q = Plus(p, t)
    BY <2>1 DEF Plus
  <2> QED BY <2>2 DEF p, q
<1>19. Total(Spared(k + 1, y)) = x + j * Two(k)
  <2> DEFINE p == Spared(k, v)
  <2>1. p \in [Symbols -> Nat] /\ Total(p) = x
    BY <1>7, <1>15
  <2> HIDE DEF p
  <2>2. Total(Plus(p, t)) = Total(p) + Total(t)
    BY <1>15, <2>1, TotalPlus
  <2> QED BY <1>17, <1>18, <2>1, <2>2 DEF p
<1> QED BY <1>13, <1>14, <1>19 DEF Grown, y, u, In

(* A list of nodes, each worth x places: its beginnings have, whatever     *)
(* their length, the lightest symbols of the source, and no node is        *)
(* lighter than those of the source that come before it.                   *)
Levelled(source, sorted, k, x, nodes) ==
  \E c, a :
    /\ Counted(c, nodes)
    /\ \A p \in 0 .. Len(nodes) :
         /\ a[p] \in 0 .. Len(source) /\ Grown(sorted, k, c[p], a[p], p * x)
         /\ a[p] >= 1 => p >= 1 /\ source[a[p]].weight <= nodes[p].weight

LEMMA FirstLevel ==
  ASSUME NEW source, NEW sorted, Sorted(source, sorted)
  PROVE  Levelled(source, sorted, 1, Two(0), source)
<1> DEFINE n == Len(source)
<1>1. source \in Seq(Nodes) /\ n \in Nat /\ 0 \in 0 .. n
  BY DEF Sorted
<1>2. PICK c : Counted(c, source)
  BY <1>1, ContentsExist
<1>3. Two(0) = 1 /\ 0 \in 0 .. MAX_BITS - 1 /\ 0 \in 0 .. MAX_BITS
  BY Powers DEF MAX_BITS
<1>4. Grown(sorted, 0, Never, 0, 0)
  <2>1. Never \in [Symbols -> 0 .. 0] /\ \A s \in Symbols : Never[s] = 0
    BY DEF Never
  <2>2. Leading(sorted, 0) = {}
    BY LeadingIs
  <2>3. Spared(0, Never) \in [Symbols -> Nat]
    BY <1>3, <2>1, SparedIs
  <2>4. \A s \in Symbols : Spared(0, Never)[s] = 0
    <3>1. 0 - 0 = 0 /\ Two(0) - Two(0) = 0
      BY <1>3
    <3> QED BY <1>3, <2>1, <3>1 DEF Spared
  <2>5. Total(Spared(0, Never)) = 0
    BY <2>3, <2>4, TotalNone
  <2> QED BY <2>1, <2>2, <2>5 DEF Grown
<1> DEFINE a == [p \in 0 .. n |-> p]
<1>5. ASSUME NEW p \in 0 .. n
      PROVE  /\ a[p] \in 0 .. n /\ Grown(sorted, 1, c[p], a[p], p * Two(0))
             /\ a[p] >= 1 => p >= 1 /\ source[a[p]].weight <= source[p].weight
  <2>1. Grown(sorted, 0 + 1, Plus(Never, c[p]), p, 0 + p * Two(0))
    <3>1. 0 \in Nat /\ p \in 0 .. Len(source)
      OBVIOUS
    <3> QED BY <1>1, <1>2, <1>3, <1>4, <3>1, GrowStep
  <2>2. Plus(Never, c[p]) = c[p]
    <3>1. c[p] \in [Symbols -> Nat]
      BY <1>2 DEF Counted
    <3> DEFINE u == c[p]
    <3> HIDE DEF u
    <3>2. \A s \in Symbols : Never[s] + u[s] = u[s]
      BY <3>1 DEF Never, u
    <3>3. Plus(Never, u) = u
      BY <3>1, <3>2 DEF Plus, u
    <3> QED BY <3>3 DEF u
  <2>3. 0 + 1 = 1 /\ 0 + p * Two(0) = p * Two(0) /\ a[p] = p
    BY <1>1, <1>3
  <2>4. p >= 1 => source[p].weight <= source[p].weight
    <3>1. \A x \in Nodes : x.weight \in Nat
      BY DEF Nodes
    <3>2. p >= 1 => source[p] \in Nodes
      BY <1>1
    <3> QED BY <3>1, <3>2
  <2> HIDE DEF a
  <2> QED BY <2>1, <2>2, <2>3, <2>4
<1> HIDE DEF a
<1> QED BY <1>2, <1>5 DEF Levelled

LEMMA PackageLevel ==
  ASSUME NEW source, NEW sorted, Sorted(source, sorted), NEW k \in Nat, NEW x \in Nat,
         NEW nodes \in Seq(Nodes), Len(nodes) >= 2, Ascending(nodes),
         Levelled(source, sorted, k, x, nodes)
  PROVE  Levelled(source, sorted, k, 2 * x, package(nodes))
<1> DEFINE L == Len(nodes)
           H == L \div 2
           pk == package(nodes)
           n == Len(source)
<1>1. /\ L \in Nat /\ H \in Nat /\ \A p \in 0 .. H : 2 * p \in 0 .. L
      /\ \A p \in 0 .. H : 2 * p >= 1 => p \in 1 .. H /\ p >= 1 /\ 2 * p \in 1 .. L
  OBVIOUS
<1>2. PICK c, a :
        /\ Counted(c, nodes)
        /\ \A p \in 0 .. L :
             /\ a[p] \in 0 .. n /\ Grown(sorted, k, c[p], a[p], p * x)
             /\ a[p] >= 1 => p >= 1 /\ source[a[p]].weight <= nodes[p].weight
  BY DEF Levelled
<1> DEFINE d == [p \in 0 .. H |-> c[2 * p]]
           e == [p \in 0 .. H |-> a[2 * p]]
<1>3. Counted(d, pk) /\ Len(pk) = H /\ pk \in Seq(Nodes)
  BY <1>2, PackageCounted, PackageNodes
<1>4. \A p \in 1 .. H : nodes[2 * p].weight <= pk[p].weight
  BY PackageAscends
<1>5. source \in Seq(Nodes) /\ \A y \in Nodes : y.weight \in Nat
  BY DEF Sorted, Nodes
<1>6. /\ \A i \in 1 .. n : source[i].weight \in Nat
      /\ \A i \in 1 .. L : nodes[i].weight \in Nat
      /\ \A i \in 1 .. H : pk[i].weight \in Nat
  BY <1>3, <1>5
<1>7. \A p \in 0 .. H : d[p] = c[2 * p] /\ e[p] = a[2 * p]
  OBVIOUS
<1> HIDE DEF L, H, pk, n, d, e
<1>8. ASSUME NEW p \in 0 .. H
      PROVE  /\ e[p] \in 0 .. n /\ Grown(sorted, k, d[p], e[p], p * (2 * x))
             /\ e[p] >= 1 => p >= 1 /\ source[e[p]].weight <= pk[p].weight
  <2> DEFINE q == 2 * p
             i == a[q]
  <2>1. q \in 0 .. L /\ q * x = p * (2 * x)
    BY <1>1
  <2>2. /\ i \in 0 .. n /\ Grown(sorted, k, c[q], i, q * x)
        /\ i >= 1 => q >= 1 /\ source[i].weight <= nodes[q].weight
    BY <1>2, <2>1
  <2>3. ASSUME i >= 1 PROVE p >= 1 /\ source[i].weight <= pk[p].weight
    <3>1. q >= 1 /\ source[i].weight <= nodes[q].weight
      BY <2>2, <2>3
    <3>2. p \in 1 .. H /\ p >= 1 /\ q \in 1 .. L
      BY <1>1, <3>1
    <3>3. nodes[q].weight <= pk[p].weight
      BY <1>4, <3>2
    <3>4. i \in 1 .. n
      <4>1. n \in Nat
        BY <1>5 DEF n
      <4> QED BY <2>2, <2>3, <4>1
    <3> HIDE DEF q, i
    <3>5. source[i].weight \in Nat /\ nodes[q].weight \in Nat /\ pk[p].weight \in Nat
      BY <1>6, <3>2, <3>4
    <3> QED BY <3>1, <3>2, <3>3, <3>5
  <2>4. d[p] = c[q] /\ e[p] = i
    BY <1>7
  <2> HIDE DEF q, i
  <2> QED BY <2>1, <2>2, <2>3, <2>4
<1>9. Levelled(source, sorted, k, 2 * x, pk)
  BY <1>3, <1>8 DEF Levelled, n
<1> QED BY <1>9 DEF pk

LEMMA MergeLevel ==
  ASSUME NEW source, NEW sorted, Sorted(source, sorted), NEW k \in 0 .. MAX_BITS - 1,
         NEW left \in Seq(Nodes), Ascending(left),
         Levelled(source, sorted, k, Two(k), left)
  PROVE  /\ Levelled(source, sorted, k + 1, Two(k), merge_nodes(left, source))
         /\ Ascending(merge_nodes(left, source))
         /\ merge_nodes(left, source) \in Seq(Nodes)
         /\ Len(merge_nodes(left, source)) = Len(left) + Len(source)
<1> DEFINE l == Len(left)
           n == Len(source)
           T == l + n
           out == merge_nodes(left, source)
<1>1. source \in Seq(Nodes) /\ Ascending(source) /\ l \in Nat /\ n \in Nat /\ T \in Nat
  BY DEF Sorted
<1>2. PICK at : Interleaves(out, at, left, source)
  BY <1>1, InterleavesExist
<1>3. PICK c, a :
        /\ Counted(c, left)
        /\ \A p \in 0 .. l :
             /\ a[p] \in 0 .. n /\ Grown(sorted, k, c[p], a[p], p * Two(k))
             /\ a[p] >= 1 => p >= 1 /\ source[a[p]].weight <= left[p].weight
  BY DEF Levelled
<1>4. PICK b : Counted(b, source)
  BY <1>1, ContentsExist
<1> DEFINE d == [p \in 0 .. T |-> Plus(c[at[p]], b[p - at[p]])]
           e == [p \in 0 .. T |-> p - at[p]]
<1> HIDE DEF out
<1>5. Counted(d, out)
  BY <1>1, <1>2, <1>3, <1>4, MergeCounted
<1>6. /\ Ascending(out)
      /\ \A p \in 0 .. T :
           LET i == at[p]  j == p - at[p]
           IN  /\ i >= 1 /\ j < n => left[i].weight < source[j + 1].weight
               /\ j >= 1 => source[j].weight <= out[p].weight
  BY <1>1, <1>2, InterleavedIs
<1>7. /\ out \in Seq(Nodes) /\ Len(out) = T
      /\ \A p \in 0 .. T : at[p] \in 0 .. l /\ p - at[p] \in 0 .. n
  BY <1>2 DEF Interleaves
<1>8. \A y \in Nodes : y.weight \in Nat
  BY DEF Nodes
<1>9. /\ \A i \in 1 .. n : source[i].weight \in Nat
      /\ \A i \in 1 .. l : left[i].weight \in Nat
      /\ \A i, j \in 1 .. n : i <= j => source[i].weight <= source[j].weight
  <2>1. \A i \in 1 .. n : source[i] \in Nodes
    BY <1>1
  <2>2. \A i \in 1 .. l : left[i] \in Nodes
    OBVIOUS
  <2>3. \A i, j \in 1 .. n : i <= j => source[i].weight <= source[j].weight
    BY <1>1 DEF Ascending
  <2> QED BY <1>8, <2>1, <2>2, <2>3
<1>10. \A p \in 0 .. T : d[p] = Plus(c[at[p]], b[p - at[p]]) /\ e[p] = p - at[p]
  OBVIOUS
<1>11. Two(k) \in Nat
  <2>1. k \in 0 .. MAX_BITS
    BY DEF MAX_BITS
  <2> QED BY <2>1, Powers
<1> HIDE DEF l, n, T, d, e
<1>12. ASSUME NEW p \in 0 .. T
       PROVE  /\ e[p] \in 0 .. n /\ Grown(sorted, k + 1, d[p], e[p], p * Two(k))
              /\ e[p] >= 1 => p >= 1 /\ source[e[p]].weight <= out[p].weight
  <2> DEFINE i == at[p]
             j == p - at[p]
             h == a[i]
             x == i * Two(k)
  <2>1. i \in 0 .. l /\ j \in 0 .. n /\ p = i + j
    <3>1. i \in 0 .. l /\ j \in 0 .. n
      BY <1>7
    <3> QED BY <1>1, <3>1
  <2>2. /\ h \in 0 .. n /\ Grown(sorted, k, c[i], h, x)
        /\ h >= 1 => i >= 1 /\ source[h].weight <= left[i].weight
    BY <1>3, <2>1
  <2>3. i >= 1 /\ j < n => left[i].weight < source[j + 1].weight
    BY <1>6
  <2>4. j >= 1 => source[j].weight <= out[p].weight
    BY <1>6
  <2>5. d[p] = Plus(c[i], b[j]) /\ e[p] = j
    BY <1>10
  <2>6. x \in Nat /\ x + j * Two(k) = p * Two(k)
    <3>1. i \in Nat /\ j \in Nat
      BY <1>1, <2>1
    <3> HIDE DEF i, j
    <3> DEFINE z == Two(k)
    <3>2. z \in Nat
      BY <1>11
    <3> HIDE DEF z
    <3>3. i * z \in Nat /\ i * z + j * z = (i + j) * z
      BY <3>1, <3>2
    <3> QED BY <2>1, <3>3 DEF z
  <2> HIDE DEF i, j, h, x
  <2>7. h <= j
    <3> SUFFICES ASSUME ~ (h <= j) PROVE FALSE
      OBVIOUS
    <3>1. h \in 1 .. n /\ j + 1 \in 1 .. n /\ j + 1 <= h /\ j < n /\ h >= 1
      BY <1>1, <2>1, <2>2
    <3>2. i >= 1 /\ source[h].weight <= left[i].weight /\ left[i].weight < source[j + 1].weight
      BY <2>2, <2>3, <3>1
    <3>3. i \in 1 .. l
      BY <1>1, <2>1, <3>2
    <3>4. source[j + 1].weight <= source[h].weight
      BY <1>9, <3>1
    <3>5. source[h].weight \in Nat /\ left[i].weight \in Nat /\ source[j + 1].weight \in Nat
      BY <1>9, <3>1, <3>3
    <3> QED BY <3>2, <3>4, <3>5
  <2>8. Grown(sorted, k + 1, Plus(c[i], b[j]), j, x + j * Two(k))
    <3>1. h \in 0 .. Len(source) /\ j \in h .. Len(source)
      BY <1>1, <2>1, <2>2, <2>7 DEF n
    <3> QED BY <1>4, <2>2, <2>6, <3>1, GrowStep
  <2>9. j >= 1 => p >= 1
    BY <1>1, <2>1
  <2> QED BY <2>1, <2>4, <2>5, <2>6, <2>8, <2>9
<1>13. Levelled(source, sorted, k + 1, Two(k), out)
  BY <1>5, <1>7, <1>12 DEF Levelled, n
<1> QED BY <1>6, <1>7, <1>13 DEF out, T, l, n

(* The lists of package-merge: each is worth what the one before is, in    *)
(* packages, and the source once more, and in the end it is as long as it  *)
(* has to be.                                                              *)
Round(source, sorted, m, k, nodes) ==
  LET n == Len(source)
  IN  /\ nodes \in Seq(Nodes) /\ Ascending(nodes)
      /\ Levelled(source, sorted, k + 1, Two(k), nodes)
      /\ Len(nodes) \in n .. 2 * n - 1
      /\ 2 * n - 1 - Len(nodes) < Two(m - k)

LEMMA NextRound ==
  ASSUME NEW source, NEW sorted, Sorted(source, sorted), Len(source) >= 2,
         NEW m \in 1 .. MAX_BITS, NEW k \in 0 .. m - 2, NEW nodes,
         Round(source, sorted, m, k, nodes)
  PROVE  Round(source, sorted, m, k + 1, merge_nodes(package(nodes), source))
<1> DEFINE n == Len(source)
           L == Len(nodes)
           H == L \div 2
           pk == package(nodes)
           K == k + 1
           out == merge_nodes(pk, source)
<1>1. n \in Nat /\ n >= 2 /\ source \in Seq(Nodes)
  BY DEF Sorted
<1>2. /\ nodes \in Seq(Nodes) /\ Ascending(nodes)
      /\ Levelled(source, sorted, K, Two(k), nodes)
      /\ L \in n .. 2 * n - 1 /\ 2 * n - 1 - L < Two(m - k)
  BY DEF Round
<1>3. /\ k \in Nat /\ k \in 0 .. MAX_BITS /\ K \in 1 .. MAX_BITS /\ K - 1 = k
      /\ K \in 0 .. MAX_BITS - 1 /\ K \in Nat
      /\ m - k \in 1 .. MAX_BITS /\ (m - k) - 1 = m - K /\ m - K \in 0 .. MAX_BITS
  BY DEF MAX_BITS
<1>4. L \in Nat /\ L >= 2
  BY <1>1, <1>2
<1>5. Two(k) \in Nat /\ Two(K) = 2 * Two(k) /\ Two(m - k) = 2 * Two(m - K)
      /\ Two(m - K) \in Nat
  BY <1>3, Powers
<1>6. pk \in Seq(Nodes) /\ Len(pk) = H /\ Ascending(pk)
  BY <1>2, <1>4, PackageNodes, PackageAscends
<1> HIDE DEF n, L, pk, K
<1>7. Levelled(source, sorted, K, Two(K), pk)
  <2>1. Len(nodes) >= 2
    BY <1>4 DEF L
  <2>2. Levelled(source, sorted, K, 2 * Two(k), pk)
    BY <1>2, <1>3, <1>5, <2>1, PackageLevel DEF pk
  <2> QED BY <1>5, <2>2
<1>8. /\ Levelled(source, sorted, K + 1, Two(K), out) /\ Ascending(out)
      /\ out \in Seq(Nodes) /\ Len(out) = H + n
  BY <1>3, <1>6, <1>7, MergeLevel DEF n
<1> HIDE DEF out
<1>9. H \in Nat /\ (L = 2 * H \/ L = 2 * H + 1)
  BY <1>4
<1> HIDE DEF H
<1>10. H + n \in n .. 2 * n - 1
  BY <1>1, <1>2, <1>4, <1>9
<1>11. 2 * n - 1 - (H + n) < Two(m - K)
  <2> DEFINE t == Two(m - K)
  <2>1. t \in Nat /\ 2 * n - 1 - L < 2 * t
    BY <1>2, <1>5
  <2> HIDE DEF t
  <2>2. 2 * n - 1 - (H + n) < t
    BY <1>1, <1>4, <1>9, <2>1
  <2> QED BY <2>2 DEF t
<1> QED BY <1>8, <1>10, <1>11 DEF Round, n, out, pk, K

LEMMA LastPackages ==
  ASSUME NEW source, NEW sorted, Sorted(source, sorted), Len(source) >= 2,
         NEW m \in 1 .. MAX_BITS, Len(source) <= Two(m), NEW g, Weighting(g, source, m)
  PROVE  /\ Len(package(g[m - 1])) = Len(source) - 1
         /\ \E a \in 0 .. Len(source) :
              Grown(sorted, m, Contents(package(g[m - 1])), a, (Len(source) - 1) * Two(m))
<1> DEFINE n == Len(source)
           S == {k \in 0 .. m - 1 : Round(source, sorted, m, k, g[k])}
<1>1. n \in Nat /\ n >= 2 /\ source \in Seq(Nodes) /\ Ascending(source)
  BY DEF Sorted
<1>2. /\ m \in Nat /\ m - 1 \in Nat /\ m \in 0 .. MAX_BITS /\ m - 1 \in 0 .. MAX_BITS
      /\ m - 1 \in 0 .. m - 1 /\ (m - 1) + 1 = m /\ m - (m - 1) = 1
  BY DEF MAX_BITS
<1>3. g[0] = source /\ \A k \in 1 .. m - 1 : g[k] = merge_nodes(package(g[k - 1]), source)
  BY DEF Weighting
<1>4. 0 \in S
  <2>1. 0 \in 0 .. m - 1 /\ 0 + 1 = 1 /\ m - 0 = m
    BY <1>2
  <2>2. Levelled(source, sorted, 1, Two(0), source)
    BY FirstLevel
  <2>3. Two(m) \in Nat
    BY <1>2, Powers
  <2>4. n \in n .. 2 * n - 1 /\ 2 * n - 1 - n < Two(m)
    BY <1>1, <2>3
  <2> HIDE DEF n
  <2>5. Round(source, sorted, m, 0, source)
    BY <1>1, <2>1, <2>2, <2>4 DEF Round, n
  <2> QED BY <1>3, <2>1, <2>5
<1>5. ASSUME NEW k \in 1 .. m - 1, k - 1 \in S PROVE k \in S
  <2> DEFINE j == k - 1
             nodes == g[j]
  <2>1. j \in 0 .. m - 2 /\ j + 1 = k /\ k \in 0 .. m - 1
    BY <1>2
  <2>2. Round(source, sorted, m, j, nodes)
    BY <1>5
  <2>3. g[k] = merge_nodes(package(nodes), source)
    BY <1>3
  <2> HIDE DEF j, nodes
  <2>4. Round(source, sorted, m, j + 1, merge_nodes(package(nodes), source))
    BY <2>1, <2>2, NextRound
  <2> QED BY <2>1, <2>3, <2>4
<1>6. Round(source, sorted, m, m - 1, g[m - 1])
  <2> HIDE DEF S
  <2>1. \A k \in 0 .. m - 1 : k \in S
    BY <1>2, <1>4, <1>5, UpTo
  <2> QED BY <1>2, <2>1 DEF S
<1> DEFINE nodes == g[m - 1]
           L == Len(nodes)
           H == L \div 2
           pk == package(nodes)
           k == m - 1
<1>7. /\ nodes \in Seq(Nodes) /\ Ascending(nodes)
      /\ Levelled(source, sorted, m, Two(k), nodes)
      /\ L \in n .. 2 * n - 1 /\ 2 * n - 1 - L < Two(1)
  BY <1>2, <1>6 DEF Round
<1>8. Two(1) = 2 /\ Two(m) = 2 * Two(k) /\ Two(k) \in Nat
  <2>1. 1 \in 1 .. MAX_BITS /\ 1 - 1 = 0
    BY DEF MAX_BITS
  <2>2. Two(1) = 2 * Two(1 - 1) /\ Two(0) = 1
    BY <2>1, Powers
  <2> QED BY <1>2, <2>1, <2>2, Powers
<1>9. L \in Nat /\ L >= 2 /\ H = n - 1
  <2>1. L \in n .. 2 * n - 1 /\ 2 * n - 1 - L < 2
    BY <1>7, <1>8
  <2> HIDE DEF L, n
  <2>2. L \in Nat /\ L >= 2 /\ (L = 2 * (n - 1) \/ L = 2 * (n - 1) + 1)
    BY <1>1, <2>1
  <2>3. H = n - 1
    BY <1>1, <2>2
  <2> QED BY <2>2, <2>3
<1>10. pk \in Seq(Nodes) /\ Len(pk) = n - 1
  BY <1>7, <1>9, PackageNodes
<1>11. Levelled(source, sorted, m, Two(m), pk)
  <2> HIDE DEF nodes, k
  <2>1. Levelled(source, sorted, m, 2 * Two(k), pk)
    BY <1>2, <1>7, <1>8, <1>9, PackageLevel
  <2> QED BY <1>8, <2>1
<1> HIDE DEF pk, n
<1>12. PICK c, a :
         /\ Counted(c, pk)
         /\ \A p \in 0 .. n - 1 : a[p] \in 0 .. n /\ Grown(sorted, m, c[p], a[p], p * Two(m))
  BY <1>10, <1>11 DEF Levelled, n
<1>13. n - 1 \in 0 .. n - 1 /\ Contents(pk) = c[n - 1]
  <2>1. Contents(pk) = c[Len(pk)]
    BY <1>10, <1>12, CountedIs
  <2> QED BY <1>1, <1>10, <2>1
<1> QED BY <1>10, <1>12, <1>13 DEF n, pk
-----------------------------------------------------------------------------
(* A tree of a width has no more leaves than that many bits can tell       *)
(* apart, for widths of which it matters.                                  *)
Holds(tree, leaves) ==
  /\ IsFiniteSet(leaves)
  /\ tree.width <= MAX_BITS => Cardinality(leaves) <= Two(tree.width)

(* The leaves of each tree; some of the trees has each of X.               *)
Bears(trees, leaves, X) ==
  /\ Len(leaves) = Len(trees) /\ leaves \in Seq(SUBSET Nat)
  /\ \A i \in 1 .. Len(trees) : Holds(trees[i], leaves[i])
  /\ \A x \in X : \E i \in 1 .. Len(trees) : x \in leaves[i]

LEMMA JoinedHolds ==
  ASSUME NEW a \in Trees, NEW b \in Trees, NEW d, NEW e, Holds(a, d), Holds(b, e)
  PROVE  Holds(Joined(a, b), d \cup e)
<1> DEFINE w == Max({a.width, b.width})
           u == a.width
           v == b.width
           cd == Cardinality(d)
           ce == Cardinality(e)
<1>1. u \in Nat /\ v \in Nat
  BY DEF Trees
<1>2. w \in Nat /\ u <= w /\ v <= w
  <2> HIDE DEF u, v
  <2>1. Max({u, v}) \in Nat /\ u <= Max({u, v}) /\ v <= Max({u, v})
    BY <1>1, GreatestOfTwo
  <2> QED BY <2>1 DEF u, v
<1>3. Joined(a, b).width = 1 + w
  BY DEF Joined
<1>4. /\ IsFiniteSet(d) /\ IsFiniteSet(e)
      /\ u <= MAX_BITS => cd <= Two(u)
      /\ v <= MAX_BITS => ce <= Two(v)
  BY DEF Holds
<1>5. IsFiniteSet(d \cup e) /\ Cardinality(d \cup e) <= cd + ce /\ cd \in Nat /\ ce \in Nat
  <2>1. /\ IsFiniteSet(d \cup e)
        /\ Cardinality(d \cup e) = cd + ce - Cardinality(d \cap e)
    BY <1>4, FS_Union
  <2>2. IsFiniteSet(d \cap e)
    BY <1>4, FS_Subset
  <2>3. Cardinality(d \cap e) \in Nat /\ cd \in Nat /\ ce \in Nat
    BY <1>4, <2>2, FS_CardinalityType
  <2> DEFINE z == Cardinality(d \cap e)
             y == Cardinality(d \cup e)
  <2>4. y = cd + ce - z /\ z \in Nat
    BY <2>1, <2>3
  <2> HIDE DEF y, z, cd, ce
  <2>5. y <= cd + ce
    BY <2>3, <2>4
  <2> QED BY <2>1, <2>3, <2>5 DEF y
<1> HIDE DEF w, u, v, cd, ce
<1>6. ASSUME 1 + w <= MAX_BITS PROVE Cardinality(d \cup e) <= Two(1 + w)
  <2>1. /\ 1 + w \in 1 .. MAX_BITS /\ (1 + w) - 1 = w /\ w \in 0 .. MAX_BITS
        /\ u \in 0 .. MAX_BITS /\ w - u \in 0 .. MAX_BITS - u /\ u + (w - u) = w
        /\ v \in 0 .. MAX_BITS /\ w - v \in 0 .. MAX_BITS - v /\ v + (w - v) = w
        /\ u <= MAX_BITS /\ v <= MAX_BITS
    BY <1>1, <1>2, <1>6 DEF MAX_BITS
  <2>2. Two(1 + w) = 2 * Two(w) /\ Two(w) \in Nat /\ Two(u) \in Nat /\ Two(v) \in Nat
    BY <2>1, Powers
  <2>3. Two(u) <= Two(w) /\ Two(v) <= Two(w)
    <3>1. Two(u) <= Two(u + (w - u))
      BY <2>1, PowerSum
    <3>2. Two(v) <= Two(v + (w - v))
      BY <2>1, PowerSum
    <3> QED BY <2>1, <3>1, <3>2
  <2>4. cd <= Two(u) /\ ce <= Two(v)
    BY <1>4, <2>1
  <2> DEFINE y == Cardinality(d \cup e)
             tw == Two(w)
             tu == Two(u)
             tv == Two(v)
  <2>5. y \in Nat
    BY <1>5, FS_CardinalityType
  <2>6. /\ y <= cd + ce /\ tu <= tw /\ tv <= tw /\ cd <= tu /\ ce <= tv
        /\ tw \in Nat /\ tu \in Nat /\ tv \in Nat /\ Two(1 + w) = 2 * tw
    BY <1>5, <2>2, <2>3, <2>4
  <2> HIDE DEF y, tw, tu, tv
  <2>7. y <= 2 * tw
    BY <1>5, <2>5, <2>6
  <2> QED BY <2>6, <2>7 DEF y
<1> QED BY <1>3, <1>5, <1>6 DEF Holds

LEMMA RemovedBears ==
  ASSUME NEW trees \in Seq(Trees), NEW leaves, NEW X, Bears(trees, leaves, X),
         NEW i \in 1 .. Len(trees)
  PROVE  Bears(RemoveAt(trees, i), RemoveAt(leaves, i), X \ leaves[i])
<1> DEFINE L == Len(trees)
           t == RemoveAt(trees, i)
           e == RemoveAt(leaves, i)
<1>1. /\ L \in Nat /\ Len(leaves) = L /\ leaves \in Seq(SUBSET Nat)
      /\ \A k \in 1 .. L : Holds(trees[k], leaves[k])
      /\ \A x \in X : \E k \in 1 .. L : x \in leaves[k]
  BY DEF Bears
<1>2. /\ t \in Seq(Trees) /\ Len(t) = L - 1
      /\ \A k \in 1 .. i - 1 : t[k] = trees[k]
      /\ \A k \in i .. L - 1 : t[k] = trees[k + 1]
  BY RemovedIs
<1>3. /\ e \in Seq(SUBSET Nat) /\ Len(e) = L - 1
      /\ \A k \in 1 .. i - 1 : e[k] = leaves[k]
      /\ \A k \in i .. L - 1 : e[k] = leaves[k + 1]
  <2>1. i \in 1 .. Len(leaves)
    BY <1>1
  <2> HIDE DEF L
  <2> QED BY <1>1, <2>1, RemovedIs
<1>4. i \in 1 .. L
  OBVIOUS
<1> HIDE DEF L, t, e
<1>5. ASSUME NEW k \in 1 .. L - 1
      PROVE  Holds(t[k], e[k])
  <2>1. CASE k < i
    <3>1. k \in 1 .. i - 1 /\ k \in 1 .. L
      BY <1>1, <1>4, <2>1
    <3> QED BY <1>1, <1>2, <1>3, <3>1
  <2>2. CASE ~ (k < i)
    <3>1. k \in i .. L - 1 /\ k + 1 \in 1 .. L
      BY <1>1, <1>4, <2>2
    <3> QED BY <1>1, <1>2, <1>3, <3>1
  <2> QED BY <2>1, <2>2
<1>6. ASSUME NEW x \in X \ leaves[i]
      PROVE  \E k \in 1 .. L - 1 : x \in e[k]
  <2>1. PICK h \in 1 .. L : x \in leaves[h]
    BY <1>1
  <2>2. h # i
    BY <2>1
  <2>3. CASE h < i
    <3>1. h \in 1 .. i - 1 /\ h \in 1 .. L - 1
      BY <1>1, <1>4, <2>3
    <3> QED BY <1>3, <2>1, <3>1
  <2>4. CASE ~ (h < i)
    <3>1. h - 1 \in i .. L - 1 /\ h - 1 \in 1 .. L - 1 /\ (h - 1) + 1 = h
      BY <1>1, <1>4, <2>2, <2>4
    <3>2. e[h - 1] = leaves[h]
      BY <1>3, <3>1
    <3> QED BY <2>1, <3>1, <3>2
  <2> QED BY <2>3, <2>4
<1> QED BY <1>2, <1>3, <1>5, <1>6 DEF Bears, t, e

LEMMA JoinBears ==
  ASSUME NEW trees \in Seq(Trees), Len(trees) >= 2, NEW leaves, NEW X,
         Bears(trees, leaves, X)
  PROVE  /\ Len(JoinLightest(trees)) = Len(trees) - 1
         /\ \E more : Bears(JoinLightest(trees), more, X)
<1> DEFINE i == Lightest(trees)
           others == RemoveAt(trees, i)
           j == Lightest(others)
           last == RemoveAt(others, j)
           a == trees[i]
           b == others[j]
           c == Joined(a, b)
           d == leaves[i]
           restl == RemoveAt(leaves, i)
           e == restl[j]
           lastl == RemoveAt(restl, j)
           out == Append(last, c)
<1>1. Len(trees) \in Nat
  OBVIOUS
<1>2. i \in 1 .. Len(trees)
  BY <1>1, LightestIs
<1>3. Len(leaves) = Len(trees) /\ leaves \in Seq(SUBSET Nat)
      /\ \A k \in 1 .. Len(trees) : Holds(trees[k], leaves[k])
  BY DEF Bears
<1>4. a \in Trees /\ Holds(a, d) /\ d \in SUBSET Nat
  <2> HIDE DEF i
  <2>1. trees[i] \in Trees
    BY <1>2
  <2>2. leaves[i] \in SUBSET Nat
    BY <1>2, <1>3
  <2> QED BY <1>2, <1>3, <2>1, <2>2
<1>5. JoinLightest(trees) = out
  <2>1. ~ (Len(trees) < 2)
    BY <1>1
  <2> QED BY <2>1 DEF JoinLightest
<1> HIDE DEF i
<1>6. others \in Seq(Trees) /\ Len(others) = Len(trees) - 1
  BY <1>2, RemovedIs
<1>7. Bears(others, restl, X \ d)
  BY <1>2, RemovedBears
<1> HIDE DEF others, restl, d, a
<1>8. j \in 1 .. Len(others)
  BY <1>1, <1>6, LightestIs
<1>9. Len(restl) = Len(others) /\ restl \in Seq(SUBSET Nat)
      /\ \A k \in 1 .. Len(others) : Holds(others[k], restl[k])
  BY <1>7 DEF Bears
<1> HIDE DEF j
<1>10. b \in Trees /\ Holds(b, e) /\ e \in SUBSET Nat
  <2>1. others[j] \in Trees
    BY <1>6, <1>8
  <2>2. restl[j] \in SUBSET Nat
    BY <1>8, <1>9
  <2> QED BY <1>8, <1>9, <2>1, <2>2
<1>11. last \in Seq(Trees) /\ Len(last) = Len(trees) - 2
  <2>1. last \in Seq(Trees) /\ Len(last) = Len(others) - 1
    BY <1>6, <1>8, RemovedIs
  <2> QED BY <1>1, <1>6, <2>1
<1>12. Bears(last, lastl, (X \ d) \ e)
  BY <1>6, <1>7, <1>8, RemovedBears
<1>13. Holds(c, d \cup e)
  BY <1>4, <1>10, JoinedHolds
<1>14. c \in Trees
  <2>1. a.weight \in Nat /\ b.weight \in Nat /\ a.width \in Nat /\ b.width \in Nat
    BY <1>4, <1>10 DEF Trees
  <2>2. Max({a.width, b.width}) \in Nat
    BY <2>1, GreatestOfTwo
  <2>3. a.weight + b.weight \in Nat /\ 1 + Max({a.width, b.width}) \in Nat
    BY <2>1, <2>2
  <2> QED BY <2>3 DEF Joined, Trees
<1> HIDE DEF last, lastl, b, c, e
<1> DEFINE D == d \cup e
           n == Len(last)
<1>15. /\ Len(lastl) = n /\ lastl \in Seq(SUBSET Nat)
       /\ \A k \in 1 .. n : Holds(last[k], lastl[k])
       /\ \A x \in (X \ d) \ e : \E k \in 1 .. n : x \in lastl[k]
  BY <1>12 DEF Bears
<1>16. D \in SUBSET Nat /\ Holds(c, D) /\ \A x \in X : x \notin D => x \in (X \ d) \ e
  BY <1>4, <1>10, <1>13
<1> HIDE DEF D
<1>17. n \in Nat /\ n + 1 \in 1 .. n + 1 /\ \A k \in 1 .. n : k \in 1 .. n + 1
  BY <1>11
<1>18. /\ out \in Seq(Trees) /\ Len(out) = n + 1 /\ out[n + 1] = c
       /\ \A k \in 1 .. n : out[k] = last[k]
  BY <1>11, <1>14
<1> DEFINE more == Append(lastl, D)
<1>19. /\ more \in Seq(SUBSET Nat) /\ Len(more) = n + 1 /\ more[n + 1] = D
       /\ \A k \in 1 .. n : more[k] = lastl[k]
  <2> HIDE DEF n
  <2> QED BY <1>15, <1>16, <1>17
<1> HIDE DEF out, more
<1>20. ASSUME NEW k \in 1 .. n + 1
       PROVE  Holds(out[k], more[k])
  <2>1. k \in 1 .. n \/ k = n + 1
    BY <1>17
  <2> HIDE DEF n
  <2> QED BY <1>15, <1>16, <1>18, <1>19, <2>1
<1>21. ASSUME NEW x \in X
       PROVE  \E k \in 1 .. n + 1 : x \in more[k]
  <2> HIDE DEF n
  <2>1. CASE x \in D
    BY <1>17, <1>19, <2>1
  <2>2. CASE x \notin D
    <3>1. PICK k \in 1 .. n : x \in lastl[k]
      BY <1>15, <1>16, <2>2
    <3> QED BY <1>17, <1>19, <3>1
  <2> QED BY <2>1, <2>2
<1>22. Bears(out, more, X)
  <2> HIDE DEF n
  <2> QED BY <1>18, <1>19, <1>20, <1>21 DEF Bears
<1>23. n + 1 = Len(trees) - 1
  BY <1>1, <1>11
<1> QED BY <1>5, <1>18, <1>22, <1>23

(* The width of an ordinary code is enough for all symbols of the source.  *)
LEMMA OptimalIsEnough ==
  ASSUME NEW source \in Seq(Nodes), Len(source) >= 1
  PROVE  LET o == ordinary_huffman_optimal_max_bitwidth(source)
         IN  /\ Len(source) = 1 => o = 1
             /\ o <= MAX_BITS => Len(source) <= Two(o)
<1> DEFINE n == Len(source)
           X == 1 .. n
           o == ordinary_huffman_optimal_max_bitwidth(source)
<1>1. PICK g : /\ Heap(g, source)
               /\ o = IF g[n] = << >> THEN 1 ELSE Max({1, g[n][1].width})
  BY HeapExists
<1>2. /\ n \in Nat /\ n >= 1 /\ n \in 1 .. n /\ n - 1 \in 0 .. n /\ n \in 0 .. n
      /\ n - 1 \in 0 .. n - 1 /\ DOMAIN source = 1 .. n
  OBVIOUS
<1>3. /\ g[0] = [i \in 1 .. n |-> [weight |-> source[i].weight, width |-> 0]]
      /\ \A k \in 0 .. n : g[k] \in Seq(Trees)
      /\ \A k \in 1 .. n : g[k] = JoinLightest(g[k - 1])
  <2>1. DOMAIN source = 1 .. n
    BY <1>2
  <2> HIDE DEF n
  <2>2. /\ g[0] = [i \in DOMAIN source |-> [weight |-> source[i].weight, width |-> 0]]
        /\ \A k \in 0 .. n : g[k] \in Seq(Trees)
        /\ \A k \in 1 .. n : g[k] = JoinLightest(g[k - 1])
    BY <1>1, Zenon DEF Heap, n
  <2> QED BY <2>1, <2>2
<1> HIDE DEF o
<1>4. Len(g[0]) = n /\ \A i \in 1 .. n : g[0][i].width = 0
  <2> DEFINE t == [i \in 1 .. n |-> [weight |-> source[i].weight, width |-> 0]]
  <2>1. DOMAIN t = 1 .. n /\ \A i \in 1 .. n : t[i].width = 0
    OBVIOUS
  <2> HIDE DEF t, n
  <2>2. g[0] = t
    BY <1>3 DEF t
  <2>3. t \in Seq(Trees)
    <3>1. 0 \in 0 .. n
      BY <1>2
    <3> QED BY <1>3, <2>2, <3>1
  <2> DEFINE l == Len(t)
  <2>4. l \in Nat /\ DOMAIN t = 1 .. l
    BY <2>3
  <2> HIDE DEF l
  <2>5. 1 .. l = 1 .. n
    BY <2>1, <2>4
  <2>6. (l = 0 \/ l \in 1 .. l) /\ (n = 0 \/ n \in 1 .. n)
    BY <1>2, <2>4
  <2>7. (l = 0 \/ l \in 1 .. n) /\ (n = 0 \/ n \in 1 .. l)
    BY <2>5, <2>6
  <2>8. l = n
    BY <1>2, <2>4, <2>7
  <2> QED BY <2>1, <2>2, <2>8 DEF l
<1> DEFINE Deep(k) == Len(g[k]) = n - k /\ \E leaves : Bears(g[k], leaves, X)
           S == {k \in 0 .. n - 1 : Deep(k)}
<1> HIDE DEF X, n
<1>5. Deep(0)
  <2> DEFINE d == [i \in 1 .. n |-> {i}]
  <2>1. \A i \in 1 .. n : d[i] = {i} /\ {i} \in SUBSET Nat
    BY <1>2
  <2>2. d \in Seq(SUBSET Nat) /\ Len(d) = n
    BY <1>2, <2>1
  <2> HIDE DEF d
  <2>3. \A i \in 1 .. n : Holds(g[0][i], d[i])
    <3> SUFFICES ASSUME NEW i \in 1 .. n PROVE Holds(g[0][i], d[i])
      OBVIOUS
    <3>1. IsFiniteSet(d[i]) /\ Cardinality(d[i]) = 1
      BY <2>1, FS_Singleton
    <3>2. g[0][i].width = 0
      BY <1>4
    <3>3. Two(0) = 1
      BY Powers
    <3>4. Cardinality(d[i]) <= Two(g[0][i].width)
      BY <3>1, <3>2, <3>3
    <3> QED BY <3>1, <3>4 DEF Holds
  <2>4. \A x \in X : \E i \in 1 .. n : x \in d[i]
    BY <2>1 DEF X
  <2>5. Bears(g[0], d, X)
    BY <1>4, <2>2, <2>3, <2>4 DEF Bears
  <2>6. n - 0 = n
    BY <1>2
  <2> QED BY <1>4, <2>5, <2>6
<1>6. ASSUME NEW k \in 1 .. n - 1, k - 1 \in S PROVE k \in S
  <2> DEFINE j == k - 1
             t == g[j]
  <2>1. j \in 0 .. n /\ k \in 1 .. n /\ k \in 0 .. n - 1 /\ n - j >= 2 /\ (n - j) - 1 = n - k
    BY <1>2
  <2>2. Len(t) = n - j /\ t \in Seq(Trees)
    BY <1>3, <1>6, <2>1
  <2>3. PICK leaves : Bears(t, leaves, X)
    BY <1>6
  <2>4. g[k] = JoinLightest(t)
    BY <1>3, <2>1
  <2> HIDE DEF t, j
  <2>5. Len(t) >= 2
    BY <2>1, <2>2
  <2>6. Len(JoinLightest(t)) = Len(t) - 1 /\ \E more : Bears(JoinLightest(t), more, X)
    BY <2>2, <2>3, <2>5, JoinBears
  <2>7. Deep(k)
    BY <2>1, <2>2, <2>4, <2>6
  <2> HIDE DEF Deep
  <2> QED BY <2>1, <2>7
<1>7. Deep(n - 1)
  <2>1. 0 \in S
    <3> HIDE DEF Deep
    <3>1. 0 \in 0 .. n - 1
      BY <1>2
    <3> QED BY <1>5, <3>1
  <2>2. n - 1 \in Nat
    BY <1>2
  <2> HIDE DEF S
  <2>3. \A k \in 0 .. n - 1 : k \in S
    BY <1>6, <2>1, <2>2, UpTo
  <2> HIDE DEF Deep
  <2> QED BY <1>2, <2>3 DEF S
<1> DEFINE top == g[n]
<1>8. Len(g[n - 1]) = 1 /\ top = g[n - 1] /\ top \in Seq(Trees)
  <2>1. Len(g[n - 1]) = 1
    BY <1>2, <1>7
  <2>2. top = JoinLightest(g[n - 1])
    BY <1>2, <1>3
  <2>3. top = g[n - 1]
    BY <2>1, <2>2 DEF JoinLightest
  <2> QED BY <1>2, <1>3, <2>1, <2>3
<1> DEFINE w == top[1].width
<1>9. w \in Nat /\ top # << >> /\ Len(top) = 1
  <2> HIDE DEF top
  <2>1. Len(top) = 1
    BY <1>8
  <2>2. top \in Seq(Trees)
    BY <1>8
  <2>3. top[1] \in Trees /\ top # << >>
    <3>1. 1 \in 1 .. Len(top) /\ Len(<< >>) = 0
      BY <2>1
    <3>2. top[1] \in Trees
      BY <2>2, <3>1, ElementOfSeq
    <3>3. top # << >>
      <4> SUFFICES ASSUME top = << >> PROVE FALSE
        OBVIOUS
      <4>1. Len(top) = Len(<< >>)
        OBVIOUS
      <4>2. 1 # 0
        OBVIOUS
      <4> QED BY <2>1, <3>1, <4>1, <4>2
    <3> QED BY <3>2, <3>3
  <2> QED BY <2>1, <2>3 DEF Trees
<1>10. o = Max({1, w})
  BY <1>1, <1>9
<1>11. o \in Nat /\ w <= o /\ o \in {1, w}
  <2> HIDE DEF w
  <2> QED BY <1>9, <1>10, GreatestOfTwo
<1>12. ASSUME n = 1 PROVE o = 1
  <2>1. top = g[0] /\ 1 \in 1 .. n
    BY <1>8, <1>12
  <2>2. w = 0
    BY <1>4, <2>1
  <2> HIDE DEF w
  <2>3. o \in {1, 0} /\ 1 <= Max({1, 0})
    BY <1>11, <2>2, GreatestOfTwo
  <2> QED BY <1>10, <2>2, <2>3
<1>13. ASSUME o <= MAX_BITS PROVE n <= Two(o)
  <2>1. PICK leaves : Bears(top, leaves, X)
    BY <1>7, <1>8
  <2> DEFINE c == Cardinality(leaves[1])
  <2>2. \A i \in 1 .. 1 : i = 1
    OBVIOUS
  <2>3. Holds(top[1], leaves[1]) /\ X \subseteq leaves[1]
    BY <1>9, <2>1, <2>2 DEF Bears
  <2>4. IsFiniteSet(leaves[1]) /\ (w <= MAX_BITS => c <= Two(w)) /\ c \in Nat
    BY <2>3, FS_CardinalityType DEF Holds
  <2>5. Cardinality(X) = n /\ Cardinality(X) <= c
    <3>1. Cardinality(1 .. n) = IF 1 > n THEN 0 ELSE n - 1 + 1
      BY <1>2, FS_Interval
    <3>2. Cardinality(X) = n
      BY <1>2, <3>1 DEF X
    <3>3. X \in SUBSET leaves[1]
      BY <2>3
    <3> QED BY <2>4, <3>2, <3>3, FS_Subset
  <2> HIDE DEF c, w
  <2>6. w <= MAX_BITS /\ w \in 0 .. MAX_BITS /\ o - w \in 0 .. MAX_BITS - w /\ w + (o - w) = o
        /\ o \in 0 .. MAX_BITS
    BY <1>9, <1>11, <1>13 DEF MAX_BITS
  <2>7. Two(w) <= Two(w + (o - w)) /\ Two(w) \in Nat /\ Two(o) \in Nat
    BY <2>6, PowerSum, Powers
  <2>8. Two(w) <= Two(o)
    BY <2>6, <2>7
  <2> QED BY <1>2, <2>4, <2>5, <2>6, <2>7, <2>8
<1> QED BY <1>12, <1>13 DEF o, n
-----------------------------------------------------------------------------
(* One weight, and two, in a sum.                                          *)
LEMMA TotalHolds ==
  ASSUME NEW w \in [Symbols -> Nat], NEW s \in Symbols
  PROVE  /\ w[s] <= Total(w)
         /\ \A t \in Symbols \ {s} : w[s] + w[t] <= Total(w)
<1> DEFINE z == [r \in Symbols |-> 0]
           u == [r \in Symbols |-> IF r = s THEN w[s] ELSE 0]
           v(t) == [r \in Symbols |-> IF r = s \/ r = t THEN w[r] ELSE 0]
<1>1. \A r \in Symbols : w[r] \in Nat
  OBVIOUS
<1>2. z \in [Symbols -> Nat] /\ \A r \in Symbols : z[r] = 0
  OBVIOUS
<1>3. u \in [Symbols -> Nat] /\ u[s] = w[s] /\ \A r \in Symbols \ {s} : u[r] = 0
  BY <1>1
<1>4. u[s] = z[s] + w[s] /\ \A r \in Symbols \ {s} : u[r] = z[r]
  <2> HIDE DEF z, u
  <2> QED BY <1>1, <1>2, <1>3
<1>5. \A r \in Symbols : u[r] <= w[r]
  <2> HIDE DEF u
  <2> QED BY <1>1, <1>3
<1>6. ASSUME NEW t \in Symbols \ {s}
      PROVE  /\ v(t) \in [Symbols -> Nat] /\ v(t)[t] = w[t] /\ v(t)[s] = w[s]
             /\ \A r \in Symbols \ {s, t} : v(t)[r] = 0
  BY <1>1
<1> HIDE DEF z, u
<1>7. Total(z) = 0
  BY <1>2, TotalNone
<1>8. Total(u) = Total(z) + w[s]
  BY <1>1, <1>2, <1>3, <1>4, TotalAdd
<1>9. Total(u) = w[s] /\ w[s] <= Total(w)
  <2>1. Total(u) = w[s]
    BY <1>1, <1>7, <1>8
  <2>2. Total(u) <= Total(w)
    BY <1>3, <1>5, TotalMonotone
  <2> QED BY <2>1, <2>2
<1>10. ASSUME NEW t \in Symbols \ {s}
       PROVE  w[s] + w[t] <= Total(w)
  <2> DEFINE y == v(t)
  <2>1. /\ y \in [Symbols -> Nat] /\ y[t] = w[t] /\ y[s] = w[s]
        /\ \A r \in Symbols \ {s, t} : y[r] = 0
    BY <1>6
  <2> HIDE DEF y
  <2>2. /\ t \in Symbols /\ w[t] \in Nat /\ w[s] \in Nat /\ y[t] = u[t] + w[t]
        /\ \A r \in Symbols \ {t} : y[r] = u[r]
    BY <1>1, <1>3, <2>1
  <2>3. Total(y) = Total(u) + w[t]
    BY <1>3, <2>1, <2>2, TotalAdd
  <2>4. \A r \in Symbols : y[r] <= w[r]
    BY <1>1, <2>1
  <2>5. Total(y) <= Total(w)
    BY <2>1, <2>4, TotalMonotone
  <2> QED BY <1>9, <2>3, <2>5
<1> QED BY <1>9, <1>10

(* What the codes of some symbols need of a table, and what they spare of  *)
(* it, is a table for each of these symbols.                               *)
Taking(D, m, v) == [s \in Symbols |-> IF s \in D THEN Two(m - v[s]) ELSE 0]

LEMMA TakenAndSpared ==
  ASSUME NEW source, NEW sorted, Sorted(source, sorted), NEW m \in 1 .. MAX_BITS,
         NEW v \in [Symbols -> 0 .. m], NEW D,
         D = Leading(sorted, Len(source)), \A s \in Symbols \ D : v[s] = 0
  PROVE  /\ Taking(D, m, v) \in [Symbols -> Nat]
         /\ Total(Taking(D, m, v)) + Total(Spared(m, v)) = Len(source) * Two(m)
         /\ Total(Taking(D, m, v)) \in Nat
<1> DEFINE n == Len(source)
           w == Taking(D, m, v)
           u == Spared(m, v)
           t == [s \in Symbols |-> IF s \in D THEN Two(m) ELSE 0]
<1>1. m \in 0 .. MAX_BITS /\ m \in Nat
  BY DEF MAX_BITS
<1>2. v \in [Symbols -> 0 .. m]
  OBVIOUS
<1>3. /\ u \in [Symbols -> Nat]
      /\ \A s \in Symbols : /\ Two(m - v[s]) \in Nat \ {0} /\ Two(m) \in Nat \ {0}
                            /\ u[s] = Two(m) - Two(m - v[s])
                            /\ Two(m - v[s]) <= Two(m)
  BY <1>1, <1>2, SparedIs
<1>4. \A s \in Symbols : w[s] = IF s \in D THEN Two(m - v[s]) ELSE 0
  BY DEF Taking
<1>5. w \in [Symbols -> Nat]
  BY <1>3 DEF Taking
<1> HIDE DEF w, u
<1>6. Two(m) \in Nat
  BY <1>1, Powers
<1>7. ASSUME NEW s \in Symbols
      PROVE  w[s] + u[s] = IF s \in D THEN Two(m) ELSE 0
  <2>1. CASE s \in D
    <3> DEFINE y == Two(m - v[s])
               z == Two(m)
    <3>1. w[s] = y /\ u[s] = z - y /\ y \in Nat /\ z \in Nat
      BY <1>3, <1>4, <2>1
    <3> HIDE DEF y, z
    <3>2. w[s] + u[s] = z
      BY <3>1
    <3> QED BY <2>1, <3>2 DEF z
  <2>2. CASE s \notin D
    <3>1. v[s] = 0
      BY <2>2
    <3>2. m - v[s] = m
      BY <1>1, <3>1
    <3>3. u[s] = Two(m) - Two(m) /\ w[s] = 0
      BY <1>3, <1>4, <2>2, <3>2
    <3> QED BY <1>6, <2>2, <3>3
  <2> QED BY <2>1, <2>2
<1>8. Plus(w, u) = t
  BY <1>7 DEF Plus
<1>9. Total(t) = n * Two(m)
  <2>1. n \in 0 .. n
    BY DEF Sorted
  <2>2. Total([s \in Symbols |-> IF s \in Leading(sorted, n) THEN Two(m) ELSE 0])
          = n * Two(m)
    <3> DEFINE Sum(b) == Total([s \in Symbols |-> IF s \in Leading(sorted, b) THEN Two(m) ELSE 0])
    <3>1. \A b \in 0 .. n : Sum(b) = b * Two(m)
      BY <1>6, TotalLeading
    <3> HIDE DEF Sum
    <3>2. Sum(n) = n * Two(m)
      BY <2>1, <3>1
    <3> QED BY <3>2 DEF Sum
  <2> QED BY <2>2
<1> HIDE DEF t
<1>10. Total(Plus(w, u)) = Total(w) + Total(u) /\ Total(w) \in Nat
  BY <1>3, <1>5, TotalPlus
<1> QED BY <1>5, <1>8, <1>9, <1>10 DEF w, u

(* Each of these symbols has a code, for which there is place.             *)
LEMMA AllHaveCodes ==
  ASSUME NEW source, NEW sorted, Sorted(source, sorted), NEW m \in 1 .. MAX_BITS,
         NEW v, NEW a, NEW x \in Nat, Grown(sorted, m, v, a, x), NEW D,
         D = Leading(sorted, Len(source)), \A s \in Symbols \ D : v[s] = 0,
         Len(source) >= 1,
         Len(source) = 1 => m = 1 /\ x = 1,
         Len(source) >= 2 => x = (Len(source) - 1) * Two(m)
  PROVE  /\ \A s \in D : v[s] > 0
         /\ Total(Taking(D, m, v)) <= Two(m)
         /\ Len(source) >= 2 => Total(Taking(D, m, v)) = Two(m)
<1> DEFINE n == Len(source)
           w == Taking(D, m, v)
           y == Two(m)
<1>1. m \in 0 .. MAX_BITS /\ m \in Nat /\ n \in Nat
  BY DEF MAX_BITS, Sorted
<1>2. y \in Nat \ {0}
  BY <1>1, Powers
<1>3. w \in [Symbols -> Nat] /\ Total(w) + x = n * y /\ Total(w) \in Nat
  <2>1. v \in [Symbols -> 0 .. m] /\ Total(Spared(m, v)) = x
    BY DEF Grown
  <2> QED BY <2>1, TakenAndSpared
<1>4. \A s \in Symbols : s \in D => w[s] = Two(m - v[s])
  BY DEF Taking
<1>5. v \in [Symbols -> 0 .. m]
  BY DEF Grown
<1>6. \A s \in Symbols : Two(m - v[s]) \in Nat \ {0}
  BY <1>1, <1>5, SparedIs
<1>7. D \in SUBSET Symbols
  BY <1>1, LeadingIs
<1>8. n >= 1 /\ (n = 1 => m = 1 /\ x = 1) /\ (n >= 2 => x = (n - 1) * y)
  OBVIOUS
<1>9. n = 1 => y = 2
  <2>1. Two(1) = 2
    BY Powers DEF MAX_BITS
  <2> QED BY <1>8, <2>1
<1>10. n >= 2 => \A s \in D : \E t \in D : t # s
  <2> SUFFICES ASSUME n >= 2, NEW s \in D PROVE \E t \in D : t # s
    OBVIOUS
  <2>1. 1 \in 1 .. n /\ 2 \in 1 .. n
    BY <1>1
  <2>2. sorted[1] \in D /\ sorted[2] \in D
    BY <2>1 DEF Leading
  <2>3. sorted[1] # sorted[2]
    BY <2>1 DEF Sorted
  <2> QED BY <2>2, <2>3
<1> HIDE DEF w, y, n
<1>11. /\ Total(w) <= y
       /\ n >= 2 => Total(w) = y
  <2>1. CASE n = 1
    <3>1. n * y = y
      BY <1>2, <2>1
    <3> QED BY <1>2, <1>3, <1>8, <2>1, <3>1
  <2>2. CASE n >= 2
    <3>1. n * y = (n - 1) * y + y /\ (n - 1) * y \in Nat
      BY <1>1, <1>2, <2>2
    <3>2. Total(w) = y
      BY <1>2, <1>3, <1>8, <2>2, <3>1
    <3> QED BY <1>2, <3>2
  <2> QED BY <1>1, <1>8, <2>1, <2>2
<1>12. ASSUME NEW s \in D PROVE v[s] > 0
  <2>1. s \in Symbols /\ v[s] \in 0 .. m
    BY <1>5, <1>7
  <2> SUFFICES ASSUME v[s] = 0 PROVE FALSE
    BY <1>1, <2>1
  <2>2. w[s] = y
    <3>1. m - v[s] = m
      BY <1>1
    <3> QED BY <1>4, <2>1, <3>1 DEF y
  <2>3. /\ y <= Total(w)
        /\ \A t \in Symbols \ {s} : y + w[t] <= Total(w)
    <3>1. /\ w[s] <= Total(w)
          /\ \A t \in Symbols \ {s} : w[s] + w[t] <= Total(w)
      BY <1>3, <2>1, TotalHolds
    <3> QED BY <2>2, <3>1
  <2>4. CASE n = 1
    <3>1. Total(w) = 1 /\ y = 2
      <4>1. Total(w) + 1 = 1 * 2 /\ y = 2
        BY <1>3, <1>8, <1>9, <2>4
      <4> QED BY <1>3, <4>1
    <3> QED BY <2>3, <3>1
  <2>5. CASE n >= 2
    <3>1. PICK t \in D : t # s
      BY <1>10, <2>5
    <3>2. t \in Symbols \ {s} /\ w[t] \in Nat \ {0}
      BY <1>4, <1>6, <1>7, <3>1
    <3>3. y + w[t] <= Total(w)
      BY <2>3, <3>2
    <3> HIDE DEF y
    <3> QED BY <1>2, <1>3, <1>11, <2>5, <3>2, <3>3
  <2> QED BY <1>1, <1>8, <2>4, <2>5
<1> QED BY <1>11, <1>12 DEF w, y, n

(* The lengths made from frequencies, when the limit leaves a code for     *)
(* each symbol that occurs: what they spare of the table is known.         *)
LEMMA LengthsGrow ==
  ASSUME NEW f \in [Symbols -> Nat], NEW max_bitwidth \in 1 .. MAX_BITS,
         Cardinality(Used(f)) \in 1 .. Two(max_bitwidth)
  PROVE  LET source == Source(f)
             n      == Len(source)
         IN  \E sorted, m, a, x :
               /\ Sorted(source, sorted) /\ Leading(sorted, n) = Used(f)
               /\ n = Cardinality(Used(f))
               /\ m \in 1 .. max_bitwidth /\ x \in Nat
               /\ Grown(sorted, m, length_limited_code_lengths(f, max_bitwidth), a, x)
               /\ n = 1 => m = 1 /\ x = 1
               /\ n >= 2 => x = (n - 1) * Two(m)
<1> DEFINE source == Source(f)
           n == Len(source)
           o == ordinary_huffman_optimal_max_bitwidth(source)
           m == Min({max_bitwidth, o})
           l == length_limited_code_lengths(f, max_bitwidth)
<1>1. /\ n = Cardinality(Used(f))
      /\ \E sorted : Sorted(source, sorted) /\ Leading(sorted, n) = Used(f)
  BY SourceIsWhole
<1>2. PICK sorted : Sorted(source, sorted) /\ Leading(sorted, n) = Used(f)
  BY <1>1
<1>3. l = package_merge_code_lengths(source, m)
  BY DEF length_limited_code_lengths
<1>4. SUFFICES \E k, a, x : /\ k \in 1 .. max_bitwidth /\ x \in Nat
                            /\ Grown(sorted, k, l, a, x)
                            /\ n = 1 => k = 1 /\ x = 1
                            /\ n >= 2 => x = (n - 1) * Two(k)
  <2> HIDE DEF source, n, l
  <2> SUFFICES \E r, k, a, x :
               /\ Sorted(source, r) /\ Leading(r, n) = Used(f)
               /\ n = Cardinality(Used(f))
               /\ k \in 1 .. max_bitwidth /\ x \in Nat
               /\ Grown(r, k, l, a, x)
               /\ n = 1 => k = 1 /\ x = 1
               /\ n >= 2 => x = (n - 1) * Two(k)
    BY DEF source, n, l
  <2> QED BY <1>1, <1>2
<1>5. source \in Seq(Nodes) /\ n \in Nat /\ n >= 1 /\ n <= Two(max_bitwidth)
  <2>1. max_bitwidth \in 0 .. MAX_BITS
    BY DEF MAX_BITS
  <2>2. Two(max_bitwidth) \in Nat
    BY <2>1, Powers
  <2> HIDE DEF n
  <2>3. n \in 1 .. Two(max_bitwidth)
    BY <1>1
  <2>4. source \in Seq(Nodes)
    BY <1>2 DEF Sorted
  <2> QED BY <2>2, <2>3, <2>4
<1> HIDE DEF source
<1>6. /\ n = 1 => o = 1
      /\ o <= MAX_BITS => n <= Two(o)
  BY <1>5, OptimalIsEnough
<1>7. o \in Nat \ {0}
  BY <1>5, OptimalType
<1> HIDE DEF o, l
<1>8. /\ m \in 1 .. max_bitwidth /\ m \in 1 .. MAX_BITS /\ m \in Nat \ {0}
      /\ n = 1 => m = 1
      /\ n <= Two(m)
  <2>1. m \in Nat /\ m <= max_bitwidth /\ m <= o /\ m \in {max_bitwidth, o}
    BY <1>7, LeastOfTwo
  <2> HIDE DEF m
  <2>2. m >= 1 /\ m <= 15 /\ max_bitwidth \in 1 .. 15
    BY <1>7, <2>1 DEF MAX_BITS
  <2>3. n <= Two(m)
    <3>1. CASE m = max_bitwidth
      BY <1>5, <3>1
    <3>2. CASE m = o
      <4>1. o <= MAX_BITS
        BY <2>2, <3>2 DEF MAX_BITS
      <4> QED BY <1>6, <3>2, <4>1
    <3> QED BY <2>1, <3>1, <3>2
  <2>4. n = 1 => m = 1
    BY <1>6, <2>1, <2>2
  <2> QED BY <2>1, <2>2, <2>3, <2>4 DEF MAX_BITS
<1> HIDE DEF m
<1>9. PICK g : /\ Weighting(g, source, m)
               /\ package_merge_code_lengths(source, m) = Contents(package(g[m - 1]))
  BY <1>5, <1>8, WeightingExists
<1>10. l = Contents(package(g[m - 1]))
  BY <1>3, <1>9
<1>11. CASE n = 1
  <2>1. m = 1 /\ g[m - 1] = source
    <3>1. m = 1 /\ m - 1 = 0
      BY <1>8, <1>11
    <3> QED BY <1>9, <3>1 DEF Weighting
  <2>2. package(source) = source
    BY <1>11 DEF package
  <2>3. l = Contents(source)
    BY <1>10, <2>1, <2>2
  <2>4. PICK c, a : /\ Counted(c, source)
                    /\ \A p \in 0 .. n : Grown(sorted, 1, c[p], a[p], p * Two(0))
    BY <1>2, FirstLevel DEF Levelled
  <2>5. l = c[1]
    BY <1>5, <1>11, <2>3, <2>4, CountedIs
  <2>6. 1 \in 0 .. n
    BY <1>11
  <2>7. Grown(sorted, 1, c[1], a[1], 1 * Two(0))
    BY <2>4, <2>6
  <2>8. 1 * Two(0) = 1
    BY Powers
  <2>9. Grown(sorted, m, l, a[1], 1)
    BY <2>1, <2>5, <2>7, <2>8
  <2>10. ~ (n >= 2) /\ 1 \in Nat
    BY <1>11
  <2> QED BY <1>8, <2>1, <2>9, <2>10
<1>12. CASE n >= 2
  <2>1. PICK a \in 0 .. n : Grown(sorted, m, Contents(package(g[m - 1])), a, (n - 1) * Two(m))
    BY <1>2, <1>8, <1>9, <1>12, LastPackages
  <2>2. Grown(sorted, m, l, a, (n - 1) * Two(m))
    BY <1>10, <2>1
  <2>3. (n - 1) * Two(m) \in Nat
    <3> DEFINE y == Two(m)
    <3>1. m \in 0 .. MAX_BITS
      BY <1>8 DEF MAX_BITS
    <3>2. y \in Nat
      BY <3>1, Powers
    <3> HIDE DEF y, n
    <3>3. (n - 1) * y \in Nat
      BY <1>5, <1>12, <3>2
    <3> QED BY <3>3 DEF y
  <2> HIDE DEF n
  <2>4. n # 1
    BY <1>5, <1>12
  <2> QED BY <1>8, <2>2, <2>3, <2>4
<1> HIDE DEF n
<1> QED BY <1>5, <1>11, <1>12
-----------------------------------------------------------------------------
LEMMA Cancelled ==
  ASSUME NEW c \in Nat \ {0}, NEW x \in Nat, NEW y \in Nat, c * x <= c * y
  PROVE  x <= y
<1> SUFFICES ASSUME x > y PROVE FALSE
  OBVIOUS
<1> DEFINE d == x - y
<1>1. d \in Nat \ {0} /\ x = y + d
  OBVIOUS
<1> HIDE DEF d
<1>2. c * x = c * y + c * d /\ c * d \in Nat \ {0} /\ c * y \in Nat
  BY <1>1
<1> QED BY <1>2

LEMMA NoLengths ==
  ASSUME lengths \in [Symbols -> Nat], Used(lengths) = {}
  PROVE  max_bits = 0 /\ Kraft(lengths) = 0
<1>1. max_bits = 0
  <2>1. \A s \in Symbols : lengths[s] = 0
    BY DEF Used
  <2> QED BY <2>1, MaxExists
<1>2. Rooms({}) \in [Symbols -> Nat] /\ \A s \in Symbols : Rooms({})[s] = 0
  BY DEF Rooms
<1>3. Space({}) = 0
  BY <1>2, TotalNone DEF Space
<1> QED BY <1>1, <1>3, KraftIs

(* Seen from the widest code, the table may be smaller than it was made    *)
(* for: each code needs as much less of it.                                *)
LEMMA SpaceIs ==
  ASSUME Wide, NEW m \in max_bits .. MAX_BITS
  PROVE  LET D == Used(lengths)
         IN  /\ Total(Taking(D, m, lengths)) = Two(m - max_bits) * Space(D)
             /\ Two(m) = Two(m - max_bits) * Two(max_bits)
             /\ Two(m - max_bits) \in Nat \ {0}
<1> DEFINE D == Used(lengths)
           r == Rooms(D)
           d == m - max_bits
           w == Taking(D, m, lengths)
<1>1. max_bits \in 1 .. 15 /\ m \in 1 .. 15
  BY DEF Wide, MAX_BITS
<1>2. /\ d \in 0 .. MAX_BITS /\ d + max_bits = m /\ max_bits \in 0 .. MAX_BITS - d
      /\ max_bits \in 0 .. MAX_BITS
  BY <1>1 DEF MAX_BITS
<1> HIDE DEF d
<1>3. Two(m) = Two(d) * Two(max_bits) /\ Two(d) \in Nat \ {0}
  <2>1. Two(d + max_bits) = Two(d) * Two(max_bits)
    BY <1>2, PowerSum
  <2> QED BY <1>2, <2>1, Powers
<1>4. r \in [Symbols -> Nat] /\ \A s \in Symbols : r[s] = IF s \in D THEN Room(s) ELSE 0
  BY RoomsAre
<1>5. ASSUME NEW s \in Symbols
      PROVE  (IF s \in D THEN Two(m - lengths[s]) ELSE 0) = Two(d) * r[s]
  <2>1. CASE s \in D
    <3> DEFINE k == max_bits - lengths[s]
    <3>1. lengths[s] \in 0 .. max_bits /\ k \in 0 .. MAX_BITS
      BY Widest
    <3>2. k \in 0 .. MAX_BITS - d /\ m - lengths[s] = d + k
      BY <1>1, <1>2, <3>1 DEF MAX_BITS
    <3>3. r[s] = Two(k)
      BY <1>4, <2>1 DEF Room
    <3> HIDE DEF k
    <3>4. Two(d + k) = Two(d) * Two(k)
      BY <1>2, <3>2, PowerSum
    <3> QED BY <2>1, <3>2, <3>3, <3>4
  <2>2. CASE s \notin D
    <3>1. r[s] = 0
      BY <1>4, <2>2
    <3> QED BY <1>3, <2>2, <3>1
  <2> QED BY <2>1, <2>2
<1>6. w = [s \in Symbols |-> Two(d) * r[s]]
  BY <1>5 DEF Taking
<1>7. Total(w) = Two(d) * Total(r)
  <2> HIDE DEF r, w
  <2>1. Two(d) \in Nat
    BY <1>3
  <2>2. Total([s \in Symbols |-> Two(d) * r[s]]) = Two(d) * Total(r)
    BY <1>4, <2>1, TotalTimes
  <2> QED BY <1>6, <2>2
<1> QED BY <1>3, <1>7 DEF Space, d

(* Whatever the frequencies and the limit are, if it leaves a code for     *)
(* each symbol that occurs.                                                *)
LEMMA CodeIsMade ==
  ASSUME frequencies \in [Symbols -> Nat], limit \in 1 .. MAX_BITS,
         Cardinality(Used(frequencies)) <= 2 ^ limit,
         lengths = length_limited_code_lengths(frequencies, limit)
  PROVE  LengthsMakeACode
<1> DEFINE D == Used(frequencies)
           n == Len(Source(frequencies))
           y == Two(max_bits)
<1>1. limit \in Nat \ {0} /\ limit \in Nat /\ limit \in 0 .. MAX_BITS /\ limit \in 1 .. 15
  BY DEF MAX_BITS
<1>2. /\ lengths \in [Symbols -> Nat]
      /\ \A s \in Symbols : lengths[s] <= limit
      /\ \A s \in Symbols : s \notin D => lengths[s] = 0
  BY <1>1, LengthsAre
<1>3. /\ max_bits \in Nat /\ max_bits <= limit
      /\ \A s \in Symbols : lengths[s] \in 0 .. max_bits
  <2>1. PICK s \in Symbols : lengths[s] = max_bits
    BY <1>2, MaxExists
  <2> QED BY <1>2, <2>1, MaxExists
<1>4. n = Cardinality(D) /\ n \in Nat /\ n <= Two(limit)
  <2>1. n = Cardinality(D) /\ Source(frequencies) \in Seq(Nodes)
    BY SourceIsWhole DEF Sorted
  <2> QED BY <2>1 DEF Two
<1>5. Used(lengths) \subseteq D
  BY <1>2 DEF Used
<1>6. CASE n = 0
  <2>1. D = {}
    <3>1. PICK sorted : Leading(sorted, n) = D
      BY SourceIsWhole
    <3>2. 1 .. n = {}
      BY <1>6
    <3> QED BY <3>1, <3>2 DEF Leading
  <2>2. Used(lengths) = D
    BY <1>5, <2>1
  <2>3. max_bits = 0 /\ Kraft(lengths) = 0
    BY <1>2, <2>1, <2>2, NoLengths
  <2>4. 2 ^ max_bits = 1
    BY <2>3, Powers DEF Two
  <2>5. ~ (Cardinality(Used(lengths)) > 1)
    <3>1. Cardinality(Used(lengths)) = 0
      <4> HIDE DEF n
      <4> QED BY <1>4, <1>6, <2>2
    <3> QED BY <3>1
  <2> QED BY <1>3, <2>2, <2>3, <2>4, <2>5 DEF LengthsMakeACode
<1>7. CASE n >= 1
  <2>1. Cardinality(D) \in 1 .. Two(limit)
    <3>1. Two(limit) \in Nat
      BY <1>1, Powers
    <3> HIDE DEF n
    <3> QED BY <1>4, <1>7, <3>1
  <2>2. PICK sorted, m, a, x :
               /\ Sorted(Source(frequencies), sorted) /\ Leading(sorted, n) = D
               /\ m \in 1 .. limit /\ x \in Nat
               /\ Grown(sorted, m, lengths, a, x)
               /\ n = 1 => m = 1 /\ x = 1
               /\ n >= 2 => x = (n - 1) * Two(m)
    BY <2>1, LengthsGrow
  <2>3. m \in 1 .. MAX_BITS
    BY <1>1, <2>2 DEF MAX_BITS
  <2>4. /\ \A s \in D : lengths[s] > 0
        /\ Total(Taking(D, m, lengths)) <= Two(m)
        /\ n >= 2 => Total(Taking(D, m, lengths)) = Two(m)
    <3>1. \A s \in Symbols \ D : lengths[s] = 0
      BY <1>2
    <3> QED BY <1>7, <2>2, <2>3, <3>1, AllHaveCodes
  <2>5. Used(lengths) = D
    BY <1>5, <2>4 DEF Used
  <2>6. max_bits \in 1 .. m
    <3>1. PICK t \in Symbols : lengths[t] = max_bits
      BY <1>2, MaxExists
    <3>2. lengths[t] \in 0 .. m
      BY <2>2 DEF Grown
    <3>3. \E s \in D : s \in Symbols
      <4>1. 1 \in 1 .. n
        BY <1>4, <1>7
      <4>2. sorted[1] \in D
        BY <2>2, <4>1 DEF Leading
      <4> QED BY <4>2 DEF Used
    <3>4. max_bits >= 1
      BY <1>2, <1>3, <2>4, <3>3
    <3> QED BY <1>3, <2>3, <3>1, <3>2, <3>4
  <2>7. Wide /\ m \in max_bits .. MAX_BITS
    <3>1. m \in 1 .. 15
      BY <2>3 DEF MAX_BITS
    <3> QED BY <1>2, <2>6, <3>1 DEF Wide, MAX_BITS
  <2> DEFINE c == Two(m - max_bits)
             k == Space(Used(lengths))
             z == Total(Taking(D, m, lengths))
  <2>8. z = c * k /\ Two(m) = c * y /\ c \in Nat \ {0}
    BY <2>5, <2>7, SpaceIs
  <2>9. k \in Nat /\ y \in Nat /\ Kraft(lengths) = k
    BY <2>7, SpaceMonotone, Widest, KraftIs
  <2>10. z <= Two(m) /\ (n >= 2 => z = Two(m))
    BY <2>4
  <2> HIDE DEF c, k, y, z, n
  <2>11. c * k <= c * y /\ (n >= 2 => c * y <= c * k)
    <3>1. c * k \in Nat /\ c * y \in Nat
      BY <2>8, <2>9
    <3> HIDE DEF LengthsMakeACode
    <3> QED BY <2>8, <2>10, <3>1
  <2>12. k <= y
    BY <2>8, <2>9, <2>11, Cancelled
  <2>13. n >= 2 => y <= k
    BY <2>8, <2>9, <2>11, Cancelled
  <2>14. Cardinality(Used(lengths)) > 1 => k = y
    BY <1>4, <2>5, <2>9, <2>12, <2>13
  <2>15. y = 2 ^ max_bits
    BY DEF y, Two
  <2> QED BY <1>3, <2>5, <2>9, <2>12, <2>14, <2>15 DEF LengthsMakeACode
<1> QED BY <1>4, <1>6, <1>7
-----------------------------------------------------------------------------
(* What it costs to write symbols, each as often as f says in v bits.      *)
Weigh(f, v) == Total([s \in Symbols |-> v[s] * f[s]])

LEMMA WeighIs ==
  ASSUME NEW f \in [Symbols -> Nat], NEW u \in [Symbols -> Nat], NEW v \in [Symbols -> Nat]
  PROVE  /\ Weigh(f, u) \in Nat
         /\ Weigh(f, Plus(u, v)) = Weigh(f, u) + Weigh(f, v)
         /\ (\A s \in Symbols : u[s] <= v[s]) => Weigh(f, u) <= Weigh(f, v)
<1> DEFINE x == [s \in Symbols |-> u[s] * f[s]]
           y == [s \in Symbols |-> v[s] * f[s]]
           z == [s \in Symbols |-> Plus(u, v)[s] * f[s]]
<1>1. \A s \in Symbols : u[s] \in Nat /\ v[s] \in Nat /\ f[s] \in Nat
  OBVIOUS
<1>2. \A i, j, k \in Nat : i * k \in Nat /\ (i + j) * k = i * k + j * k
                           /\ (i <= j => i * k <= j * k)
  OBVIOUS
<1>3. x \in [Symbols -> Nat] /\ y \in [Symbols -> Nat]
  BY <1>1, <1>2
<1>4. \A s \in Symbols : z[s] = x[s] + y[s]
  BY <1>1, <1>2, PlusIs
<1>5. z = Plus(x, y)
  BY <1>4 DEF Plus
<1>6. (\A s \in Symbols : u[s] <= v[s]) => \A s \in Symbols : x[s] <= y[s]
  BY <1>1, <1>2
<1> HIDE DEF x, y, z
<1>7. Total(Plus(x, y)) = Total(x) + Total(y) /\ Total(x) \in Nat
  BY <1>3, TotalPlus
<1>8. (\A s \in Symbols : u[s] <= v[s]) => Total(x) <= Total(y)
  BY <1>3, <1>6, TotalMonotone
<1> QED BY <1>5, <1>7, <1>8 DEF Weigh, x, y, z

LEMMA WeighNone ==
  ASSUME NEW f \in [Symbols -> Nat]
  PROVE  Weigh(f, Never) = 0
<1> DEFINE x == [s \in Symbols |-> Never[s] * f[s]]
<1>1. \A s \in Symbols : x[s] = 0
  BY DEF Never
<1>2. x \in [Symbols -> Nat]
  BY <1>1
<1> HIDE DEF x
<1>3. Total(x) = 0
  BY <1>1, <1>2, TotalNone
<1> QED BY <1>3 DEF Weigh, x

LEMMA CountedLeading ==
  ASSUME NEW source, NEW sorted, Sorted(source, sorted), NEW b, Counted(b, source)
  PROVE  \A i \in 0 .. Len(source) :
           /\ b[i] \in [Symbols -> Nat]
           /\ \A s \in Symbols : b[i][s] = IF s \in Leading(sorted, i) THEN 1 ELSE 0
<1> DEFINE n == Len(source)
           In(i) == Leading(sorted, i)
           Has(i) == \A s \in Symbols : b[i][s] = IF s \in In(i) THEN 1 ELSE 0
           S == {i \in 0 .. n : Has(i)}
<1>1. n \in Nat /\ source \in Seq(Nodes)
  BY DEF Sorted
<1>2. /\ b \in [0 .. n -> [Symbols -> Nat]] /\ b[0] = Never
      /\ \A i \in 1 .. n : b[i] = Plus(b[i - 1], source[i].symbols)
  BY DEF Counted
<1> HIDE DEF n
<1>3. 0 \in S
  <2>1. In(0) = {}
    BY LeadingIs
  <2> QED BY <1>1, <1>2, <2>1 DEF Never
<1>4. ASSUME NEW i \in 1 .. n, i - 1 \in S PROVE i \in S
  <2> DEFINE p == b[i - 1]
             q == source[i].symbols
  <2>1. i \in 0 .. n /\ i - 1 \in 0 .. n
    BY <1>1
  <2>2. p \in [Symbols -> Nat] /\ b[i] = Plus(p, q)
    BY <1>2, <2>1
  <2>3. q = [w \in Symbols |-> IF w = sorted[i] THEN 1 ELSE 0]
    BY Zenon DEF Sorted, n
  <2>4. q \in [Symbols -> Nat] /\ \A s \in Symbols : q[s] = IF s = sorted[i] THEN 1 ELSE 0
    BY <2>3
  <2>5. sorted[i] \notin In(i - 1) /\ In(i) = In(i - 1) \cup {sorted[i]}
    BY LeadingIs DEF n
  <2>6. \A s \in Symbols : p[s] = IF s \in In(i - 1) THEN 1 ELSE 0
    BY <1>4
  <2> HIDE DEF p, q, In
  <2>7. \A s \in Symbols : b[i][s] = p[s] + q[s]
    BY <2>2, <2>4, PlusIs
  <2>8. Has(i)
    BY <2>4, <2>5, <2>6, <2>7
  <2> QED BY <2>1, <2>8
<1> HIDE DEF S, Has
<1>5. \A i \in 0 .. n : i \in S
  BY <1>1, <1>3, <1>4, UpTo
<1>6. \A i \in 0 .. n : b[i] \in [Symbols -> Nat]
  BY <1>2
<1> QED BY <1>5, <1>6 DEF S, Has, n

(* No choice of as many symbols weighs less than the first.                *)
LEMMA FirstAreLightest ==
  ASSUME NEW f \in [Symbols -> Nat], NEW source, NEW sorted, Sorted(source, sorted),
         Honest(f, source, sorted), NEW b, Counted(b, source),
         NEW v \in [Symbols -> 0 .. 1],
         \A s \in Symbols : v[s] > 0 => s \in Leading(sorted, Len(source))
  PROVE  Total(v) \in 0 .. Len(source) /\ Weigh(f, b[Total(v)]) <= Weigh(f, v)
<1> DEFINE n == Len(source)
           j == Total(v)
           u == b[j]
           x == source[j].weight
<1>1. n \in Nat /\ n \in 0 .. n
  BY DEF Sorted
<1>2. v \in [Symbols -> Nat] /\ \A s \in Symbols : v[s] \in {0, 1}
  OBVIOUS
<1>3. j \in 0 .. n
  <2> DEFINE t == [s \in Symbols |-> IF s \in Leading(sorted, n) THEN 1 ELSE 0]
  <2>1. t \in [Symbols -> Nat] /\ \A s \in Symbols : v[s] <= t[s]
    BY <1>2
  <2>2. Total(t) = n * 1
    <3> DEFINE Sum(a) == Total([s \in Symbols |-> IF s \in Leading(sorted, a) THEN 1 ELSE 0])
    <3>1. \A a \in 0 .. n : Sum(a) = a * 1
      BY TotalLeading
    <3> HIDE DEF Sum
    <3>2. Sum(n) = n * 1
      BY <1>1, <3>1
    <3> QED BY <3>2 DEF Sum
  <2> HIDE DEF t
  <2>3. Total(v) <= Total(t) /\ Total(v) \in Nat
    BY <1>2, <2>1, TotalMonotone
  <2> QED BY <1>1, <2>2, <2>3
<1>4. u \in [Symbols -> Nat]
      /\ \A s \in Symbols : u[s] = IF s \in Leading(sorted, j) THEN 1 ELSE 0
  BY <1>3, CountedLeading
<1>5. CASE j = 0
  <2>1. u = Never
    BY <1>5 DEF Counted
  <2>2. Weigh(f, Never) = 0 /\ Weigh(f, v) \in Nat
    BY <1>2, WeighNone, WeighIs
  <2> QED BY <1>3, <2>1, <2>2
<1>6. CASE j # 0
  <2>1. j \in 1 .. n
    BY <1>1, <1>3, <1>6
  <2>2. x \in Nat
    <3>1. source[j] \in Nodes
      BY <2>1 DEF Sorted
    <3> QED BY <3>1 DEF Nodes
  <2>3. \A s \in Symbols : s \in Leading(sorted, j) => f[s] <= x
    <3> SUFFICES ASSUME NEW i \in 1 .. j PROVE f[sorted[i]] <= x
      BY DEF Leading
    <3>1. i \in 1 .. n /\ i <= j
      BY <1>1, <2>1
    <3>2. source[i].weight <= x
      BY <2>1, <3>1 DEF Sorted, Ascending
    <3> QED BY <3>1, <3>2 DEF Honest
  <2>4. \A s \in Symbols : s \in Leading(sorted, n) /\ s \notin Leading(sorted, j) => x <= f[s]
    <3> SUFFICES ASSUME NEW i \in 1 .. n, sorted[i] \notin Leading(sorted, j)
                 PROVE  x <= f[sorted[i]]
      BY DEF Leading
    <3>1. i \notin 1 .. j
      BY DEF Leading
    <3>2. j <= i
      BY <1>1, <2>1, <3>1
    <3>3. x <= source[i].weight
      BY <2>1, <3>2 DEF Sorted, Ascending
    <3> QED BY <3>3 DEF Honest
  <2> DEFINE uf == [s \in Symbols |-> u[s] * f[s]]
             vf == [s \in Symbols |-> v[s] * f[s]]
             ux == [s \in Symbols |-> x * u[s]]
             vx == [s \in Symbols |-> x * v[s]]
  <2> HIDE DEF x, j, n, u
  <2>5. /\ \A i, k \in Nat : i * k \in Nat
        /\ \A k \in Nat : 0 * k = 0 /\ 1 * k = k /\ k * 0 = 0 /\ k * 1 = k
    OBVIOUS
  <2>6. /\ uf \in [Symbols -> Nat] /\ vf \in [Symbols -> Nat]
        /\ ux \in [Symbols -> Nat] /\ vx \in [Symbols -> Nat]
    BY <1>2, <1>4, <2>2, <2>5
  <2>7. \A s \in Symbols : uf[s] + vx[s] <= vf[s] + ux[s]
    <3> SUFFICES ASSUME NEW s \in Symbols PROVE uf[s] + vx[s] <= vf[s] + ux[s]
      OBVIOUS
    <3>1. /\ v[s] \in {0, 1} /\ f[s] \in Nat /\ v[s] > 0 => s \in Leading(sorted, n)
          /\ u[s] = IF s \in Leading(sorted, j) THEN 1 ELSE 0
      BY <1>2, <1>4 DEF n
    <3>2. /\ uf[s] = u[s] * f[s] /\ vf[s] = v[s] * f[s]
          /\ ux[s] = x * u[s] /\ vx[s] = x * v[s]
      OBVIOUS
    <3> HIDE DEF uf, vf, ux, vx
    <3>3. CASE s \in Leading(sorted, j)
      <4>1. u[s] = 1 /\ f[s] <= x
        BY <2>3, <3>1, <3>3
      <4> QED BY <2>2, <2>5, <3>1, <3>2, <4>1
    <3>4. CASE s \notin Leading(sorted, j)
      <4>1. u[s] = 0 /\ (v[s] = 1 => x <= f[s])
        BY <2>4, <3>1, <3>4
      <4> QED BY <2>2, <2>5, <3>1, <3>2, <4>1
    <3> QED BY <3>3, <3>4
  <2>8. Total(ux) = x * Total(u) /\ Total(vx) = x * j
    BY <1>2, <1>4, <2>2, TotalTimes DEF j
  <2>9. Total(u) = j
    <3> DEFINE t == [s \in Symbols |-> IF s \in Leading(sorted, j) THEN 1 ELSE 0]
               Sum(a) == Total([s \in Symbols |-> IF s \in Leading(sorted, a) THEN 1 ELSE 0])
    <3>1. u = t
      BY <1>4
    <3>2. \A a \in 0 .. n : Sum(a) = a * 1
      BY TotalLeading DEF n
    <3>3. Total(t) = Sum(j)
      OBVIOUS
    <3> HIDE DEF Sum, t
    <3>4. Sum(j) = j * 1
      BY <1>3, <3>2
    <3> QED BY <1>1, <1>3, <3>1, <3>3, <3>4
  <2> HIDE DEF uf, vf, ux, vx
  <2>10. Total(Plus(uf, vx)) <= Total(Plus(vf, ux))
    <3> DEFINE y == Plus(uf, vx)
               z == Plus(vf, ux)
    <3>1. y \in [Symbols -> Nat] /\ \A s \in Symbols : y[s] = uf[s] + vx[s]
      BY <2>6, PlusIs
    <3>2. z \in [Symbols -> Nat] /\ \A s \in Symbols : z[s] = vf[s] + ux[s]
      BY <2>6, PlusIs
    <3> HIDE DEF y, z
    <3>3. \A s \in Symbols : y[s] <= z[s]
      BY <2>7, <3>1, <3>2
    <3>4. Total(y) <= Total(z)
      BY <3>1, <3>2, <3>3, TotalMonotone
    <3> QED BY <3>4 DEF y, z
  <2>11. Total(uf) + Total(vx) <= Total(vf) + Total(ux)
         /\ Total(uf) \in Nat /\ Total(vf) \in Nat /\ Total(ux) \in Nat
    BY <2>6, <2>10, TotalPlus
  <2>12. Total(uf) <= Total(vf)
    BY <2>8, <2>9, <2>11
  <2> QED BY <1>3, <2>12 DEF Weigh, uf, vf, u, n, j
<1> QED BY <1>5, <1>6

(* Each node of a list weighs as the symbols in it.                        *)
Weighed(f, nodes) == \A i \in 1 .. Len(nodes) : nodes[i].weight = Weigh(f, nodes[i].symbols)

LEMMA WeighBeginnings ==
  ASSUME NEW f \in [Symbols -> Nat], NEW nodes \in Seq(Nodes), Weighed(f, nodes),
         NEW c, Counted(c, nodes)
  PROVE  /\ \A i \in 0 .. Len(nodes) : c[i] \in [Symbols -> Nat] /\ Weigh(f, c[i]) \in Nat
         /\ \A i \in 1 .. Len(nodes) : Weigh(f, c[i]) = Weigh(f, c[i - 1]) + nodes[i].weight
<1> DEFINE L == Len(nodes)
<1>1. /\ c \in [0 .. L -> [Symbols -> Nat]]
      /\ \A i \in 1 .. L : c[i] = Plus(c[i - 1], nodes[i].symbols)
  BY DEF Counted
<1>2. \A i \in 0 .. L : c[i] \in [Symbols -> Nat] /\ Weigh(f, c[i]) \in Nat
  BY <1>1, WeighIs
<1>3. ASSUME NEW i \in 1 .. L
      PROVE  Weigh(f, c[i]) = Weigh(f, c[i - 1]) + nodes[i].weight
  <2> DEFINE u == c[i - 1]
             v == nodes[i].symbols
  <2>1. i - 1 \in 0 .. L
    OBVIOUS
  <2>2. u \in [Symbols -> Nat] /\ v \in [Symbols -> Nat]
    <3>1. nodes[i] \in Nodes
      OBVIOUS
    <3>2. \A y \in Nodes : y.symbols \in [Symbols -> Nat]
      BY DEF Nodes
    <3> QED BY <1>1, <2>1, <3>1, <3>2
  <2>3. c[i] = Plus(u, v) /\ nodes[i].weight = Weigh(f, v)
    BY <1>1 DEF Weighed
  <2> HIDE DEF u, v
  <2>4. Weigh(f, Plus(u, v)) = Weigh(f, u) + Weigh(f, v)
    BY <2>2, WeighIs
  <2> QED BY <2>3, <2>4 DEF u
<1> QED BY <1>2, <1>3

(* How the weight of a beginning of an ascending list grows and falls.     *)
LEMMA WeighFrom ==
  ASSUME NEW f \in [Symbols -> Nat], NEW nodes \in Seq(Nodes), Weighed(f, nodes),
         Ascending(nodes), NEW c, Counted(c, nodes),
         NEW i \in 0 .. Len(nodes), NEW x \in Nat
  PROVE  /\ (i < Len(nodes) => x <= nodes[i + 1].weight)
              => \A d \in 0 .. Len(nodes) - i : Weigh(f, c[i]) + d * x <= Weigh(f, c[i + d])
         /\ (i >= 1 => nodes[i].weight <= x)
              => \A d \in 0 .. i : Weigh(f, c[i]) <= Weigh(f, c[i - d]) + d * x
<1> DEFINE L == Len(nodes)
           W(p) == Weigh(f, c[p])
           A(p) == nodes[p].weight
<1>1. /\ \A p \in 0 .. L : W(p) \in Nat
      /\ \A p \in 1 .. L : W(p) = W(p - 1) + A(p)
  BY WeighBeginnings
<1>2. /\ L \in Nat /\ \A p, q \in 1 .. L : p <= q => A(p) <= A(q)
      /\ \A p \in 1 .. L : A(p) \in Nat
  <2>1. \A y \in Nodes : y.weight \in Nat
    BY DEF Nodes
  <2> QED BY <2>1 DEF Ascending
<1>3. i \in 0 .. L
  OBVIOUS
<1> HIDE DEF L, W, A
<1>4. ASSUME i < L => x <= A(i + 1)
      PROVE  \A d \in 0 .. L - i : W(i) + d * x <= W(i + d)
  <2> DEFINE B == L - i
             S == {d \in 0 .. B : W(i) + d * x <= W(i + d)}
  <2>1. B \in Nat /\ 0 \in S
    <3>1. i + 0 = i /\ 0 * x = 0 /\ W(i) \in Nat /\ L - i \in Nat
      BY <1>1, <1>2, <1>3
    <3> QED BY <3>1
  <2>2. ASSUME NEW d \in 1 .. B, d - 1 \in S PROVE d \in S
    <3> DEFINE e == d - 1
               y == e * x
    <3>1. /\ i + d \in 1 .. L /\ i + 1 \in 1 .. L /\ i + 1 <= i + d /\ i < L
          /\ (i + d) - 1 = i + e /\ i + e \in 0 .. L /\ d \in 0 .. B
          /\ e \in Nat /\ d = e + 1
      BY <1>2, <1>3
    <3>2. A(i + 1) <= A(i + d) /\ A(i + 1) \in Nat /\ A(i + d) \in Nat /\ x <= A(i + 1)
      BY <1>2, <1>4, <3>1
    <3>3. W(i + d) = W(i + e) + A(i + d) /\ W(i + e) \in Nat /\ W(i) \in Nat
      BY <1>1, <1>3, <3>1
    <3>4. W(i) + y <= W(i + e)
      BY <2>2
    <3>5. d * x = y + x /\ y \in Nat
      BY <3>1
    <3> HIDE DEF y, e
    <3>6. W(i) + d * x <= W(i + d)
      BY <3>2, <3>3, <3>4, <3>5
    <3> QED BY <3>1, <3>6
  <2> HIDE DEF S, B
  <2>3. \A d \in 0 .. B : d \in S
    BY <2>1, <2>2, UpTo
  <2> QED BY <2>3 DEF S, B
<1>5. ASSUME i >= 1 => A(i) <= x
      PROVE  \A d \in 0 .. i : W(i) <= W(i - d) + d * x
  <2> DEFINE S == {d \in 0 .. i : W(i) <= W(i - d) + d * x}
  <2>1. i \in Nat /\ 0 \in S
    <3>1. i - 0 = i /\ 0 * x = 0 /\ W(i) \in Nat /\ i \in Nat
      BY <1>1, <1>2, <1>3
    <3> QED BY <3>1
  <2>2. ASSUME NEW d \in 1 .. i, d - 1 \in S PROVE d \in S
    <3> DEFINE e == d - 1
               y == e * x
               p == i - e
    <3>1. /\ i \in 1 .. L /\ p \in 1 .. L /\ p <= i /\ i >= 1
          /\ p - 1 = i - d /\ i - d \in 0 .. L /\ d \in 0 .. i
          /\ e \in Nat /\ d = e + 1
      BY <1>2, <1>3
    <3>2. A(p) <= A(i) /\ A(p) \in Nat /\ A(i) \in Nat /\ A(i) <= x
      BY <1>2, <1>5, <3>1
    <3>3. W(p) = W(i - d) + A(p) /\ W(i - d) \in Nat /\ W(i) \in Nat
      BY <1>1, <1>3, <3>1
    <3>4. W(i) <= W(p) + y
      BY <2>2
    <3>5. d * x = y + x /\ y \in Nat
      BY <3>1
    <3> HIDE DEF y, e, p
    <3>6. W(i) <= W(i - d) + d * x
      BY <3>2, <3>3, <3>4, <3>5
    <3> QED BY <3>1, <3>6
  <2> HIDE DEF S
  <2>3. \A d \in 0 .. i : d \in S
    BY <2>1, <2>2, UpTo
  <2> QED BY <2>3 DEF S
<1> QED BY <1>4, <1>5 DEF W, A, L

(* A beginning of the merged list weighs no more than any two beginnings   *)
(* of the lists that are as long together.                                 *)
LEMMA MergedIsLeast ==
  ASSUME NEW f \in [Symbols -> Nat], NEW left \in Seq(Nodes), NEW right \in Seq(Nodes),
         Weighed(f, left), Weighed(f, right), Ascending(left), Ascending(right),
         NEW out, NEW at, Interleaves(out, at, left, right),
         NEW a, Counted(a, left), NEW b, Counted(b, right),
         NEW i \in 0 .. Len(left), NEW j \in 0 .. Len(right)
  PROVE  LET n == i + j
         IN  Weigh(f, Plus(a[at[n]], b[n - at[n]])) <= Weigh(f, a[i]) + Weigh(f, b[j])
<1> DEFINE l == Len(left)
           r == Len(right)
           n == i + j
           p == at[n]
           q == n - p
           A(k) == Weigh(f, a[k])
           B(k) == Weigh(f, b[k])
<1>1. l \in Nat /\ r \in Nat /\ i \in 0 .. l /\ j \in 0 .. r /\ n \in 0 .. l + r
  OBVIOUS
<1>2. p \in 0 .. l /\ q \in 0 .. r
  BY <1>1 DEF Interleaves
<1>3. /\ p >= 1 /\ q < r => left[p].weight < right[q + 1].weight
      /\ q >= 1 /\ p < l => right[q].weight <= left[p + 1].weight
  BY <1>1, InterleavedIs
<1>4. /\ \A k \in 0 .. l : a[k] \in [Symbols -> Nat] /\ A(k) \in Nat
      /\ \A k \in 0 .. r : b[k] \in [Symbols -> Nat] /\ B(k) \in Nat
  BY WeighBeginnings
<1>5. Weigh(f, Plus(a[p], b[q])) = A(p) + B(q)
  <2> DEFINE u == a[p]
             v == b[q]
  <2>1. u \in [Symbols -> Nat] /\ v \in [Symbols -> Nat]
    BY <1>2, <1>4
  <2> HIDE DEF u, v
  <2>2. Weigh(f, Plus(u, v)) = Weigh(f, u) + Weigh(f, v)
    BY <2>1, WeighIs
  <2> QED BY <2>2 DEF u, v
<1>6. \A y \in Nodes : y.weight \in Nat
  BY DEF Nodes
<1>7. /\ \A k \in 1 .. l : left[k].weight \in Nat
      /\ \A k \in 1 .. r : right[k].weight \in Nat
  BY <1>6
<1>8. q = (i - p) + j /\ p \in Int /\ q \in Int
  BY <1>1, <1>2
<1> HIDE DEF p, q
<1>9. A(p) + B(q) <= A(i) + B(j)
  <2>1. CASE i = p
    <3>1. q = j
      BY <1>1, <1>8, <2>1
    <3> QED BY <1>1, <1>4, <2>1, <3>1
  <2>2. CASE p < i
    <3> DEFINE d == i - p
               x == right[q].weight
    <3>1. /\ d \in 0 .. l - p /\ d \in 0 .. q /\ p + d = i /\ q - d = j
          /\ q >= 1 /\ p < l /\ q \in 1 .. r /\ d \in Nat
      BY <1>1, <1>2, <1>8, <2>2
    <3>2. x \in Nat /\ x <= left[p + 1].weight
      BY <1>3, <1>7, <3>1
    <3>3. A(p) + d * x <= A(p + d)
      <4> HIDE DEF d, x
      <4> QED BY <1>2, <3>1, <3>2, WeighFrom
    <3>4. B(q) <= B(q - d) + d * x
      <4>1. x <= x
        BY <3>2
      <4> HIDE DEF d
      <4>2. q \in 0 .. Len(right)
        BY <1>2
      <4> QED BY <3>1, <3>2, <4>1, <4>2, WeighFrom
    <3>5. d * x \in Nat
      BY <3>1, <3>2
    <3> DEFINE y == d * x
    <3>6. A(p) + y <= A(i) /\ B(q) <= B(j) + y /\ y \in Nat
      BY <3>1, <3>3, <3>4, <3>5
    <3>7. A(p) \in Nat /\ A(i) \in Nat /\ B(q) \in Nat /\ B(j) \in Nat
      BY <1>1, <1>2, <1>4
    <3> HIDE DEF y, A, B
    <3> QED BY <3>6, <3>7
  <2>3. CASE i < p
    <3> DEFINE d == p - i
               x == left[p].weight
    <3>1. /\ d \in 0 .. p /\ d \in 0 .. r - q /\ p - d = i /\ q + d = j
          /\ p >= 1 /\ q < r /\ p \in 1 .. l /\ q + 1 \in 1 .. r /\ d \in Nat
      BY <1>1, <1>2, <1>8, <2>3
    <3>2. x \in Nat /\ x <= right[q + 1].weight
      <4>1. x \in Nat /\ right[q + 1].weight \in Nat /\ x < right[q + 1].weight
        BY <1>3, <1>7, <3>1
      <4> QED BY <4>1
    <3>3. B(q) + d * x <= B(q + d)
      <4> HIDE DEF d, x
      <4> QED BY <1>2, <3>1, <3>2, WeighFrom
    <3>4. A(p) <= A(p - d) + d * x
      <4>1. x <= x
        BY <3>2
      <4> HIDE DEF d
      <4>2. p \in 0 .. Len(left)
        BY <1>2
      <4> QED BY <3>1, <3>2, <4>1, <4>2, WeighFrom
    <3>5. d * x \in Nat
      BY <3>1, <3>2
    <3> DEFINE y == d * x
    <3>6. B(q) + y <= B(j) /\ A(p) <= A(i) + y /\ y \in Nat
      BY <3>1, <3>3, <3>4, <3>5
    <3>7. A(p) \in Nat /\ A(i) \in Nat /\ B(q) \in Nat /\ B(j) \in Nat
      BY <1>1, <1>2, <1>4
    <3> HIDE DEF y, A, B
    <3> QED BY <3>6, <3>7
  <2> QED BY <1>1, <1>8, <2>1, <2>2, <2>3
<1> QED BY <1>5, <1>9 DEF p, q

LEMMA SourceWeighed ==
  ASSUME NEW f \in [Symbols -> Nat], NEW source, NEW sorted, Sorted(source, sorted),
         Honest(f, source, sorted)
  PROVE  Weighed(f, source)
<1> SUFFICES ASSUME NEW i \in 1 .. Len(source)
             PROVE  source[i].weight = Weigh(f, source[i].symbols)
  BY DEF Weighed
<1> DEFINE s == sorted[i]
           z == [u \in Symbols |-> 0]
           w == [u \in Symbols |-> source[i].symbols[u] * f[u]]
<1>1. s \in Symbols /\ source[i].symbols = [u \in Symbols |-> IF u = s THEN 1 ELSE 0]
  BY Zenon DEF Sorted
<1>2. f[s] \in Nat /\ \A u \in Symbols : f[u] \in Nat
  BY <1>1
<1>3. \A k \in Nat : 1 * k = k /\ 0 * k = 0
  OBVIOUS
<1>4. \A u \in Symbols : w[u] = IF u = s THEN f[s] ELSE 0
  BY <1>1, <1>2, <1>3
<1>5. w \in [Symbols -> Nat] /\ z \in [Symbols -> Nat] /\ \A u \in Symbols : z[u] = 0
  BY <1>2, <1>4
<1>6. source[i].weight = f[s]
  BY DEF Honest
<1> DEFINE x == f[s]
<1> HIDE DEF w, z, s
<1>7. Total(z) = 0
  BY <1>5, TotalNone
<1>8. x \in Nat /\ w[s] = z[s] + x /\ \A u \in Symbols \ {s} : w[u] = z[u]
  BY <1>1, <1>2, <1>4, <1>5
<1>9. Total(w) = Total(z) + x
  <2>1. w \in [Symbols -> Nat] /\ z \in [Symbols -> Nat] /\ s \in Symbols
    BY <1>1, <1>5
  <2> HIDE DEF x
  <2> QED BY <1>8, <2>1, TotalAdd, ZenonT(90)
<1>10. Total(w) = x
  BY <1>7, <1>8, <1>9
<1> QED BY <1>6, <1>10 DEF Weigh, w, x

LEMMA PackageWeighed ==
  ASSUME NEW f \in [Symbols -> Nat], NEW nodes \in Seq(Nodes), Len(nodes) >= 2,
         Weighed(f, nodes)
  PROVE  Weighed(f, package(nodes))
<1> DEFINE H == Len(nodes) \div 2
           p == package(nodes)
<1>1. Len(p) = H /\ \A k \in 1 .. H : p[k] = Both(nodes[2 * k - 1], nodes[2 * k])
  BY PackageNodes
<1>2. ASSUME NEW k \in 1 .. H PROVE p[k].weight = Weigh(f, p[k].symbols)
  <2> DEFINE x == nodes[2 * k - 1]
             y == nodes[2 * k]
             u == x.symbols
             v == y.symbols
  <2>1. 2 * k - 1 \in 1 .. Len(nodes) /\ 2 * k \in 1 .. Len(nodes)
    OBVIOUS
  <2>2. x \in Nodes /\ y \in Nodes /\ x.weight = Weigh(f, u) /\ y.weight = Weigh(f, v)
    BY <2>1 DEF Weighed
  <2>3. u \in [Symbols -> Nat] /\ v \in [Symbols -> Nat]
    <3> HIDE DEF x, y
    <3> QED BY <2>2 DEF Nodes
  <2>4. p[k] = Both(x, y)
    BY <1>1
  <2> HIDE DEF x, y, p
  <2>5. p[k].symbols = Plus(u, v) /\ p[k].weight = x.weight + y.weight
    BY <2>2, <2>4, BothIs
  <2> HIDE DEF u, v
  <2>6. Weigh(f, Plus(u, v)) = Weigh(f, u) + Weigh(f, v)
    BY <2>3, WeighIs
  <2> QED BY <2>2, <2>5, <2>6
<1> QED BY <1>1, <1>2 DEF Weighed

LEMMA MergeWeighed ==
  ASSUME NEW f \in [Symbols -> Nat], NEW left \in Seq(Nodes), NEW right \in Seq(Nodes),
         Weighed(f, left), Weighed(f, right),
         NEW out, NEW at, Interleaves(out, at, left, right)
  PROVE  Weighed(f, out)
<1> DEFINE l == Len(left)
           r == Len(right)
<1>1. /\ l \in Nat /\ r \in Nat /\ Len(out) = l + r
      /\ \A n \in 0 .. l + r : at[n] \in 0 .. l /\ n - at[n] \in 0 .. r
      /\ \A n \in 1 .. l + r :
           \/ at[n] = at[n - 1] + 1 /\ out[n] = left[at[n]]
           \/ at[n] = at[n - 1] /\ out[n] = right[n - at[n]]
  BY DEF Interleaves
<1> SUFFICES ASSUME NEW n \in 1 .. l + r PROVE out[n].weight = Weigh(f, out[n].symbols)
  BY <1>1 DEF Weighed
<1>2. /\ n \in 0 .. l + r /\ n - 1 \in 0 .. l + r
      /\ at[n] \in 0 .. l /\ n - at[n] \in 0 .. r
      /\ at[n - 1] \in 0 .. l /\ (n - 1) - at[n - 1] \in 0 .. r
  <2> HIDE DEF l, r
  <2>1. n \in 0 .. l + r /\ n - 1 \in 0 .. l + r
    BY <1>1
  <2> QED BY <1>1, <2>1
<1>3. CASE at[n] = at[n - 1] + 1 /\ out[n] = left[at[n]]
  <2>1. at[n] \in 1 .. l
    <3> DEFINE p == at[n - 1]
               q == at[n]
    <3>1. p \in 0 .. l /\ q \in 0 .. l /\ q = p + 1
      BY <1>2, <1>3
    <3> HIDE DEF p, q
    <3>2. q \in 1 .. l
      BY <1>1, <3>1
    <3> QED BY <3>2 DEF q
  <2> QED BY <1>3, <2>1 DEF Weighed
<1>4. CASE at[n] = at[n - 1] /\ out[n] = right[n - at[n]]
  <2>1. n - at[n] \in 1 .. r
    <3> DEFINE p == at[n - 1]
               q == at[n]
    <3>1. /\ p \in 0 .. l /\ q \in 0 .. l /\ q = p /\ n - q \in 0 .. r /\ (n - 1) - p \in 0 .. r
      BY <1>2, <1>4
    <3> HIDE DEF p, q
    <3>2. n - q \in 1 .. r
      BY <1>1, <3>1
    <3> QED BY <3>2 DEF q
  <2> QED BY <1>4, <2>1 DEF Weighed
<1> QED BY <1>1, <1>3, <1>4

(* Whatever symbols, none more than k times, spare as much as p nodes, the *)
(* list has p nodes, and the first p weigh no more.                        *)
Cheapest(f, source, sorted, k, x, nodes) ==
  \E c :
    /\ Counted(c, nodes)
    /\ \A v \in [Symbols -> 0 .. k], p \in Nat :
         (/\ \A s \in Symbols : v[s] > 0 => s \in Leading(sorted, Len(source))
          /\ p * x <= Total(Spared(k, v)))
           => p <= Len(nodes) /\ Weigh(f, c[p]) <= Weigh(f, v)

LEMMA FirstCheapest ==
  ASSUME NEW f \in [Symbols -> Nat], NEW source, NEW sorted, Sorted(source, sorted),
         Honest(f, source, sorted)
  PROVE  Cheapest(f, source, sorted, 1, Two(0), source)
<1> DEFINE n == Len(source)
<1>1. n \in Nat /\ source \in Seq(Nodes)
  BY DEF Sorted
<1>2. PICK b : Counted(b, source)
  BY <1>1, ContentsExist
<1>3. Two(0) = 1 /\ Two(1) = 2 /\ 1 \in 0 .. MAX_BITS
  <2>1. 1 \in 1 .. MAX_BITS /\ 1 - 1 = 0 /\ 1 \in 0 .. MAX_BITS
    BY DEF MAX_BITS
  <2>2. Two(1) = 2 * Two(1 - 1) /\ Two(0) = 1
    BY <2>1, Powers
  <2> QED BY <2>1, <2>2
<1>4. ASSUME NEW v \in [Symbols -> 0 .. 1], NEW p \in Nat,
             \A s \in Symbols : v[s] > 0 => s \in Leading(sorted, n),
             p * Two(0) <= Total(Spared(1, v))
      PROVE  p <= n /\ Weigh(f, b[p]) <= Weigh(f, v)
  <2>1. Spared(1, v) = v
    <3>1. \A s \in Symbols : Two(1) - Two(1 - v[s]) = v[s]
      <4> SUFFICES ASSUME NEW s \in Symbols PROVE Two(1) - Two(1 - v[s]) = v[s]
        OBVIOUS
      <4>1. CASE v[s] = 0
        <5>1. 1 - v[s] = 1
          BY <4>1
        <5> QED BY <1>3, <4>1, <5>1
      <4>2. CASE v[s] = 1
        <5>1. 1 - v[s] = 0
          BY <4>2
        <5> QED BY <1>3, <4>2, <5>1
      <4> QED BY <4>1, <4>2
    <3> QED BY <3>1 DEF Spared
  <2> DEFINE j == Total(v)
  <2>2. j \in 0 .. n /\ Weigh(f, b[j]) <= Weigh(f, v)
    BY <1>2, <1>4, FirstAreLightest
  <2>3. p <= j
    <3>1. p * 1 <= j
      BY <1>3, <1>4, <2>1
    <3> HIDE DEF j
    <3> QED BY <1>1, <2>2, <3>1
  <2> HIDE DEF j
  <2>4. p <= n /\ p \in 0 .. n
    BY <1>1, <2>2, <2>3
  <2>5. Weigh(f, b[p]) <= Weigh(f, b[j]) /\ Weigh(f, b[p]) \in Nat /\ Weigh(f, b[j]) \in Nat
    <3> DEFINE u == b[p]
               w == b[j]
    <3>1. u \in [Symbols -> Nat] /\ w \in [Symbols -> Nat] /\ \A s \in Symbols : u[s] <= w[s]
      <4>1. Leading(sorted, p) \subseteq Leading(sorted, j)
        BY <2>2, <2>3, <2>4, LeadingIs
      <4>2. /\ u \in [Symbols -> Nat] /\ w \in [Symbols -> Nat]
            /\ \A s \in Symbols : u[s] = IF s \in Leading(sorted, p) THEN 1 ELSE 0
            /\ \A s \in Symbols : w[s] = IF s \in Leading(sorted, j) THEN 1 ELSE 0
        BY <1>2, <2>2, <2>4, CountedLeading
      <4> HIDE DEF u, w
      <4> QED BY <4>1, <4>2
    <3> HIDE DEF u, w
    <3>2. Weigh(f, u) <= Weigh(f, w) /\ Weigh(f, u) \in Nat /\ Weigh(f, w) \in Nat
      BY <3>1, WeighIs
    <3> QED BY <3>2 DEF u, w
  <2>6. Weigh(f, v) \in Nat
    <3>1. v \in [Symbols -> Nat]
      OBVIOUS
    <3> QED BY <3>1, WeighIs
  <2> QED BY <2>2, <2>4, <2>5, <2>6
<1> QED BY <1>2, <1>4 DEF Cheapest

LEMMA PackageCheapest ==
  ASSUME NEW f \in [Symbols -> Nat], NEW source, NEW sorted, NEW k \in Nat, NEW x \in Nat,
         NEW nodes \in Seq(Nodes), Len(nodes) >= 2,
         Cheapest(f, source, sorted, k, x, nodes)
  PROVE  Cheapest(f, source, sorted, k, 2 * x, package(nodes))
<1> DEFINE L == Len(nodes)
           H == L \div 2
           pk == package(nodes)
<1>1. PICK c :
        /\ Counted(c, nodes)
        /\ \A v \in [Symbols -> 0 .. k], p \in Nat :
             (/\ \A s \in Symbols : v[s] > 0 => s \in Leading(sorted, Len(source))
              /\ p * x <= Total(Spared(k, v)))
               => p <= L /\ Weigh(f, c[p]) <= Weigh(f, v)
  BY DEF Cheapest
<1> DEFINE d == [p \in 0 .. H |-> c[2 * p]]
<1>2. Counted(d, pk) /\ Len(pk) = H
  BY <1>1, PackageCounted, PackageNodes
<1>3. ASSUME NEW v \in [Symbols -> 0 .. k], NEW p \in Nat,
             \A s \in Symbols : v[s] > 0 => s \in Leading(sorted, Len(source)),
             p * (2 * x) <= Total(Spared(k, v))
      PROVE  p <= H /\ Weigh(f, d[p]) <= Weigh(f, v)
  <2> DEFINE q == 2 * p
  <2>1. q \in Nat /\ q * x = p * (2 * x)
    OBVIOUS
  <2> HIDE DEF q
  <2>2. q <= L /\ Weigh(f, c[q]) <= Weigh(f, v)
    BY <1>1, <1>3, <2>1
  <2>3. L \in Nat
    OBVIOUS
  <2>4. p <= H /\ p \in 0 .. H
    <3> HIDE DEF L
    <3> QED BY <2>2, <2>3 DEF q
  <2>5. d[p] = c[q]
    BY <2>4 DEF q
  <2> QED BY <2>2, <2>4, <2>5
<1> HIDE DEF d
<1> QED BY <1>2, <1>3 DEF Cheapest

LEMMA MergeCheapest ==
  ASSUME NEW f \in [Symbols -> Nat], NEW source, NEW sorted, Sorted(source, sorted),
         Honest(f, source, sorted), NEW k \in 0 .. MAX_BITS - 1,
         NEW left \in Seq(Nodes), Weighed(f, left), Ascending(left),
         Cheapest(f, source, sorted, k, Two(k), left)
  PROVE  Cheapest(f, source, sorted, k + 1, Two(k), merge_nodes(left, source))
<1> DEFINE n == Len(source)
           l == Len(left)
           y == Two(k)
           out == merge_nodes(left, source)
           In(v) == \A s \in Symbols : v[s] > 0 => s \in Leading(sorted, n)
<1>1. n \in Nat /\ source \in Seq(Nodes) /\ Ascending(source) /\ l \in Nat
  BY DEF Sorted
<1>2. Weighed(f, source)
  BY SourceWeighed
<1>3. PICK a :
        /\ Counted(a, left)
        /\ \A v \in [Symbols -> 0 .. k], p \in Nat :
             (In(v) /\ p * y <= Total(Spared(k, v)))
               => p <= l /\ Weigh(f, a[p]) <= Weigh(f, v)
  BY DEF Cheapest
<1>4. PICK b : Counted(b, source)
  BY <1>1, ContentsExist
<1>5. PICK at : Interleaves(out, at, left, source)
  BY <1>1, InterleavesExist
<1> DEFINE c == [q \in 0 .. l + n |-> Plus(a[at[q]], b[q - at[q]])]
<1>6. Counted(c, out) /\ Len(out) = l + n
  <2>1. Counted(c, out)
    BY <1>1, <1>3, <1>4, <1>5, MergeCounted
  <2>2. Len(out) = l + n
    <3> HIDE DEF out
    <3> QED BY <1>5 DEF Interleaves
  <2> QED BY <2>1, <2>2
<1>7. /\ k \in Nat /\ k \in 0 .. MAX_BITS /\ k + 1 \in 1 .. MAX_BITS
      /\ k + 1 \in 0 .. MAX_BITS /\ (k + 1) - 1 = k
  BY DEF MAX_BITS
<1>8. y \in Nat \ {0} /\ Two(k + 1) = 2 * y
  BY <1>7, Powers
<1>9. /\ \A q \in 0 .. l : a[q] \in [Symbols -> Nat] /\ Weigh(f, a[q]) \in Nat
      /\ \A q \in 0 .. n : b[q] \in [Symbols -> Nat] /\ Weigh(f, b[q]) \in Nat
  BY <1>1, <1>2, <1>3, <1>4, WeighBeginnings
<1>10. ASSUME NEW i \in 0 .. l, NEW j \in 0 .. n
       PROVE  Weigh(f, c[i + j]) <= Weigh(f, a[i]) + Weigh(f, b[j])
  <2> DEFINE q == i + j
  <2>1. q \in 0 .. l + n
    BY <1>1
  <2>2. c[q] = Plus(a[at[q]], b[q - at[q]])
    BY <2>1
  <2>3. Weigh(f, Plus(a[at[q]], b[q - at[q]])) <= Weigh(f, a[i]) + Weigh(f, b[j])
    BY <1>1, <1>2, <1>3, <1>4, <1>5, MergedIsLeast
  <2> HIDE DEF c
  <2> QED BY <2>2, <2>3
<1> HIDE DEF c, y, n, l, out
<1>11. ASSUME NEW v \in [Symbols -> 0 .. k + 1], NEW p \in Nat, In(v),
              p * y <= Total(Spared(k + 1, v))
       PROVE  p <= l + n /\ Weigh(f, c[p]) <= Weigh(f, v)
  <2> DEFINE i == [s \in Symbols |-> IF v[s] > 0 THEN 1 ELSE 0]
             u == [s \in Symbols |-> IF v[s] > 0 THEN v[s] - 1 ELSE 0]
             j == Total(i)
             si == [s \in Symbols |-> y * i[s]]
  <2>1. \A s \in Symbols : v[s] \in 0 .. k + 1
    OBVIOUS
  <2>2. i \in [Symbols -> 0 .. 1] /\ i \in [Symbols -> Nat] /\ In(i)
    <3>1. i \in [Symbols -> 0 .. 1]
      OBVIOUS
    <3>2. \A s \in Symbols : i[s] > 0 => v[s] > 0
      OBVIOUS
    <3>3. i \in [Symbols -> Nat]
      OBVIOUS
    <3> HIDE DEF i
    <3>4. In(i)
      BY <1>11, <3>2
    <3> QED BY <3>1, <3>3, <3>4
  <2>3. u \in [Symbols -> 0 .. k] /\ u \in [Symbols -> Nat] /\ In(u)
    <3>1. \A s \in Symbols : u[s] \in 0 .. k
      BY <1>7, <2>1
    <3>2. u \in [Symbols -> 0 .. k]
      BY <3>1
    <3>3. \A s \in Symbols : u[s] > 0 => v[s] > 0
      OBVIOUS
    <3> HIDE DEF u
    <3> QED BY <1>7, <1>11, <3>2, <3>3
  <2>4. \A s \in Symbols : v[s] = u[s] + i[s]
    BY <2>1
  <2>5. Plus(u, i) = v
    <3> HIDE DEF u, i
    <3> QED BY <2>4 DEF Plus
  <2>6. /\ Spared(k, u) \in [Symbols -> Nat]
        /\ \A s \in Symbols : /\ Spared(k, u)[s] = y - Two(k - u[s])
                              /\ Two(k - u[s]) \in Nat /\ Two(k - u[s]) <= y
    <3> HIDE DEF u
    <3> QED BY <1>7, <2>3, SparedIs DEF y
  <2>7. /\ Spared(k + 1, v) \in [Symbols -> Nat]
        /\ \A s \in Symbols : /\ Spared(k + 1, v)[s] = 2 * y - Two((k + 1) - v[s])
                              /\ Two((k + 1) - v[s]) \in Nat
    <3> DEFINE m == k + 1
    <3>1. m \in 0 .. MAX_BITS /\ v \in [Symbols -> 0 .. m]
      BY <1>7
    <3> HIDE DEF m, u, i, si
    <3>2. /\ Spared(m, v) \in [Symbols -> Nat]
          /\ \A s \in Symbols : /\ Spared(m, v)[s] = Two(m) - Two(m - v[s])
                                /\ Two(m - v[s]) \in Nat
      BY <3>1, SparedIs
    <3> QED BY <1>8, <3>2 DEF m
  <2>8. \A s \in Symbols : Spared(k + 1, v)[s] = Spared(k, u)[s] + si[s]
    <3> SUFFICES ASSUME NEW s \in Symbols
                 PROVE  Spared(k + 1, v)[s] = Spared(k, u)[s] + si[s]
      OBVIOUS
    <3>1. CASE v[s] > 0
      <4>1. i[s] = 1 /\ u[s] = v[s] - 1 /\ v[s] \in Nat
        BY <2>1, <3>1
      <4>2. (k + 1) - v[s] = k - u[s]
        BY <1>7, <4>1
      <4>3. si[s] = y
        BY <1>8, <4>1
      <4> HIDE DEF u, i, si
      <4> QED BY <1>8, <2>6, <2>7, <4>2, <4>3
    <3>2. CASE ~ (v[s] > 0)
      <4>1. i[s] = 0 /\ u[s] = 0 /\ v[s] = 0
        BY <2>1, <3>2
      <4>2. (k + 1) - v[s] = k + 1 /\ k - u[s] = k
        BY <1>7, <4>1
      <4>3. si[s] = 0
        BY <1>8, <4>1
      <4> HIDE DEF u, i, si
      <4>4. Two((k + 1) - v[s]) = 2 * y /\ Two(k - u[s]) = y
        BY <1>8, <4>2 DEF y
      <4> QED BY <1>8, <2>6, <2>7, <4>3, <4>4
    <3> QED BY <3>1, <3>2
  <2>9. si \in [Symbols -> Nat] /\ Total(si) = y * j
    <3> HIDE DEF i
    <3>1. \A s \in Symbols : y * i[s] \in Nat
      BY <1>8, <2>2
    <3> QED BY <1>8, <2>2, <3>1, TotalTimes
  <2> HIDE DEF i, u, si
  <2>10. Total(Spared(k + 1, v)) = Total(Spared(k, u)) + y * j
         /\ Total(Spared(k, u)) \in Nat
    <3> DEFINE su == Spared(k, u)
               sv == Spared(k + 1, v)
    <3>1. su \in [Symbols -> Nat] /\ sv = Plus(su, si)
      BY <2>6, <2>7, <2>8 DEF Plus
    <3> HIDE DEF su, sv
    <3>2. Total(Plus(su, si)) = Total(su) + Total(si) /\ Total(su) \in Nat
      BY <2>9, <3>1, TotalPlus
    <3> QED BY <2>9, <3>1, <3>2 DEF su, sv
  <2>11. j \in 0 .. n /\ Weigh(f, b[j]) <= Weigh(f, i)
    BY <1>4, <2>2, FirstAreLightest DEF n
  <2>12. /\ Weigh(f, v) = Weigh(f, u) + Weigh(f, i)
         /\ Weigh(f, u) \in Nat /\ Weigh(f, i) \in Nat /\ Weigh(f, v) \in Nat
    <3>1. v \in [Symbols -> Nat]
      BY <1>7
    <3>2. Weigh(f, Plus(u, i)) = Weigh(f, u) + Weigh(f, i)
      BY <2>2, <2>3, WeighIs
    <3> QED BY <2>2, <2>3, <2>5, <3>1, <3>2, WeighIs
  <2> HIDE DEF j
  <2>13. CASE p >= j
    <3> DEFINE q == p - j
    <3>1. q \in Nat /\ p = q + j
      BY <2>11, <2>13
    <3> HIDE DEF q
    <3>2. p * y = q * y + y * j /\ q * y \in Nat /\ y * j \in Nat
      BY <1>8, <2>11, <3>1
    <3>3. q * y <= Total(Spared(k, u))
      BY <1>11, <2>10, <3>2
    <3>4. q <= l /\ Weigh(f, a[q]) <= Weigh(f, u)
      BY <1>3, <2>3, <3>1, <3>3
    <3>5. q \in 0 .. l
      BY <1>1, <3>1, <3>4 DEF l
    <3>6. Weigh(f, c[q + j]) <= Weigh(f, a[q]) + Weigh(f, b[j])
      BY <1>10, <2>11, <3>5
    <3>7. Weigh(f, a[q]) \in Nat /\ Weigh(f, b[j]) \in Nat
      BY <1>9, <2>11, <3>5
    <3>8. p <= l + n
      BY <1>1, <2>11, <3>1, <3>5 DEF l, n
    <3>9. /\ Weigh(f, c[p]) <= Weigh(f, a[q]) + Weigh(f, b[j])
      BY <3>1, <3>6
    <3>10. Weigh(f, c[p]) \in Nat
      <4>1. p \in 0 .. Len(out) /\ c \in [0 .. Len(out) -> [Symbols -> Nat]]
        BY <1>1, <1>6, <3>8 DEF Counted, l, n
      <4> QED BY <4>1, WeighIs
    <3> QED BY <2>11, <2>12, <3>4, <3>7, <3>8, <3>9, <3>10
  <2>14. CASE p < j
    <3>1. p \in 0 .. n /\ p <= l + n /\ 0 \in 0 .. l /\ 0 + p = p /\ p <= j
      BY <1>1, <2>11, <2>14 DEF l, n
    <3>2. Weigh(f, c[0 + p]) <= Weigh(f, a[0]) + Weigh(f, b[p])
      BY <1>10, <3>1
    <3>3. Weigh(f, a[0]) = 0
      <4>1. a[0] = Never
        BY <1>3 DEF Counted
      <4> QED BY <4>1, WeighNone
    <3>4. Weigh(f, b[p]) <= Weigh(f, b[j])
      <4> DEFINE e == b[p]
                 w == b[j]
      <4>1. Leading(sorted, p) \subseteq Leading(sorted, j)
        BY <2>11, <3>1, LeadingIs DEF n
      <4>2. /\ e \in [Symbols -> Nat] /\ w \in [Symbols -> Nat]
            /\ \A s \in Symbols : e[s] = IF s \in Leading(sorted, p) THEN 1 ELSE 0
            /\ \A s \in Symbols : w[s] = IF s \in Leading(sorted, j) THEN 1 ELSE 0
        BY <1>4, <2>11, <3>1, CountedLeading DEF n
      <4> HIDE DEF e, w
      <4>3. \A s \in Symbols : e[s] <= w[s]
        <5> SUFFICES ASSUME NEW s \in Symbols PROVE e[s] <= w[s]
          OBVIOUS
        <5>1. e[s] \in {0, 1} /\ (s \in Leading(sorted, j) => w[s] = 1) /\ w[s] \in Nat
          BY <4>2
        <5>2. s \in Leading(sorted, p) => s \in Leading(sorted, j)
          BY <4>1
        <5> QED BY <4>2, <5>1, <5>2
      <4>4. Weigh(f, e) <= Weigh(f, w)
        BY <4>2, <4>3, WeighIs
      <4> QED BY <4>4 DEF e, w
    <3>5. Weigh(f, b[p]) \in Nat /\ Weigh(f, b[j]) \in Nat
      BY <1>9, <2>11, <3>1
    <3>6. Weigh(f, c[p]) \in Nat
      <4>1. p \in 0 .. Len(out) /\ c \in [0 .. Len(out) -> [Symbols -> Nat]]
        BY <1>1, <1>6, <3>1 DEF Counted, l, n
      <4> QED BY <4>1, WeighIs
    <3>7. Weigh(f, c[p]) <= Weigh(f, b[p])
      BY <3>1, <3>2, <3>3, <3>5
    <3> QED BY <2>11, <2>12, <3>1, <3>4, <3>5, <3>6, <3>7
  <2>15. p \in Nat /\ j \in Nat
    BY <2>11
  <2> QED BY <2>13, <2>14, <2>15
<1>12. \E d : /\ Counted(d, out)
              /\ \A v \in [Symbols -> 0 .. k + 1], p \in Nat :
                   (In(v) /\ p * y <= Total(Spared(k + 1, v)))
                     => p <= Len(out) /\ Weigh(f, d[p]) <= Weigh(f, v)
  BY <1>6, <1>11
<1> QED BY <1>12 DEF Cheapest, out, y, n

(* The lists of package-merge hold the cheapest beginnings there are.      *)
Weighted(f, source, sorted, k, nodes) ==
  /\ nodes \in Seq(Nodes) /\ Len(nodes) >= 2
  /\ Weighed(f, nodes) /\ Ascending(nodes)
  /\ Cheapest(f, source, sorted, k + 1, Two(k), nodes)

LEMMA NextWeighted ==
  ASSUME NEW f \in [Symbols -> Nat], NEW source, NEW sorted, Sorted(source, sorted),
         Honest(f, source, sorted), Len(source) >= 2, NEW k \in 0 .. MAX_BITS - 2,
         NEW nodes, Weighted(f, source, sorted, k, nodes)
  PROVE  Weighted(f, source, sorted, k + 1, merge_nodes(package(nodes), source))
<1> DEFINE pk == package(nodes)
           K == k + 1
           out == merge_nodes(pk, source)
<1>1. /\ source \in Seq(Nodes) /\ Ascending(source) /\ Len(source) \in Nat
      /\ Weighed(f, source)
  BY SourceWeighed DEF Sorted
<1>2. /\ nodes \in Seq(Nodes) /\ Len(nodes) >= 2
      /\ Weighed(f, nodes) /\ Ascending(nodes)
      /\ Cheapest(f, source, sorted, K, Two(k), nodes)
  BY DEF Weighted
<1>3. /\ K \in Nat /\ K \in 0 .. MAX_BITS - 1 /\ K \in 1 .. MAX_BITS /\ K - 1 = k
      /\ k \in 0 .. MAX_BITS
  BY DEF MAX_BITS
<1>4. Two(k) \in Nat /\ Two(K) = 2 * Two(k)
  BY <1>3, Powers
<1>5. /\ pk \in Seq(Nodes) /\ Len(pk) \in Nat /\ Ascending(pk) /\ Weighed(f, pk)
  BY <1>2, PackageNodes, PackageAscends, PackageWeighed
<1> HIDE DEF pk, K
<1>6. Cheapest(f, source, sorted, K, Two(K), pk)
  <2>1. Cheapest(f, source, sorted, K, 2 * Two(k), pk)
    BY <1>2, <1>3, <1>4, PackageCheapest DEF pk
  <2> QED BY <1>4, <2>1
<1>7. Cheapest(f, source, sorted, K + 1, Two(K), out)
  BY <1>3, <1>5, <1>6, MergeCheapest
<1>8. PICK at : Interleaves(out, at, pk, source)
  BY <1>1, <1>5, InterleavesExist
<1> HIDE DEF out
<1>9. Ascending(out) /\ Weighed(f, out)
  BY <1>1, <1>5, <1>8, InterleavedIs, MergeWeighed
<1>10. out \in Seq(Nodes) /\ Len(out) >= 2
  <2>1. out \in Seq(Nodes) /\ Len(out) = Len(pk) + Len(source)
    BY <1>8 DEF Interleaves
  <2> QED BY <1>1, <1>5, <2>1
<1>11. Weighted(f, source, sorted, K, out)
  BY <1>7, <1>9, <1>10 DEF Weighted
<1> QED BY <1>11 DEF out, pk, K

(* No other symbols that spare as much cost less than what it packs last.  *)
LEMMA PackageMergeIsLeast ==
  ASSUME NEW f \in [Symbols -> Nat], NEW source, NEW sorted, Sorted(source, sorted),
         Honest(f, source, sorted), Len(source) >= 2,
         NEW m \in 1 .. MAX_BITS, Len(source) <= Two(m), NEW g, Weighting(g, source, m),
         NEW v \in [Symbols -> 0 .. m],
         \A s \in Symbols : v[s] > 0 => s \in Leading(sorted, Len(source)),
         (Len(source) - 1) * Two(m) <= Total(Spared(m, v))
  PROVE  Weigh(f, Contents(package(g[m - 1]))) <= Weigh(f, v)
<1> DEFINE n == Len(source)
           S == {k \in 0 .. m - 1 : Weighted(f, source, sorted, k, g[k])}
<1>1. n \in Nat /\ n >= 2 /\ source \in Seq(Nodes) /\ Ascending(source)
  BY DEF Sorted
<1>2. /\ m \in Nat /\ m - 1 \in Nat /\ m \in 0 .. MAX_BITS /\ m - 1 \in 0 .. MAX_BITS
      /\ m - 1 \in 0 .. m - 1 /\ (m - 1) + 1 = m
  BY DEF MAX_BITS
<1>3. g[0] = source /\ \A k \in 1 .. m - 1 : g[k] = merge_nodes(package(g[k - 1]), source)
  BY DEF Weighting
<1>4. 0 \in S
  <2>1. 0 \in 0 .. m - 1 /\ 0 + 1 = 1
    BY <1>2
  <2>2. Cheapest(f, source, sorted, 1, Two(0), source)
    BY FirstCheapest
  <2>3. Weighed(f, source)
    BY SourceWeighed
  <2>4. Weighted(f, source, sorted, 0, source)
    BY <1>1, <2>1, <2>2, <2>3 DEF Weighted
  <2> QED BY <1>3, <2>1, <2>4
<1>5. ASSUME NEW k \in 1 .. m - 1, k - 1 \in S PROVE k \in S
  <2> DEFINE j == k - 1
             nodes == g[j]
  <2>1. j \in 0 .. MAX_BITS - 2 /\ j + 1 = k /\ k \in 0 .. m - 1
    BY <1>2 DEF MAX_BITS
  <2>2. Weighted(f, source, sorted, j, nodes)
    BY <1>5
  <2>3. g[k] = merge_nodes(package(nodes), source)
    BY <1>3
  <2> HIDE DEF j, nodes
  <2>4. Weighted(f, source, sorted, j + 1, merge_nodes(package(nodes), source))
    BY <2>1, <2>2, NextWeighted
  <2> QED BY <2>1, <2>3, <2>4
<1>6. Weighted(f, source, sorted, m - 1, g[m - 1])
  <2> HIDE DEF S
  <2>1. \A k \in 0 .. m - 1 : k \in S
    BY <1>2, <1>4, <1>5, UpTo
  <2> QED BY <1>2, <2>1 DEF S
<1> DEFINE nodes == g[m - 1]
           pk == package(nodes)
           k == m - 1
<1>7. /\ nodes \in Seq(Nodes) /\ Len(nodes) >= 2
      /\ Cheapest(f, source, sorted, m, Two(k), nodes)
  BY <1>2, <1>6 DEF Weighted
<1>8. Two(m) = 2 * Two(k) /\ Two(k) \in Nat
  BY <1>2, Powers
<1>9. pk \in Seq(Nodes) /\ Len(pk) = n - 1
  <2>1. Len(pk) = n - 1
    BY LastPackages
  <2> HIDE DEF nodes
  <2> QED BY <1>7, <2>1, PackageNodes
<1>10. Cheapest(f, source, sorted, m, Two(m), pk)
  <2> HIDE DEF nodes, k
  <2>1. Cheapest(f, source, sorted, m, 2 * Two(k), pk)
    BY <1>2, <1>7, <1>8, PackageCheapest
  <2> QED BY <1>8, <2>1
<1> HIDE DEF pk
<1>11. PICK c :
         /\ Counted(c, pk)
         /\ \A u \in [Symbols -> 0 .. m], p \in Nat :
              (/\ \A s \in Symbols : u[s] > 0 => s \in Leading(sorted, n)
               /\ p * Two(m) <= Total(Spared(m, u)))
                => p <= Len(pk) /\ Weigh(f, c[p]) <= Weigh(f, u)
  BY <1>10 DEF Cheapest
<1>12. Contents(pk) = c[n - 1]
  BY <1>9, <1>11, CountedIs
<1>13. Weigh(f, c[n - 1]) <= Weigh(f, v)
  <2> DEFINE p == n - 1
  <2>1. p \in Nat
    BY <1>1
  <2>2. p * Two(m) <= Total(Spared(m, v))
    OBVIOUS
  <2> HIDE DEF p
  <2>3. Weigh(f, c[p]) <= Weigh(f, v)
    BY <1>11, <2>1, <2>2
  <2> QED BY <2>3 DEF p
<1> QED BY <1>12, <1>13 DEF pk, nodes
-----------------------------------------------------------------------------
(* Two entries of a sum.                                                   *)
LEMMA TotalPair ==
  ASSUME NEW s \in Symbols, NEW t \in Symbols, s # t, NEW x \in Nat, NEW y \in Nat
  PROVE  Total([r \in Symbols |-> IF r = s THEN x ELSE IF r = t THEN y ELSE 0]) = x + y
<1> DEFINE z == [r \in Symbols |-> 0]
           u == [r \in Symbols |-> IF r = s THEN x ELSE 0]
           v == [r \in Symbols |-> IF r = s THEN x ELSE IF r = t THEN y ELSE 0]
<1>1. z \in [Symbols -> Nat] /\ \A r \in Symbols : z[r] = 0
  OBVIOUS
<1>2. u \in [Symbols -> Nat] /\ v \in [Symbols -> Nat]
  OBVIOUS
<1>3. u[s] = z[s] + x /\ \A r \in Symbols \ {s} : u[r] = z[r]
  OBVIOUS
<1>4. v[t] = u[t] + y /\ \A r \in Symbols \ {t} : v[r] = u[r]
  OBVIOUS
<1> HIDE DEF z, u, v
<1>5. Total(z) = 0
  BY <1>1, TotalNone
<1>6. z \in [Symbols -> Nat]
  BY <1>1
<1>7. Total(u) = Total(z) + x
  BY <1>2, <1>3, <1>6, TotalAdd
<1>8. Total(v) = Total(u) + y
  BY <1>2, <1>4, TotalAdd
<1> QED BY <1>5, <1>7, <1>8 DEF v

AllBut(u, v, s, t) ==
  /\ u \in [Symbols -> Nat] /\ v \in [Symbols -> Nat]
  /\ s \in Symbols /\ t \in Symbols /\ s # t
  /\ \A r \in Symbols \ {s, t} : u[r] = v[r]

LEMMA TotalTwo ==
  ASSUME NEW u, NEW v, NEW s, NEW t, AllBut(u, v, s, t)
  PROVE  /\ Total(u) + (v[s] + v[t]) = Total(v) + (u[s] + u[t])
         /\ Total(u) \in Nat /\ Total(v) \in Nat
<1> DEFINE p == [r \in Symbols |-> IF r = s THEN v[s] ELSE IF r = t THEN v[t] ELSE 0]
           q == [r \in Symbols |-> IF r = s THEN u[s] ELSE IF r = t THEN u[t] ELSE 0]
<1> USE DEF AllBut
<1>1. u[s] \in Nat /\ u[t] \in Nat /\ v[s] \in Nat /\ v[t] \in Nat
  OBVIOUS
<1>2. p \in [Symbols -> Nat] /\ q \in [Symbols -> Nat]
  BY <1>1
<1>3. Total(p) = v[s] + v[t] /\ Total(q) = u[s] + u[t]
  BY <1>1, TotalPair, ZenonT(60)
<1>4. \A r \in Symbols : u[r] + p[r] = v[r] + q[r]
  <2> SUFFICES ASSUME NEW r \in Symbols PROVE u[r] + p[r] = v[r] + q[r]
    OBVIOUS
  <2>1. u[r] \in Nat /\ v[r] \in Nat
    OBVIOUS
  <2>2. CASE r = s
    BY <1>1, <2>2
  <2>3. CASE r = t
    BY <1>1, <2>3
  <2>4. CASE r # s /\ r # t
    BY <2>1, <2>4
  <2> QED BY <2>2, <2>3, <2>4
<1> HIDE DEF p, q
<1>5. Plus(u, p) = Plus(v, q)
  BY <1>4 DEF Plus
<1>6. Total(Plus(u, p)) = Total(u) + Total(p) /\ Total(Plus(v, q)) = Total(v) + Total(q)
      /\ Total(u) \in Nat /\ Total(v) \in Nat
  BY <1>2, TotalPlus
<1> QED BY <1>3, <1>5, <1>6

(* The lengths d of codes for the symbols R, for which there is place.     *)
Admits(R, Y, d) == d \in [Symbols -> 0 .. Y] /\ Total(Taking(R, Y, d)) <= Two(Y)

LEMMA TakingIs ==
  ASSUME NEW Y \in 0 .. MAX_BITS, NEW d \in [Symbols -> 0 .. Y], NEW R
  PROVE  /\ Taking(R, Y, d) \in [Symbols -> Nat]
         /\ \A s \in Symbols : s \in R => Taking(R, Y, d)[s] = Two(Y - d[s])
         /\ \A s \in Symbols : s \notin R => Taking(R, Y, d)[s] = 0
         /\ \A s \in Symbols : Two(Y - d[s]) \in Nat \ {0}
<1>1. \A s \in Symbols : Two(Y - d[s]) \in Nat \ {0}
  BY SparedIs
<1> QED BY <1>1 DEF Taking

LEMMA Products ==
  ASSUME NEW i \in Nat, NEW j \in Nat, NEW x \in Nat, NEW y \in Nat, i <= j, x <= y
  PROVE  j * x + i * y <= i * x + j * y
<1> DEFINE a == j - i
           b == y - x
<1>1. a \in Nat /\ b \in Nat /\ j = i + a /\ y = x + b
  OBVIOUS
<1> HIDE DEF a, b
<1>2. /\ j * x = i * x + a * x /\ i * y = i * x + i * b
      /\ j * y = i * x + i * b + a * x + a * b
      /\ i * x \in Nat /\ a * x \in Nat /\ i * b \in Nat /\ a * b \in Nat
  BY <1>1
<1> QED BY <1>2

(* Giving the longer code to the one that occurs less costs no more.       *)
LEMMA Swapped ==
  ASSUME NEW w \in [Symbols -> Nat], NEW Y \in 0 .. MAX_BITS, NEW R, NEW d, Admits(R, Y, d),
         NEW s \in Symbols, NEW t \in Symbols, s \in R, t \in R, s # t,
         w[s] <= w[t], d[s] <= d[t]
  PROVE  \E e : /\ Admits(R, Y, e) /\ Weigh(w, e) <= Weigh(w, d)
                /\ e[s] = d[t] /\ e[t] = d[s]
                /\ \A r \in Symbols \ {s, t} : e[r] = d[r]
<1> DEFINE e == [r \in Symbols |-> IF r = s THEN d[t] ELSE IF r = t THEN d[s] ELSE d[r]]
<1>1. Y \in Nat /\ d \in [Symbols -> 0 .. Y] /\ Total(Taking(R, Y, d)) <= Two(Y)
  BY DEF Admits
<1>2. /\ e \in [Symbols -> 0 .. Y] /\ e[s] = d[t] /\ e[t] = d[s]
      /\ \A r \in Symbols \ {s, t} : e[r] = d[r]
  BY <1>1
<1> HIDE DEF e
<1>3. Total(Taking(R, Y, e)) = Total(Taking(R, Y, d))
  <2> DEFINE u == Taking(R, Y, e)
             v == Taking(R, Y, d)
  <2>1. /\ u \in [Symbols -> Nat] /\ v \in [Symbols -> Nat]
        /\ u[s] = Two(Y - d[t]) /\ u[t] = Two(Y - d[s])
        /\ v[s] = Two(Y - d[s]) /\ v[t] = Two(Y - d[t])
    BY <1>1, <1>2, TakingIs
  <2>2. \A r \in Symbols \ {s, t} : u[r] = v[r]
    BY <1>2 DEF Taking
  <2>3. u[s] = v[t] /\ u[t] = v[s] /\ u[s] \in Nat /\ u[t] \in Nat
    BY <2>1
  <2> HIDE DEF u, v
  <2>4. AllBut(u, v, s, t)
    BY <2>1, <2>2 DEF AllBut
  <2>5. Total(u) + (v[s] + v[t]) = Total(v) + (u[s] + u[t])
        /\ Total(u) \in Nat /\ Total(v) \in Nat
    BY <2>4, TotalTwo
  <2>6. Total(u) = Total(v)
    BY <2>3, <2>5
  <2> QED BY <2>6 DEF u, v
<1>4. Weigh(w, e) <= Weigh(w, d)
  <2> DEFINE u == [r \in Symbols |-> e[r] * w[r]]
             v == [r \in Symbols |-> d[r] * w[r]]
  <2>1. \A i, k \in Nat : i * k \in Nat
    OBVIOUS
  <2>2. \A r \in Symbols : e[r] \in Nat /\ d[r] \in Nat /\ w[r] \in Nat
    BY <1>1, <1>2
  <2>3. u \in [Symbols -> Nat] /\ v \in [Symbols -> Nat]
    BY <2>1, <2>2
  <2>4. \A r \in Symbols \ {s, t} : u[r] = v[r]
    BY <1>2
  <2>5. /\ u[s] = d[t] * w[s] /\ u[t] = d[s] * w[t]
        /\ v[s] = d[s] * w[s] /\ v[t] = d[t] * w[t]
    BY <1>2
  <2> HIDE DEF u, v
  <2>6. Total(u) + (v[s] + v[t]) = Total(v) + (u[s] + u[t])
        /\ Total(u) \in Nat /\ Total(v) \in Nat
    <3>1. AllBut(u, v, s, t)
      BY <2>3, <2>4 DEF AllBut
    <3> QED BY <3>1, TotalTwo
  <2>7. u[s] + u[t] <= v[s] + v[t]
    <3>1. d[t] * w[s] + d[s] * w[t] <= d[s] * w[s] + d[t] * w[t]
      BY <2>2, Products
    <3> QED BY <2>5, <3>1
  <2>8. /\ u[s] \in Nat /\ u[t] \in Nat /\ v[s] \in Nat /\ v[t] \in Nat
    BY <2>3
  <2>9. Total(u) <= Total(v)
    BY <2>6, <2>7, <2>8
  <2> QED BY <2>9 DEF Weigh, u, v
<1> QED BY <1>1, <1>2, <1>3, <1>4 DEF Admits

(* Where just one code is the longest, it can be shorter.                  *)
LEMMA Shortened ==
  ASSUME NEW Y \in 1 .. MAX_BITS, NEW R, NEW d, Admits(R, Y, d),
         NEW x \in Symbols, x \in R, d[x] > 0,
         \A s \in Symbols : s \in R /\ s # x => d[s] < d[x]
  PROVE  Admits(R, Y, [d EXCEPT ![x] = d[x] - 1])
<1> DEFINE h == [d EXCEPT ![x] = d[x] - 1]
           L == d[x]
           j == L - 1
           i == Y - j
           c == Two(i)
           q == Two(Y - L)
           u == Taking(R, Y, d)
           v == Taking(R, Y, h)
           z == [s \in Symbols |-> IF s \in R THEN Two(j - h[s]) ELSE 0]
<1>1. Y \in 0 .. MAX_BITS /\ Y \in 1 .. 15 /\ d \in [Symbols -> 0 .. Y] /\ Total(u) <= Two(Y)
  BY DEF Admits, MAX_BITS
<1>2. /\ L \in 1 .. Y /\ j \in 0 .. MAX_BITS /\ i \in 1 .. MAX_BITS /\ i - 1 = Y - L
      /\ i + j = Y /\ j \in 0 .. MAX_BITS - i /\ Y - L \in 0 .. MAX_BITS
      /\ i \in 0 .. MAX_BITS /\ j \in Nat /\ j < L
  <2>1. L \in 0 .. Y /\ L > 0
    BY <1>1
  <2> HIDE DEF L
  <2> QED BY <1>1, <2>1 DEF MAX_BITS
<1>3. /\ h \in [Symbols -> 0 .. Y] /\ h[x] = j
      /\ \A s \in Symbols \ {x} : h[s] = d[s]
  BY <1>1, <1>2
<1>4. \A s \in Symbols : s \in R => h[s] \in 0 .. j
  <2> SUFFICES ASSUME NEW s \in Symbols, s \in R PROVE h[s] \in 0 .. j
    OBVIOUS
  <2>1. CASE s = x
    BY <1>2, <1>3, <2>1
  <2>2. CASE s # x
    <3>1. h[s] = d[s] /\ d[s] \in 0 .. Y /\ d[s] < L
      BY <1>1, <1>3, <2>2
    <3> QED BY <1>2, <3>1
  <2> QED BY <2>1, <2>2
<1> HIDE DEF h, j, i, L
<1>5. c = 2 * q /\ q \in Nat \ {0} /\ Two(j) \in Nat \ {0} /\ Two(Y) = c * Two(j)
  <2>1. Two(i) = 2 * Two(i - 1) /\ Two(i + j) = Two(i) * Two(j)
    BY <1>2, Powers, PowerSum
  <2> QED BY <1>2, <2>1, Powers
<1>6. /\ u \in [Symbols -> Nat] /\ v \in [Symbols -> Nat]
      /\ u[x] = q /\ v[x] = c
      /\ \A s \in Symbols : s \in R => v[s] = Two(Y - h[s])
      /\ \A s \in Symbols : s \notin R => v[s] = 0
  BY <1>1, <1>3, TakingIs DEF L, i
<1>7. \A s \in Symbols \ {x} : v[s] = u[s]
  BY <1>3 DEF Taking
<1>8. ASSUME NEW s \in Symbols
      PROVE  z[s] \in Nat /\ v[s] = c * z[s]
  <2>1. CASE s \in R
    <3> DEFINE k == j - h[s]
    <3>1. h[s] \in 0 .. j
      BY <1>4, <2>1
    <3>2. k \in 0 .. MAX_BITS - i /\ k \in 0 .. MAX_BITS /\ Y - h[s] = i + k
      BY <1>1, <1>2, <3>1 DEF MAX_BITS
    <3>3. z[s] = Two(k) /\ v[s] = Two(Y - h[s])
      BY <1>6, <2>1
    <3> HIDE DEF k
    <3>4. Two(i + k) = Two(i) * Two(k) /\ Two(k) \in Nat
      BY <1>2, <3>2, Powers, PowerSum
    <3> QED BY <3>2, <3>3, <3>4
  <2>2. CASE s \notin R
    <3>1. z[s] = 0 /\ v[s] = 0
      BY <1>6, <2>2
    <3> QED BY <1>5, <3>1
  <2> QED BY <2>1, <2>2
<1>9. z \in [Symbols -> Nat] /\ v = [s \in Symbols |-> c * z[s]]
  <2>1. v = [s \in Symbols |-> v[s]]
    BY <1>6
  <2>2. z \in [Symbols -> Nat]
    BY <1>8
  <2> HIDE DEF v, z, c
  <2> QED BY <1>8, <2>1, <2>2
<1> HIDE DEF u, v, z, c, q
<1>10. c \in Nat \ {0}
  BY <1>5
<1>11. Total(v) = c * Total(z) /\ Total(z) \in Nat
  <2>1. Total([s \in Symbols |-> c * z[s]]) = c * Total(z)
    BY <1>9, <1>10, TotalTimes
  <2>2. Total(z) \in Nat
    BY <1>9, TotalPlus
  <2> QED BY <1>9, <2>1, <2>2
<1>12. Total(v) = Total(u) + q /\ Total(u) \in Nat
  <2>1. v[x] = u[x] + q
    BY <1>5, <1>6
  <2>2. u \in [Symbols -> Nat] /\ v \in [Symbols -> Nat]
    BY <1>6
  <2> HIDE DEF Admits
  <2>3. Total(v) = Total(u) + q
    BY <1>5, <1>7, <2>1, <2>2, TotalAdd
  <2> QED BY <2>2, <2>3, TotalPlus
<1>13. Total(z) <= Two(j)
  <2> DEFINE a == Total(z)
             b == Two(j)
             y == Total(u)
  <2>1. a \in Nat /\ b \in Nat /\ y \in Nat /\ c * a = y + q /\ y <= c * b /\ c = 2 * q
    BY <1>1, <1>5, <1>11, <1>12
  <2> HIDE DEF a, b, y
  <2> SUFFICES ASSUME ~ (a <= b) PROVE FALSE
    BY DEF a, b
  <2>2. a - (b + 1) \in Nat
    BY <2>1
  <2> DEFINE e == a - (b + 1)
  <2>3. a = b + 1 + e /\ e \in Nat
    BY <2>1, <2>2
  <2> HIDE DEF e
  <2>4. c * a = c * b + c + c * e /\ c * e \in Nat /\ c * b \in Nat
    BY <1>10, <2>1, <2>3
  <2> QED BY <1>5, <2>1, <2>4
<1>14. Total(v) <= Two(Y)
  <2> DEFINE a == Total(z)
             b == Two(j)
  <2>1. a \in Nat /\ b \in Nat /\ a <= b
    BY <1>5, <1>11, <1>13
  <2> HIDE DEF a, b
  <2>2. c * a <= c * b
    BY <1>10, <2>1
  <2> QED BY <1>5, <1>11, <2>2 DEF a, b
<1>15. Admits(R, Y, h)
  BY <1>3, <1>14 DEF Admits, v
<1> QED BY <1>15 DEF h, L

(* Of the codes that cost no more, some has its longest at two symbols.    *)
LongestAtTwo(w, Y, R, d) ==
  \E e, x, y : /\ Admits(R, Y, e) /\ Weigh(w, e) <= Weigh(w, d)
               /\ x \in R /\ y \in R /\ x # y /\ e[x] = e[y] /\ e[x] > 0
               /\ \A s \in R : e[s] <= e[x]

LEMMA TwoDeepest ==
  ASSUME NEW w \in [Symbols -> Nat], NEW Y \in 1 .. MAX_BITS, NEW R \in SUBSET Symbols,
         NEW a \in R, NEW b \in R, a # b, NEW d, Admits(R, Y, d)
  PROVE  LongestAtTwo(w, Y, R, d)
<1> DEFINE Good(e) == Admits(R, Y, e) /\ Weigh(w, e) <= Weigh(w, d)
           T == {Total(e) : e \in {e \in [Symbols -> 0 .. Y] : Good(e)}}
<1>1. Y \in Nat /\ Y \in 0 .. MAX_BITS /\ d \in [Symbols -> 0 .. Y]
  BY DEF Admits, MAX_BITS
<1>2. \A e \in [Symbols -> 0 .. Y] : e \in [Symbols -> Nat] /\ Total(e) \in Nat
  <2>1. \A e \in [Symbols -> 0 .. Y] : e \in [Symbols -> Nat]
    BY <1>1
  <2> QED BY <2>1, TotalPlus
<1>3. T \in SUBSET Nat /\ T # {}
  <2>1. Weigh(w, d) \in Nat
    BY <1>1, <1>2, WeighIs
  <2>2. Good(d)
    BY <2>1
  <2>3. d \in {e \in [Symbols -> 0 .. Y] : Good(e)}
    BY <1>1, <2>2
  <2> HIDE DEF Good
  <2> QED BY <1>2, <2>3
<1>4. PICK k \in T : \A j \in T : k <= j
  <2> HIDE DEF T
  <2> QED BY <1>3, LeastOf
<1>5. PICK e \in [Symbols -> 0 .. Y] : Good(e) /\ Total(e) = k
  BY <1>4
<1>6. \A h \in [Symbols -> 0 .. Y] : Good(h) => Total(e) <= Total(h)
  BY <1>4, <1>5
<1> HIDE DEF T
<1>7. PICK x \in R : \A s \in R : e[s] <= e[x]
  <2> DEFINE U == {Y - e[s] : s \in R}
  <2>1. \A s \in R : e[s] \in 0 .. Y
    BY <1>5
  <2>2. U \in SUBSET Nat /\ U # {}
    BY <1>1, <2>1
  <2>3. PICK j \in U : \A i \in U : j <= i
    <3> HIDE DEF U
    <3> QED BY <2>2, LeastOf
  <2>4. PICK x \in R : j = Y - e[x]
    BY <2>3
  <2>5. ASSUME NEW s \in R PROVE e[s] <= e[x]
    <3>1. Y - e[x] <= Y - e[s]
      BY <2>3, <2>4
    <3> QED BY <1>1, <2>1, <3>1
  <2> QED BY <2>5
<1>8. \A s \in R : s \in Symbols /\ e[s] \in 0 .. Y /\ e[s] \in Nat
  BY <1>1, <1>5
<1>9. \E y \in R : y # x /\ e[y] = e[x]
  <2> SUFFICES ASSUME \A y \in R : y # x => e[y] # e[x] PROVE FALSE
    OBVIOUS
  <2>1. \A s \in R : s # x => e[s] < e[x]
    BY <1>7, <1>8
  <2>2. e[x] > 0
    <3>1. PICK s \in R : s # x
      OBVIOUS
    <3> QED BY <1>8, <2>1, <3>1
  <2> DEFINE h == [e EXCEPT ![x] = e[x] - 1]
  <2>3. Admits(R, Y, h)
    BY <1>5, <1>8, <2>1, <2>2, Shortened
  <2>4. h[x] \in Nat /\ e[x] = h[x] + 1 /\ \A s \in Symbols \ {x} : e[s] = h[s]
    BY <1>5, <1>8, <2>2
  <2>5. h \in [Symbols -> 0 .. Y]
    BY <2>3 DEF Admits
  <2> HIDE DEF h
  <2>6. Weigh(w, h) <= Weigh(w, d)
    <3>1. \A s \in Symbols : h[s] <= e[s]
      <4> SUFFICES ASSUME NEW s \in Symbols PROVE h[s] <= e[s]
        OBVIOUS
      <4>1. h[s] \in Nat
        BY <1>2, <2>5
      <4> QED BY <2>4, <4>1
    <3>2. /\ Weigh(w, h) <= Weigh(w, e) /\ Weigh(w, h) \in Nat /\ Weigh(w, e) \in Nat
          /\ Weigh(w, d) \in Nat
      BY <1>1, <1>2, <2>5, <3>1, WeighIs
    <3> QED BY <1>5, <3>2
  <2>7. Total(e) <= Total(h)
    BY <1>6, <2>3, <2>5, <2>6
  <2>8. Total(e) = Total(h) + 1
    <3>1. e \in [Symbols -> Nat] /\ h \in [Symbols -> Nat] /\ x \in Symbols /\ 1 \in Nat
      BY <1>2, <1>5, <1>8, <2>5
    <3> HIDE DEF Good
    <3> QED BY <2>4, <3>1, TotalAdd
  <2>9. Total(h) \in Nat
    BY <1>2, <2>5
  <2> QED BY <2>7, <2>8, <2>9
<1>10. PICK y \in R : y # x /\ e[y] = e[x]
  BY <1>9
<1>11. e[x] > 0
  <2> SUFFICES ASSUME e[x] = 0 PROVE FALSE
    BY <1>8
  <2> DEFINE u == Taking(R, Y, e)
             z == Two(Y)
  <2>1. u \in [Symbols -> Nat] /\ u[x] = z /\ u[y] = z /\ z \in Nat \ {0}
    <3>1. Y - e[x] = Y /\ Y - e[y] = Y
      BY <1>1, <1>10
    <3>2. /\ u \in [Symbols -> Nat]
          /\ u[x] = Two(Y - e[x]) /\ u[y] = Two(Y - e[y])
      BY <1>1, <1>5, <1>8, TakingIs
    <3> QED BY <1>1, <3>1, <3>2, Powers
  <2>2. Total(u) <= z /\ x \in Symbols /\ y \in Symbols \ {x}
    BY <1>5, <1>8, <1>10 DEF Admits
  <2> HIDE DEF u, z
  <2>3. u[x] + u[y] <= Total(u) /\ Total(u) \in Nat
    BY <2>1, <2>2, TotalHolds, TotalPlus
  <2> QED BY <2>1, <2>2, <2>3
<1> QED BY <1>5, <1>7, <1>10, <1>11 DEF LongestAtTwo

(* In v the symbol a stands for itself and for b, in w each for itself.    *)
Joins(w, v, R, a, b) ==
  /\ w \in [Symbols -> Nat] /\ v \in [Symbols -> Nat] /\ R \in SUBSET Symbols
  /\ a \in R /\ b \in R /\ a # b
  /\ v[a] = w[a] + w[b] /\ v[b] = 0
  /\ \A s \in Symbols \ {a, b} : v[s] = w[s]

(* Two codes, with a place for each, or one of a bit less for both.        *)
Splits(k, g, Y, a, b) ==
  /\ k \in [Symbols -> 0 .. Y] /\ g \in [Symbols -> 0 .. Y]
  /\ g[a] = k[a] + 1 /\ g[b] = k[a] + 1
  /\ \A s \in Symbols \ {a, b} : k[s] = g[s]

LEMMA Halved ==
  ASSUME NEW Y \in 1 .. MAX_BITS, NEW w, NEW v, NEW R, NEW a, NEW b, Joins(w, v, R, a, b),
         NEW k, NEW g, Splits(k, g, Y, a, b)
  PROVE  /\ Total(Taking(R \ {b}, Y, k)) = Total(Taking(R, Y, g))
         /\ Weigh(v, k) + (w[a] + w[b]) = Weigh(w, g)
<1> DEFINE D == R \ {b}
           L == g[a]
<1>1. /\ Y \in Nat /\ Y \in 0 .. MAX_BITS /\ a \in Symbols /\ b \in Symbols
      /\ a \in D /\ b \notin D /\ a \in R /\ b \in R /\ a # b
      /\ \A s \in Symbols \ {a, b} : s \in D <=> s \in R
  BY DEF MAX_BITS, Joins
<1>2. L \in 1 .. Y /\ L \in Nat /\ g[a] = L /\ g[b] = L /\ k[a] = L - 1
  <2>1. k[a] \in 0 .. Y /\ g[a] \in 0 .. Y /\ g[a] = k[a] + 1 /\ g[b] = k[a] + 1
    BY <1>1 DEF Splits
  <2> QED BY <1>1, <2>1
<1>3. /\ k \in [Symbols -> 0 .. Y] /\ g \in [Symbols -> 0 .. Y]
      /\ \A s \in Symbols \ {a, b} : k[s] = g[s]
  BY DEF Splits
<1> HIDE DEF L, D
<1>4. Total(Taking(D, Y, k)) = Total(Taking(R, Y, g))
  <2> DEFINE p == Taking(D, Y, k)
             q == Taking(R, Y, g)
             i == Y - (L - 1)
  <2>1. /\ p \in [Symbols -> Nat] /\ q \in [Symbols -> Nat]
        /\ p[a] = Two(Y - k[a]) /\ p[b] = 0
        /\ q[a] = Two(Y - g[a]) /\ q[b] = Two(Y - g[b])
    BY <1>1, <1>3, TakingIs
  <2>2. i \in 1 .. MAX_BITS /\ i - 1 = Y - L /\ Y - L \in 0 .. MAX_BITS
    BY <1>1, <1>2 DEF MAX_BITS
  <2>3. p[a] = Two(i) /\ q[a] = Two(i - 1) /\ q[b] = Two(i - 1)
    BY <1>2, <2>1, <2>2
  <2>4. Two(i) = 2 * Two(i - 1) /\ Two(i - 1) \in Nat
    BY <2>2, Powers
  <2>5. \A r \in Symbols \ {a, b} : p[r] = q[r]
    BY <1>1, <1>3 DEF Taking
  <2> HIDE DEF p, q
  <2>6. /\ Total(p) + (q[a] + q[b]) = Total(q) + (p[a] + p[b])
        /\ Total(p) \in Nat /\ Total(q) \in Nat
    <3>1. AllBut(p, q, a, b)
      BY <1>1, <2>1, <2>5 DEF AllBut
    <3> QED BY <3>1, TotalTwo
  <2>7. q[a] + q[b] = p[a] + p[b] /\ p[a] + p[b] \in Nat
    BY <2>1, <2>3, <2>4
  <2>8. Total(p) = Total(q)
    BY <2>6, <2>7
  <2> QED BY <2>8 DEF p, q
<1>5. Weigh(v, k) + (w[a] + w[b]) = Weigh(w, g)
  <2> DEFINE p == [r \in Symbols |-> k[r] * v[r]]
             q == [r \in Symbols |-> g[r] * w[r]]
             x1 == w[a]
             x2 == w[b]
             j == L - 1
  <2>1. \A i, n \in Nat : i * n \in Nat
    OBVIOUS
  <2>2. \A r \in Symbols : k[r] \in Nat /\ g[r] \in Nat /\ v[r] \in Nat /\ w[r] \in Nat
    BY <1>1, <1>3 DEF Joins
  <2>3. p \in [Symbols -> Nat] /\ q \in [Symbols -> Nat]
    BY <2>1, <2>2
  <2>4. \A r \in Symbols \ {a, b} : p[r] = q[r]
    BY <1>3 DEF Joins
  <2>5. /\ p[a] = j * (x1 + x2) /\ p[b] = k[b] * 0
        /\ q[a] = L * x1 /\ q[b] = L * x2
    BY <1>1, <1>2 DEF Joins
  <2>6. j \in Nat /\ L = j + 1 /\ x1 \in Nat /\ x2 \in Nat
    BY <1>1, <1>2, <2>2
  <2>7. k[b] * 0 = 0
    BY <1>1, <2>2
  <2> HIDE DEF p, q, x1, x2, j
  <2>8. q[a] + q[b] = (p[a] + p[b]) + (x1 + x2) /\ p[a] + p[b] \in Nat
    <3>1. /\ L * x1 = j * x1 + x1 /\ L * x2 = j * x2 + x2
          /\ j * (x1 + x2) = j * x1 + j * x2 /\ j * x1 \in Nat /\ j * x2 \in Nat
      BY <2>6
    <3> QED BY <2>5, <2>6, <2>7, <3>1
  <2>9. /\ Total(p) + (q[a] + q[b]) = Total(q) + (p[a] + p[b])
        /\ Total(p) \in Nat /\ Total(q) \in Nat
    <3>1. AllBut(p, q, a, b)
      BY <1>1, <2>3, <2>4 DEF AllBut
    <3> QED BY <3>1, TotalTwo
  <2>10. Total(p) + (x1 + x2) = Total(q)
    BY <2>6, <2>8, <2>9
  <2> QED BY <2>10 DEF Weigh, p, q, x1, x2
<1> QED BY <1>4, <1>5 DEF D

(* Of the two lightest, joined, a code costs as much less as they weigh.   *)
LEMMA Siblings ==
  ASSUME NEW Y \in 1 .. MAX_BITS, NEW w, NEW v, NEW R, NEW a, NEW b, Joins(w, v, R, a, b),
         \A s \in R : w[a] <= w[s], \A s \in R \ {a} : w[b] <= w[s],
         NEW d, Admits(R, Y, d)
  PROVE  \E e : Admits(R \ {b}, Y, e) /\ Weigh(v, e) + (w[a] + w[b]) <= Weigh(w, d)
<1>1. /\ Y \in Nat /\ Y \in 0 .. MAX_BITS /\ a \in Symbols /\ b \in Symbols
      /\ w \in [Symbols -> Nat] /\ R \in SUBSET Symbols /\ a \in R /\ b \in R /\ a # b
      /\ \A s \in R : s \in Symbols
  BY DEF MAX_BITS, Joins
<1>2. ASSUME NEW e, Admits(R, Y, e)
      PROVE  /\ e \in [Symbols -> 0 .. Y] /\ \A s \in Symbols : e[s] \in Nat
             /\ e \in [Symbols -> Nat] /\ Weigh(w, e) \in Nat
  <2>1. e \in [Symbols -> 0 .. Y]
    BY <1>2 DEF Admits
  <2>2. e \in [Symbols -> Nat]
    BY <1>1, <2>1
  <2> QED BY <1>1, <2>1, <2>2, WeighIs
<1>3. PICK e, x, y : /\ Admits(R, Y, e) /\ Weigh(w, e) <= Weigh(w, d)
                     /\ x \in R /\ y \in R /\ x # y /\ e[x] = e[y] /\ e[x] > 0
                     /\ \A s \in R : e[s] <= e[x]
  <2>1. LongestAtTwo(w, Y, R, d)
    BY <1>1, TwoDeepest
  <2> QED BY <2>1 DEF LongestAtTwo
<1> DEFINE L == e[x]
<1>4. L \in 1 .. Y /\ L \in Nat
  <2>1. e[x] \in 0 .. Y
    BY <1>1, <1>2, <1>3
  <2> QED BY <1>1, <1>3, <2>1
<1>5. \E h, z : /\ Admits(R, Y, h) /\ Weigh(w, h) <= Weigh(w, e)
                /\ z \in R /\ z # a /\ h[a] = L /\ h[z] = L
                /\ \A s \in R : h[s] <= L
  <2>1. CASE e[a] = L
    <3>1. PICK z \in {x, y} : z # a
      BY <1>3
    <3>2. e[z] = L /\ z \in R
      BY <1>3, <3>1
    <3>3. Weigh(w, e) <= Weigh(w, e)
      BY <1>2, <1>3
    <3> QED BY <1>3, <2>1, <3>1, <3>2, <3>3
  <2>2. CASE e[a] # L
    <3>1. a # x /\ a # y /\ w[a] <= w[x] /\ e[a] <= e[x] /\ x \in Symbols /\ x \in R
      BY <1>1, <1>3, <2>2
    <3>2. PICK h : /\ Admits(R, Y, h) /\ Weigh(w, h) <= Weigh(w, e)
                   /\ h[a] = e[x] /\ h[x] = e[a]
                   /\ \A r \in Symbols \ {a, x} : h[r] = e[r]
      BY <1>1, <1>3, <3>1, Swapped
    <3>3. h[y] = L /\ y \in R
      BY <1>1, <1>3, <3>1, <3>2
    <3>4. ASSUME NEW s \in R PROVE h[s] <= L
      <4>1. CASE s = a
        BY <1>4, <3>2, <4>1
      <4>2. CASE s = x
        BY <3>1, <3>2, <4>2
      <4>3. CASE s # a /\ s # x
        BY <1>1, <1>3, <3>2, <4>3
      <4> QED BY <4>1, <4>2, <4>3
    <3> QED BY <3>1, <3>2, <3>3, <3>4
  <2> QED BY <2>1, <2>2
<1>6. PICK h, z : /\ Admits(R, Y, h) /\ Weigh(w, h) <= Weigh(w, e)
                  /\ z \in R /\ z # a /\ h[a] = L /\ h[z] = L
                  /\ \A s \in R : h[s] <= L
  BY <1>5
<1>7. \E g : Admits(R, Y, g) /\ Weigh(w, g) <= Weigh(w, h) /\ g[a] = L /\ g[b] = L
  <2>1. CASE h[b] = L
    <3>1. Weigh(w, h) <= Weigh(w, h)
      BY <1>2, <1>6
    <3> QED BY <1>6, <2>1, <3>1
  <2>2. CASE h[b] # L
    <3>1. b # z /\ w[b] <= w[z] /\ h[b] <= h[z] /\ z \in Symbols /\ z \in R
      BY <1>1, <1>6, <2>2
    <3>2. PICK g : /\ Admits(R, Y, g) /\ Weigh(w, g) <= Weigh(w, h)
                   /\ g[b] = h[z] /\ g[z] = h[b]
                   /\ \A r \in Symbols \ {b, z} : g[r] = h[r]
      BY <1>1, <1>6, <3>1, Swapped
    <3>3. g[a] = L /\ g[b] = L
      BY <1>1, <1>6, <3>2
    <3> QED BY <3>2, <3>3
  <2> QED BY <2>1, <2>2
<1>8. PICK g : Admits(R, Y, g) /\ Weigh(w, g) <= Weigh(w, h) /\ g[a] = L /\ g[b] = L
  BY <1>7
<1>9. Weigh(w, g) <= Weigh(w, d) /\ Weigh(w, g) \in Nat
  <2>1. /\ Weigh(w, g) \in Nat /\ Weigh(w, h) \in Nat
        /\ Weigh(w, e) \in Nat /\ Weigh(w, d) \in Nat
    BY <1>2, <1>3, <1>6, <1>8
  <2> QED BY <1>3, <1>6, <1>8, <2>1
<1> HIDE DEF L
<1> DEFINE k == [g EXCEPT ![a] = L - 1]
           D == R \ {b}
<1>10. /\ k \in [Symbols -> 0 .. Y] /\ k[a] = L - 1
       /\ \A s \in Symbols \ {a, b} : k[s] = g[s]
       /\ g \in [Symbols -> 0 .. Y]
  <2>1. g \in [Symbols -> 0 .. Y] /\ L - 1 \in 0 .. Y
    BY <1>1, <1>2, <1>4, <1>8
  <2> QED BY <1>1, <2>1
<1> HIDE DEF k
<1>11. /\ Total(Taking(D, Y, k)) = Total(Taking(R, Y, g))
       /\ Weigh(v, k) + (w[a] + w[b]) = Weigh(w, g)
  <2>1. k[a] + 1 = L
    BY <1>4, <1>10
  <2>2. Splits(k, g, Y, a, b)
    BY <1>8, <1>10, <2>1 DEF Splits
  <2> QED BY <2>2, Halved
<1>12. Admits(D, Y, k)
  <2>1. Total(Taking(R, Y, g)) <= Two(Y)
    BY <1>8 DEF Admits
  <2> QED BY <1>10, <1>11, <2>1 DEF Admits
<1>13. Weigh(v, k) + (w[a] + w[b]) <= Weigh(w, d)
  BY <1>9, <1>11
<1> QED BY <1>12, <1>13
-----------------------------------------------------------------------------
(* The trees of the heap, each of which stands for a symbol as heavy.      *)
Represents(rep, w, x, trees) ==
  /\ rep \in Seq(Symbols) /\ Len(rep) = Len(trees) /\ w \in [Symbols -> Nat] /\ x \in [Symbols -> Nat]
  /\ \A i, k \in 1 .. Len(trees) : rep[i] = rep[k] => i = k
  /\ \A i \in 1 .. Len(trees) : w[rep[i]] = trees[i].weight /\ x[rep[i]] = trees[i].width
  /\ \A s \in Symbols : s \notin Leading(rep, Len(trees)) => w[s] = 0

LEMMA RemovedRepresents ==
  ASSUME NEW trees \in Seq(Trees), NEW rep, NEW w, NEW x, Represents(rep, w, x, trees),
         NEW i \in 1 .. Len(trees), NEW v \in [Symbols -> Nat],
         v[rep[i]] = 0, \A s \in Symbols : s # rep[i] => v[s] = w[s]
  PROVE  /\ Represents(RemoveAt(rep, i), v, x, RemoveAt(trees, i))
         /\ Leading(RemoveAt(rep, i), Len(trees) - 1) = Leading(rep, Len(trees)) \ {rep[i]}
<1> DEFINE L == Len(trees)
           t == RemoveAt(trees, i)
           e == RemoveAt(rep, i)
           At(k) == IF k < i THEN k ELSE k + 1
           R == Leading(rep, L)
<1>0. L \in Nat
  OBVIOUS
<1>1. /\ rep \in Seq(Symbols) /\ Len(rep) = L
      /\ w \in [Symbols -> Nat] /\ x \in [Symbols -> Nat]
      /\ \A k, h \in 1 .. L : rep[k] = rep[h] => k = h
      /\ \A k \in 1 .. L : /\ w[rep[k]] = trees[k].weight /\ x[rep[k]] = trees[k].width
                           /\ rep[k] \in Symbols
      /\ \A s \in Symbols : s \notin R => w[s] = 0
  BY DEF Represents
<1>2. /\ t \in Seq(Trees) /\ Len(t) = L - 1
      /\ \A k \in 1 .. i - 1 : t[k] = trees[k]
      /\ \A k \in i .. L - 1 : t[k] = trees[k + 1]
  BY RemovedIs
<1>3. /\ e \in Seq(Symbols) /\ Len(e) = L - 1
      /\ \A k \in 1 .. i - 1 : e[k] = rep[k]
      /\ \A k \in i .. L - 1 : e[k] = rep[k + 1]
  <2>1. i \in 1 .. Len(rep) /\ rep \in Seq(Symbols)
    BY <1>1
  <2>2. /\ e \in Seq(Symbols) /\ Len(e) = Len(rep) - 1
        /\ \A k \in 1 .. i - 1 : e[k] = rep[k]
        /\ \A k \in i .. Len(rep) - 1 : e[k] = rep[k + 1]
    BY <2>1, RemovedIs
  <2>3. Len(rep) = L
    BY <1>1
  <2> HIDE DEF L, e
  <2> QED BY <2>2, <2>3
<1>4. i \in 1 .. L
  OBVIOUS
<1> HIDE DEF L, t, e
<1>5. ASSUME NEW k \in 1 .. L - 1
      PROVE  /\ At(k) \in 1 .. L /\ At(k) # i
             /\ e[k] = rep[At(k)] /\ t[k] = trees[At(k)]
  <2>1. CASE k < i
    <3>1. k \in 1 .. i - 1 /\ k \in 1 .. L /\ At(k) = k /\ k # i
      BY <1>0, <1>4, <2>1
    <3> QED BY <1>2, <1>3, <3>1
  <2>2. CASE ~ (k < i)
    <3>1. k \in i .. L - 1 /\ k + 1 \in 1 .. L /\ At(k) = k + 1 /\ k + 1 # i
      BY <1>0, <1>4, <2>2
    <3> QED BY <1>2, <1>3, <3>1
  <2> QED BY <2>1, <2>2
<1>6. ASSUME NEW h \in 1 .. L, h # i
      PROVE  \E k \in 1 .. L - 1 : At(k) = h
  <2>1. CASE h < i
    <3>1. h \in 1 .. L - 1 /\ At(h) = h
      BY <1>0, <1>4, <2>1
    <3> QED BY <3>1
  <2>2. CASE ~ (h < i)
    <3>1. h - 1 \in 1 .. L - 1 /\ At(h - 1) = h
      BY <1>0, <1>4, <1>6, <2>2
    <3> QED BY <3>1
  <2> QED BY <2>1, <2>2
<1>7. \A k, h \in 1 .. L - 1 : At(k) = At(h) => k = h
  BY <1>0, <1>4
<1> HIDE DEF At
<1>8. Leading(e, L - 1) = R \ {rep[i]}
  <2>1. ASSUME NEW k \in 1 .. L - 1 PROVE e[k] \in R \ {rep[i]}
    <3>1. At(k) \in 1 .. L /\ At(k) # i /\ e[k] = rep[At(k)]
      BY <1>5
    <3>2. rep[At(k)] # rep[i]
      BY <1>1, <1>4, <3>1
    <3>3. rep[At(k)] \in R
      BY <3>1 DEF Leading
    <3> QED BY <3>1, <3>2, <3>3
  <2>2. ASSUME NEW s \in R \ {rep[i]} PROVE \E k \in 1 .. L - 1 : s = e[k]
    <3>1. PICK h \in 1 .. L : s = rep[h]
      BY DEF Leading
    <3>2. PICK k \in 1 .. L - 1 : At(k) = h
      BY <1>6, <3>1
    <3> QED BY <1>5, <3>1, <3>2
  <2> HIDE DEF R
  <2> QED BY <2>1, <2>2 DEF Leading
<1>9. \A k, h \in 1 .. L - 1 : e[k] = e[h] => k = h
  <2> SUFFICES ASSUME NEW k \in 1 .. L - 1, NEW h \in 1 .. L - 1, e[k] = e[h]
               PROVE  k = h
    OBVIOUS
  <2>1. rep[At(k)] = rep[At(h)] /\ At(k) \in 1 .. L /\ At(h) \in 1 .. L
    BY <1>5
  <2>2. At(k) = At(h)
    BY <1>1, <2>1
  <2> QED BY <1>7, <2>2
<1>10. \A k \in 1 .. L - 1 : v[e[k]] = t[k].weight /\ x[e[k]] = t[k].width
  <2> SUFFICES ASSUME NEW k \in 1 .. L - 1
               PROVE  v[e[k]] = t[k].weight /\ x[e[k]] = t[k].width
    OBVIOUS
  <2>1. At(k) \in 1 .. L /\ At(k) # i /\ e[k] = rep[At(k)] /\ t[k] = trees[At(k)]
    BY <1>5
  <2>2. rep[At(k)] # rep[i] /\ rep[At(k)] \in Symbols
    BY <1>1, <1>4, <2>1
  <2>3. v[rep[At(k)]] = w[rep[At(k)]]
    BY <2>2
  <2>4. w[rep[At(k)]] = trees[At(k)].weight /\ x[rep[At(k)]] = trees[At(k)].width
    BY <1>1, <2>1
  <2> QED BY <2>1, <2>3, <2>4
<1>11. \A s \in Symbols : s \notin Leading(e, L - 1) => v[s] = 0
  <2> HIDE DEF R
  <2> QED BY <1>1, <1>8
<1> QED BY <1>1, <1>2, <1>3, <1>8, <1>9, <1>10, <1>11, ZenonT(60) DEF Represents, t, e, L

(* One tree more, for the symbol s.                                        *)
Attaches(trees, rep, w, x, s, tree, v, y) ==
  /\ trees \in Seq(Trees) /\ Represents(rep, w, x, trees) /\ tree \in Trees
  /\ s \in Symbols /\ s \notin Leading(rep, Len(trees))
  /\ v \in [Symbols -> Nat] /\ v[s] = tree.weight
  /\ y \in [Symbols -> Nat] /\ y[s] = tree.width
  /\ \A u \in Symbols : u # s => v[u] = w[u] /\ y[u] = x[u]

LEMMA AppendedRepresents ==
  ASSUME NEW trees, NEW rep, NEW w, NEW x, NEW s, NEW tree, NEW v, NEW y,
         Attaches(trees, rep, w, x, s, tree, v, y)
  PROVE  /\ Represents(Append(rep, s), v, y, Append(trees, tree))
         /\ Leading(Append(rep, s), Len(trees) + 1) = Leading(rep, Len(trees)) \cup {s}
<1> USE DEF Attaches
<1> DEFINE L == Len(trees)
           t == Append(trees, tree)
           e == Append(rep, s)
           R == Leading(rep, L)
<1>0. L \in Nat
  OBVIOUS
<1>1. /\ rep \in Seq(Symbols) /\ Len(rep) = L
      /\ w \in [Symbols -> Nat] /\ x \in [Symbols -> Nat]
      /\ \A k, h \in 1 .. L : rep[k] = rep[h] => k = h
      /\ \A k \in 1 .. L : /\ w[rep[k]] = trees[k].weight /\ x[rep[k]] = trees[k].width
                           /\ rep[k] \in Symbols
      /\ \A u \in Symbols : u \notin R => w[u] = 0
  BY DEF Represents
<1>2. /\ t \in Seq(Trees) /\ Len(t) = L + 1 /\ t[L + 1] = tree
      /\ \A k \in 1 .. L : t[k] = trees[k]
  OBVIOUS
<1>3. /\ e \in Seq(Symbols) /\ Len(e) = L + 1 /\ e[L + 1] = s
      /\ \A k \in 1 .. L : e[k] = rep[k]
  <2> HIDE DEF L
  <2> QED BY <1>1
<1> HIDE DEF L, t, e
<1>4. \A k : k \in 1 .. L + 1 <=> k \in 1 .. L \/ k = L + 1
  BY <1>0
<1>5. Leading(e, L + 1) = R \cup {s}
  <2>1. ASSUME NEW k \in 1 .. L + 1 PROVE e[k] \in R \cup {s}
    <3>1. CASE k \in 1 .. L
      <4>1. e[k] = rep[k]
        BY <1>3, <3>1
      <4> QED BY <3>1, <4>1 DEF Leading
    <3>2. CASE k = L + 1
      BY <1>3, <3>2
    <3> QED BY <1>4, <3>1, <3>2
  <2>2. ASSUME NEW u \in R \cup {s} PROVE \E k \in 1 .. L + 1 : u = e[k]
    <3>1. CASE u = s
      BY <1>3, <1>4, <3>1
    <3>2. CASE u \in R
      <4>1. PICK k \in 1 .. L : u = rep[k]
        BY <3>2 DEF Leading
      <4> QED BY <1>3, <1>4, <4>1
    <3> QED BY <3>1, <3>2
  <2> HIDE DEF R
  <2> QED BY <2>1, <2>2 DEF Leading
<1>6. \A k \in 1 .. L : rep[k] # s
  BY DEF Leading, L
<1>7. ASSUME NEW k \in 1 .. L + 1, NEW h \in 1 .. L + 1, e[k] = e[h]
      PROVE  k = h
  <2>1. \A j \in 1 .. L : e[j] # s
    BY <1>3, <1>6
  <2>2. CASE k \in 1 .. L
    <3>1. h \in 1 .. L
      BY <1>3, <1>4, <1>7, <2>1, <2>2
    <3>2. rep[k] = rep[h]
      BY <1>3, <1>7, <2>2, <3>1
    <3> QED BY <1>1, <2>2, <3>1, <3>2
  <2>3. CASE k = L + 1
    <3>1. ~ (h \in 1 .. L)
      BY <1>3, <1>7, <2>1, <2>3
    <3> QED BY <1>4, <2>3, <3>1
  <2> QED BY <1>4, <2>2, <2>3
<1>8. ASSUME NEW k \in 1 .. L + 1
      PROVE  v[e[k]] = t[k].weight /\ y[e[k]] = t[k].width
  <2>1. CASE k \in 1 .. L
    <3>1. e[k] = rep[k] /\ t[k] = trees[k] /\ rep[k] # s /\ rep[k] \in Symbols
      BY <1>1, <1>2, <1>3, <1>6, <2>1
    <3>2. v[rep[k]] = w[rep[k]] /\ y[rep[k]] = x[rep[k]]
      BY <3>1
    <3>3. w[rep[k]] = trees[k].weight /\ x[rep[k]] = trees[k].width
      BY <1>1, <2>1
    <3> QED BY <3>1, <3>2, <3>3
  <2>2. CASE k = L + 1
    BY <1>2, <1>3, <2>2
  <2> QED BY <1>4, <2>1, <2>2
<1>9. \A u \in Symbols : u \notin Leading(e, L + 1) => v[u] = 0
  <2> HIDE DEF R
  <2> QED BY <1>1, <1>5
<1> QED BY <1>2, <1>3, <1>5, <1>7, <1>8, <1>9 DEF Represents, t, e, L

(* No code for which there is place costs less than one that leaves, below *)
(* each symbol, place for a tree as deep as x says.                        *)
Fitted(R, w, x, Y, o) ==
  \E e : /\ Admits(R, Y, e)
         /\ \A s \in R : e[s] + x[s] <= o
         /\ \A d : Admits(R, Y, d) => Weigh(w, e) <= Weigh(w, d)

LEMMA Grafted ==
  ASSUME NEW Y \in 1 .. MAX_BITS, NEW w, NEW v, NEW R, NEW a, NEW b, Joins(w, v, R, a, b),
         NEW k, Admits(R \ {b}, Y, k), k[a] < Y
  PROVE  \E g : /\ Splits(k, g, Y, a, b) /\ Admits(R, Y, g)
                /\ Weigh(v, k) + (w[a] + w[b]) = Weigh(w, g)
<1> DEFINE L == k[a] + 1
           h == [s \in Symbols |-> IF s = a \/ s = b THEN L ELSE k[s]]
<1>1. /\ Y \in Nat /\ a \in Symbols /\ b \in Symbols /\ a # b
      /\ k \in [Symbols -> 0 .. Y]
      /\ Total(Taking(R \ {b}, Y, k)) <= Two(Y)
  BY DEF MAX_BITS, Joins, Admits
<1>2. L \in 0 .. Y /\ k[a] + 1 = L
  BY <1>1
<1>3. /\ h \in [Symbols -> 0 .. Y] /\ h[a] = L /\ h[b] = L
      /\ \A s \in Symbols \ {a, b} : k[s] = h[s]
  BY <1>1, <1>2
<1> HIDE DEF h, L
<1>4. Splits(k, h, Y, a, b)
  BY <1>1, <1>2, <1>3 DEF Splits
<1>5. /\ Total(Taking(R \ {b}, Y, k)) = Total(Taking(R, Y, h))
      /\ Weigh(v, k) + (w[a] + w[b]) = Weigh(w, h)
  BY <1>4, Halved
<1>6. Admits(R, Y, h)
  BY <1>1, <1>3, <1>5 DEF Admits
<1> QED BY <1>4, <1>5, <1>6

(* The symbols a and b are the lightest of R, z is as deep as x, joined.   *)
Joinable(R, w, x, v, z, a, b) ==
  /\ Joins(w, v, R, a, b)
  /\ (\A s \in R : w[a] <= w[s]) /\ (\A s \in R \ {a} : w[b] <= w[s])
  /\ x \in [Symbols -> Nat] /\ z \in [Symbols -> Nat]
  /\ z[a] = 1 + Max({x[a], x[b]})
  /\ \A s \in Symbols \ {a, b} : z[s] = x[s]

LEMMA FittedJoined ==
  ASSUME NEW Y \in 1 .. MAX_BITS, NEW o \in 0 .. Y, NEW R, NEW w, NEW x, NEW v, NEW z,
         NEW a, NEW b, Joinable(R, w, x, v, z, a, b), Fitted(R \ {b}, v, z, Y, o)
  PROVE  Fitted(R, w, x, Y, o)
<1> USE DEF Joinable
<1> DEFINE D == R \ {b}
<1>1. /\ Y \in Nat /\ o \in Nat /\ o <= Y /\ a \in Symbols /\ b \in Symbols
      /\ \A s \in R : s \in Symbols
      /\ v \in [Symbols -> Nat] /\ w \in [Symbols -> Nat] /\ a \in D /\ a # b
  BY DEF MAX_BITS, Joins
<1>2. PICK k : /\ Admits(D, Y, k)
               /\ \A s \in D : k[s] + z[s] <= o
               /\ \A d : Admits(D, Y, d) => Weigh(v, k) <= Weigh(v, d)
  BY DEF Fitted
<1>3. k \in [Symbols -> 0 .. Y] /\ Total(Taking(D, Y, k)) <= Two(Y)
  BY <1>2 DEF Admits
<1>4. /\ x[a] \in Nat /\ x[b] \in Nat /\ z[a] >= 1 + x[a] /\ z[a] >= 1 + x[b] /\ z[a] \in Nat
  <2> DEFINE p == x[a]
             q == x[b]
  <2>1. p \in Nat /\ q \in Nat
    BY <1>1
  <2> HIDE DEF p, q
  <2>2. Max({p, q}) \in Nat /\ p <= Max({p, q}) /\ q <= Max({p, q})
    BY <2>1, GreatestOfTwo
  <2>3. z[a] = 1 + Max({p, q})
    BY DEF p, q
  <2>4. z[a] >= 1 + p /\ z[a] >= 1 + q /\ z[a] \in Nat
    BY <2>1, <2>2, <2>3
  <2> QED BY <2>1, <2>4 DEF p, q
<1>5. k[a] \in Nat /\ k[a] + z[a] <= o /\ k[a] < Y
  <2>1. k[a] \in 0 .. Y /\ k[a] + z[a] <= o
    BY <1>1, <1>2, <1>3
  <2> QED BY <1>1, <1>4, <2>1
<1>6. PICK g : /\ Splits(k, g, Y, a, b) /\ Admits(R, Y, g)
               /\ Weigh(v, k) + (w[a] + w[b]) = Weigh(w, g)
  <2>1. Admits(R \ {b}, Y, k)
    BY <1>2
  <2> QED BY <1>5, <2>1, Grafted
<1> DEFINE L == k[a] + 1
<1>7. /\ g \in [Symbols -> 0 .. Y] /\ g[a] = L /\ g[b] = L
      /\ \A s \in Symbols \ {a, b} : k[s] = g[s]
  BY <1>6 DEF Splits
<1>8. Admits(R, Y, g)
  BY <1>6
<1> HIDE DEF L
<1>9. ASSUME NEW s \in R PROVE g[s] + x[s] <= o
  <2>1. CASE s = a
    <3>1. L + x[a] <= o
      BY <1>1, <1>4, <1>5 DEF L
    <3> QED BY <1>7, <2>1, <3>1
  <2>2. CASE s = b
    <3>1. L + x[b] <= o
      BY <1>1, <1>4, <1>5 DEF L
    <3> QED BY <1>7, <2>2, <3>1
  <2>3. CASE s # a /\ s # b
    <3>1. s \in Symbols \ {a, b} /\ s \in D
      BY <1>1, <2>3
    <3>2. k[s] + z[s] <= o /\ k[s] = g[s] /\ z[s] = x[s]
      BY <1>2, <1>7, <3>1
    <3> QED BY <3>2
  <2> QED BY <2>1, <2>2, <2>3
<1>10. ASSUME NEW d, Admits(R, Y, d) PROVE Weigh(w, g) <= Weigh(w, d)
  <2>1. PICK e : Admits(D, Y, e) /\ Weigh(v, e) + (w[a] + w[b]) <= Weigh(w, d)
    BY <1>10, Siblings
  <2>2. Weigh(v, k) <= Weigh(v, e)
    BY <1>2, <2>1
  <2>3. /\ k \in [Symbols -> Nat] /\ e \in [Symbols -> Nat] /\ d \in [Symbols -> Nat]
        /\ g \in [Symbols -> Nat]
    <3>1. e \in [Symbols -> 0 .. Y] /\ d \in [Symbols -> 0 .. Y]
      BY <1>10, <2>1 DEF Admits
    <3> QED BY <1>1, <1>3, <1>7, <3>1
  <2>4. /\ Weigh(v, k) \in Nat /\ Weigh(v, e) \in Nat /\ Weigh(w, d) \in Nat
        /\ Weigh(w, g) \in Nat /\ w[a] + w[b] \in Nat
    <3>1. w[a] + w[b] \in Nat
      <4>1. w[a] \in Nat /\ w[b] \in Nat
        BY <1>1
      <4> QED BY <4>1
    <3>2. w \in [Symbols -> Nat] /\ v \in [Symbols -> Nat]
      BY <1>1
    <3> QED BY <2>3, <3>1, <3>2, WeighIs
  <2> QED BY <1>6, <2>1, <2>2, <2>4
<1> QED BY <1>8, <1>9, <1>10 DEF Fitted

(* The same of a list of trees, whatever symbols they stand for.           *)
Rooted(trees, Y, o) ==
  \A rep, w, x : Represents(rep, w, x, trees)
                   => Fitted(Leading(rep, Len(trees)), w, x, Y, o)

LEMMA TreeOf ==
  ASSUME NEW trees \in Seq(Trees), NEW i \in 1 .. Len(trees)
  PROVE  trees[i] \in Trees
OBVIOUS

LEMMA OneRooted ==
  ASSUME NEW trees \in Seq(Trees), Len(trees) = 1, NEW Y \in 1 .. MAX_BITS,
         NEW o \in 0 .. Y, trees[1].width <= o
  PROVE  Rooted(trees, Y, o)
<1> SUFFICES ASSUME NEW rep, NEW w, NEW x, Represents(rep, w, x, trees)
             PROVE  Fitted(Leading(rep, 1), w, x, Y, o)
  BY DEF Rooted
<1> DEFINE s == rep[1]
           R == Leading(rep, 1)
           u == Taking(R, Y, Never)
           z == Two(Y)
           zero == [r \in Symbols |-> 0]
<1>1. /\ w \in [Symbols -> Nat] /\ x[s] = trees[1].width /\ s \in Symbols
      /\ Y \in Nat /\ Y \in 0 .. MAX_BITS
  <2>1. 1 \in 1 .. Len(trees) /\ 1 \in 1 .. Len(rep) /\ rep \in Seq(Symbols)
    BY DEF Represents
  <2>2. s \in Symbols
    BY <2>1
  <2>3. w \in [Symbols -> Nat] /\ x[s] = trees[1].width
    BY <2>1 DEF Represents
  <2>4. Y \in Nat /\ Y \in 0 .. MAX_BITS
    BY DEF MAX_BITS
  <2> QED BY <2>2, <2>3, <2>4
<1>2. R = {s}
  BY DEF Leading
<1>3. Never \in [Symbols -> 0 .. Y] /\ Never[s] = 0 /\ \A r \in Symbols : Never[r] = 0
  BY <1>1 DEF Never
<1>4. /\ u \in [Symbols -> Nat] /\ u[s] = z /\ z \in Nat
      /\ \A r \in Symbols \ {s} : u[r] = 0
  <2>1. Y - Never[s] = Y
    BY <1>1, <1>3
  <2>2. s \in R /\ \A r \in Symbols \ {s} : r \notin R
    BY <1>2
  <2>3. /\ u \in [Symbols -> Nat] /\ u[s] = Two(Y - Never[s])
        /\ \A r \in Symbols : r \notin R => u[r] = 0
    BY <1>1, <1>3, <2>2, TakingIs
  <2> QED BY <1>1, <2>1, <2>2, <2>3, Powers
<1>5. zero \in [Symbols -> Nat] /\ \A r \in Symbols : zero[r] = 0
  OBVIOUS
<1> HIDE DEF u, zero, R, s, z
<1>6. Total(zero) = 0
  BY <1>5, TotalNone
<1>7. Total(u) = Total(zero) + z
  <2>1. u[s] = zero[s] + z /\ \A r \in Symbols \ {s} : u[r] = zero[r]
    BY <1>1, <1>4, <1>5
  <2>2. zero \in [Symbols -> Nat] /\ u \in [Symbols -> Nat] /\ z \in Nat /\ s \in Symbols
    BY <1>1, <1>4, <1>5
  <2> QED BY <2>1, <2>2, TotalAdd
<1>8. Admits(R, Y, Never)
  <2>1. Total(u) <= z
    BY <1>4, <1>6, <1>7
  <2> QED BY <1>3, <2>1 DEF Admits, u, z
<1>9. \A r \in R : Never[r] + x[r] <= o
  <2>1. x[s] <= o /\ x[s] \in Nat
    <3>1. trees[1] \in Trees
      <4>1. 1 \in 1 .. Len(trees)
        OBVIOUS
      <4> QED BY <4>1, TreeOf
    <3>2. trees[1].width \in Nat
      BY <3>1 DEF Trees
    <3> QED BY <1>1, <3>2
  <2> QED BY <1>2, <1>3, <2>1
<1>10. ASSUME NEW d, Admits(R, Y, d) PROVE Weigh(w, Never) <= Weigh(w, d)
  <2>1. d \in [Symbols -> Nat]
    <3>1. d \in [Symbols -> 0 .. Y]
      BY <1>10 DEF Admits
    <3> QED BY <1>1, <3>1
  <2>2. Weigh(w, d) \in Nat /\ Weigh(w, Never) = 0
    BY <1>1, <2>1, WeighIs, WeighNone
  <2> QED BY <2>2
<1> QED BY <1>8, <1>9, <1>10 DEF Fitted, R

(* The lightest tree taken out: the symbol that it stands for, no longer   *)
(* counted, is none that weighs more than another.                         *)
TakenOut(trees, R, w, x, a, v, more) ==
  /\ a \in R /\ a \in Symbols /\ \A s \in R : w[a] <= w[s]
  /\ w[a] = trees[Lightest(trees)].weight /\ x[a] = trees[Lightest(trees)].width
  /\ v \in [Symbols -> Nat] /\ v[a] = 0 /\ \A s \in Symbols : s # a => v[s] = w[s]
  /\ Represents(more, v, x, RemoveAt(trees, Lightest(trees)))
  /\ Leading(more, Len(trees) - 1) = R \ {a}

LEMMA LightestOut ==
  ASSUME NEW trees \in Seq(Trees), Len(trees) >= 1,
         NEW rep, NEW w, NEW x, Represents(rep, w, x, trees)
  PROVE  /\ Lightest(trees) \in 1 .. Len(trees)
         /\ \E a, v, more : TakenOut(trees, Leading(rep, Len(trees)), w, x, a, v, more)
<1> DEFINE L == Len(trees)
           i == Lightest(trees)
           R == Leading(rep, L)
           a == rep[i]
           v == [s \in Symbols |-> IF s = a THEN 0 ELSE w[s]]
           more == RemoveAt(rep, i)
<1>1. /\ w \in [Symbols -> Nat] /\ rep \in Seq(Symbols) /\ Len(rep) = L
      /\ \A k \in 1 .. L : w[rep[k]] = trees[k].weight /\ x[rep[k]] = trees[k].width
  BY DEF Represents
<1>2. i \in 1 .. L /\ \A k \in 1 .. L : ~ Lighter(trees[k], trees[i])
  BY LightestIs
<1>3. \A k \in 1 .. L : rep[k] \in Symbols /\ trees[k].weight \in Nat
  <2>1. \A k \in 1 .. L : trees[k] \in Trees
    BY TreeOf
  <2>2. \A tree \in Trees : tree.weight \in Nat
    BY DEF Trees
  <2>3. \A k \in 1 .. L : rep[k] \in Symbols
    <3> HIDE DEF L
    <3> QED BY <1>1
  <2> QED BY <2>1, <2>2, <2>3
<1> HIDE DEF i, L
<1>4. a \in R /\ a \in Symbols /\ w[a] = trees[i].weight /\ x[a] = trees[i].width
  BY <1>1, <1>2, <1>3 DEF Leading
<1>5. ASSUME NEW s \in R PROVE w[a] <= w[s]
  <2>1. PICK k \in 1 .. L : s = rep[k]
    BY DEF Leading
  <2>2. w[s] = trees[k].weight /\ trees[k].weight \in Nat /\ trees[i].weight \in Nat
    BY <1>1, <1>2, <1>3, <2>1
  <2>3. ~ (trees[k].weight < trees[i].weight)
    BY <1>2, <2>1 DEF Lighter
  <2> QED BY <1>4, <2>2, <2>3
<1>6. v \in [Symbols -> Nat] /\ v[a] = 0 /\ \A s \in Symbols : s # a => v[s] = w[s]
  BY <1>1, <1>4
<1> HIDE DEF v
<1>7. /\ Represents(more, v, x, RemoveAt(trees, i))
      /\ Leading(more, L - 1) = R \ {a}
  <2>1. /\ Represents(RemoveAt(rep, i), v, x, RemoveAt(trees, i))
        /\ Leading(RemoveAt(rep, i), Len(trees) - 1) = Leading(rep, Len(trees)) \ {rep[i]}
    <3>1. i \in 1 .. Len(trees)
      BY <1>2 DEF L
    <3> QED BY <1>6, <3>1, RemovedRepresents
  <2> QED BY <2>1 DEF L
<1>8. TakenOut(trees, R, w, x, a, v, more)
  BY <1>4, <1>5, <1>6, <1>7 DEF TakenOut, i, L
<1>9. i \in 1 .. Len(trees)
  BY <1>2 DEF L
<1> QED BY <1>8, <1>9 DEF i, L

LEMMA JoinRooted ==
  ASSUME NEW trees \in Seq(Trees), Len(trees) >= 2, NEW Y \in 1 .. MAX_BITS, NEW o \in 0 .. Y
  PROVE  /\ Len(JoinLightest(trees)) = Len(trees) - 1
         /\ Rooted(JoinLightest(trees), Y, o) => Rooted(trees, Y, o)
<1> DEFINE L == Len(trees)
           i == Lightest(trees)
           others == RemoveAt(trees, i)
           j == Lightest(others)
           last == RemoveAt(others, j)
           p == trees[i]
           q == others[j]
           c == Joined(p, q)
           out == Append(last, c)
<1>1. L \in Nat /\ L >= 2
  OBVIOUS
<1>2. i \in 1 .. L
  BY <1>1, LightestIs
<1>3. JoinLightest(trees) = out
  <2>1. ~ (Len(trees) < 2)
    BY <1>1
  <2> QED BY <2>1 DEF JoinLightest
<1>4. others \in Seq(Trees) /\ Len(others) = L - 1
  <2> HIDE DEF i
  <2> QED BY <1>2, RemovedIs
<1>5. p \in Trees
  <2> HIDE DEF i
  <2> QED BY <1>2, TreeOf
<1> HIDE DEF others
<1>6. j \in 1 .. Len(others)
  BY <1>1, <1>4, LightestIs
<1> HIDE DEF j
<1>7. last \in Seq(Trees) /\ Len(last) = L - 2
  <2>1. last \in Seq(Trees) /\ Len(last) = Len(others) - 1
    BY <1>4, <1>6, RemovedIs
  <2> QED BY <1>1, <1>4, <2>1
<1>8. q \in Trees
  BY <1>4, <1>6, TreeOf
<1> HIDE DEF p, q
<1>9. /\ p.weight \in Nat /\ q.weight \in Nat /\ p.width \in Nat /\ q.width \in Nat
      /\ c \in Trees /\ c.weight = p.weight + q.weight
      /\ c.width = 1 + Max({p.width, q.width})
  <2>1. p.weight \in Nat /\ q.weight \in Nat /\ p.width \in Nat /\ q.width \in Nat
    BY <1>5, <1>8 DEF Trees
  <2>2. Max({p.width, q.width}) \in Nat
    BY <2>1, GreatestOfTwo
  <2>3. p.weight + q.weight \in Nat /\ 1 + Max({p.width, q.width}) \in Nat
    BY <2>1, <2>2
  <2> QED BY <2>1, <2>3 DEF Joined, Trees
<1> HIDE DEF c, last
<1>10. Len(out) = L - 1 /\ Len(last) + 1 = L - 1
  <2> HIDE DEF L
  <2> QED BY <1>1, <1>7
<1>11. ASSUME Rooted(out, Y, o), NEW rep, NEW w, NEW x, Represents(rep, w, x, trees)
       PROVE  Fitted(Leading(rep, L), w, x, Y, o)
  <2> DEFINE R == Leading(rep, L)
  <2>1. PICK a, w1, rep1 : TakenOut(trees, R, w, x, a, w1, rep1)
    BY <1>1, <1>11, LightestOut
  <2>2. /\ w \in [Symbols -> Nat] /\ x \in [Symbols -> Nat]
    BY <1>11 DEF Represents
  <2>3. /\ a \in R /\ a \in Symbols /\ \A s \in R : w[a] <= w[s]
        /\ w[a] = p.weight /\ x[a] = p.width
        /\ \A s \in Symbols : s # a => w1[s] = w[s]
        /\ Represents(rep1, w1, x, others)
        /\ Leading(rep1, Len(others)) = R \ {a}
    BY <1>4, <2>1 DEF TakenOut, p, others, L
  <2>4. PICK b, w2, rep2 : TakenOut(others, R \ {a}, w1, x, b, w2, rep2)
    <3>1. Len(others) >= 1
      BY <1>1, <1>4
    <3>2. \E b, w2, rep2 : TakenOut(others, Leading(rep1, Len(others)), w1, x, b, w2, rep2)
      BY <1>4, <2>3, <3>1, LightestOut
    <3> QED BY <2>3, <3>2
  <2>5. /\ b \in R \ {a} /\ b \in Symbols /\ \A s \in R \ {a} : w1[b] <= w1[s]
        /\ w1[b] = q.weight /\ x[b] = q.width
        /\ w2 \in [Symbols -> Nat] /\ w2[b] = 0
        /\ \A s \in Symbols : s # b => w2[s] = w1[s]
        /\ Represents(rep2, w2, x, last)
        /\ Leading(rep2, Len(others) - 1) = (R \ {a}) \ {b}
    BY <2>4 DEF TakenOut, q, j, last
  <2>6. Leading(rep2, Len(last)) = (R \ {a}) \ {b}
    <3>1. Len(last) = Len(others) - 1
      BY <1>1, <1>4, <1>7
    <3> QED BY <2>5, <3>1
  <2>7. R \in SUBSET Symbols
    <3>1. \A k \in 1 .. L : rep[k] \in Symbols
      <4>1. rep \in Seq(Symbols) /\ Len(rep) = L
        BY <1>11 DEF Represents
      <4> HIDE DEF L
      <4> QED BY <4>1
    <3> QED BY <3>1 DEF Leading
  <2> HIDE DEF R
  <2>8. a # b /\ a \in R /\ b \in R /\ w[b] = q.weight
        /\ \A s \in R \ {a} : w[b] <= w[s]
    BY <2>3, <2>5, <2>7
  <2> DEFINE v == [s \in Symbols |-> IF s = a THEN w[a] + w[b] ELSE IF s = b THEN 0 ELSE w[s]]
             z == [s \in Symbols |-> IF s = a THEN 1 + Max({x[a], x[b]}) ELSE x[s]]
             rep3 == Append(rep2, a)
  <2>9. /\ v \in [Symbols -> Nat] /\ v[a] = w[a] + w[b] /\ v[b] = 0
        /\ \A s \in Symbols \ {a, b} : v[s] = w[s]
    <3>1. w[a] \in Nat /\ w[b] \in Nat
      BY <2>2, <2>3, <2>5
    <3>2. w[a] + w[b] \in Nat
      BY <3>1
    <3> QED BY <2>2, <2>3, <2>5, <2>8, <3>2
  <2>10. /\ z \in [Symbols -> Nat] /\ z[a] = 1 + Max({x[a], x[b]})
         /\ \A s \in Symbols : s # a => z[s] = x[s]
    <3> DEFINE y == 1 + Max({x[a], x[b]})
    <3>1. y \in Nat
      <4>1. y = c.width /\ c.width \in Nat
        BY <1>9, <2>3, <2>5 DEF Trees
      <4> QED BY <4>1
    <3> HIDE DEF y
    <3>2. z = [s \in Symbols |-> IF s = a THEN y ELSE x[s]]
      BY Zenon DEF y
    <3> HIDE DEF z
    <3>3. z \in [Symbols -> Nat] /\ z[a] = y /\ \A s \in Symbols : s # a => z[s] = x[s]
      BY <2>2, <2>3, <3>1, <3>2
    <3> QED BY <3>3 DEF y
  <2> HIDE DEF v, z
  <2>11. /\ v[a] = c.weight /\ z[a] = c.width
         /\ \A u \in Symbols : u # a => v[u] = w2[u] /\ z[u] = x[u]
    <3>1. v[a] = c.weight /\ z[a] = c.width
      BY <1>9, <2>3, <2>5, <2>8, <2>9, <2>10
    <3>2. ASSUME NEW u \in Symbols, u # a PROVE v[u] = w2[u]
      <4>1. CASE u = b
        BY <2>5, <2>9, <4>1
      <4>2. CASE u # b
        BY <2>3, <2>5, <2>9, <3>2, <4>2
      <4> QED BY <4>1, <4>2
    <3> QED BY <2>10, <3>1, <3>2
  <2>12. a \notin Leading(rep2, Len(last))
    BY <2>6
  <2>13. /\ Represents(rep3, v, z, out)
         /\ Leading(rep3, Len(last) + 1) = Leading(rep2, Len(last)) \cup {a}
    <3>1. /\ Represents(rep2, w2, x, last) /\ a \in Symbols
          /\ v \in [Symbols -> Nat] /\ z \in [Symbols -> Nat]
      BY <2>3, <2>5, <2>9, <2>10
    <3>2. Attaches(last, rep2, w2, x, a, c, v, z)
      BY <1>7, <1>9, <2>11, <2>12, <3>1 DEF Attaches
    <3> QED BY <3>2, AppendedRepresents
  <2>14. Leading(rep3, Len(out)) = R \ {b}
    <3>1. ((R \ {a}) \ {b}) \cup {a} = R \ {b}
      BY <2>8
    <3>2. Len(out) = Len(last) + 1
      BY <1>10
    <3> QED BY <2>6, <2>13, <3>1, <3>2
  <2> HIDE DEF rep3
  <2>15. Fitted(R \ {b}, v, z, Y, o)
    <3> HIDE DEF out
    <3>1. Fitted(Leading(rep3, Len(out)), v, z, Y, o)
      BY <1>11, <2>13 DEF Rooted
    <3> QED BY <2>14, <3>1
  <2>16. Joins(w, v, R, a, b)
    BY <2>2, <2>7, <2>8, <2>9 DEF Joins
  <2>17. \A s \in Symbols \ {a, b} : z[s] = x[s]
    BY <2>10
  <2>18. Fitted(R, w, x, Y, o)
    <3>1. Joinable(R, w, x, v, z, a, b)
      BY <2>2, <2>3, <2>8, <2>10, <2>16, <2>17 DEF Joinable
    <3> QED BY <2>15, <3>1, FittedJoined
  <2> QED BY <2>18 DEF R
<1>12. Rooted(out, Y, o) => Rooted(trees, Y, o)
  BY <1>11 DEF Rooted
<1> HIDE DEF out
<1> QED BY <1>3, <1>10, <1>12

LEMMA HeapRooted ==
  ASSUME NEW source \in Seq(Nodes), Len(source) >= 1, NEW g, Heap(g, source),
         NEW Y \in 1 .. MAX_BITS, NEW o \in 0 .. Y
  PROVE  LET n == Len(source)
         IN  /\ g[0] \in Seq(Trees) /\ Len(g[0]) = n
             /\ \A i \in 1 .. n : g[0][i].weight = source[i].weight /\ g[0][i].width = 0
             /\ g[n] # << >>
             /\ g[n][1].width <= o => Rooted(g[0], Y, o)
<1> DEFINE n == Len(source)
<1>1. /\ n \in Nat /\ n >= 1 /\ n \in 1 .. n /\ n - 1 \in 0 .. n /\ n \in 0 .. n /\ 0 \in 0 .. n
      /\ n - 1 \in 0 .. n - 1 /\ n - 1 \in Nat /\ 0 \in 0 .. n - 1 /\ DOMAIN source = 1 .. n
  OBVIOUS
<1>2. /\ g[0] = [i \in 1 .. n |-> [weight |-> source[i].weight, width |-> 0]]
      /\ \A k \in 0 .. n : g[k] \in Seq(Trees)
      /\ \A k \in 1 .. n : g[k] = JoinLightest(g[k - 1])
  <2>1. DOMAIN source = 1 .. n
    BY <1>1
  <2> HIDE DEF n
  <2>2. /\ g[0] = [i \in DOMAIN source |-> [weight |-> source[i].weight, width |-> 0]]
        /\ \A k \in 0 .. n : g[k] \in Seq(Trees)
        /\ \A k \in 1 .. n : g[k] = JoinLightest(g[k - 1])
    BY Zenon DEF Heap, n
  <2> QED BY <2>1, <2>2
<1> DEFINE t == [i \in 1 .. n |-> [weight |-> source[i].weight, width |-> 0]]
<1>3. DOMAIN t = 1 .. n /\ \A i \in 1 .. n : t[i].weight = source[i].weight /\ t[i].width = 0
  OBVIOUS
<1> HIDE DEF n
<1>4. g[0] = t /\ t \in Seq(Trees)
  BY <1>1, <1>2
<1> HIDE DEF t
<1>5. Len(t) = n
  <2> DEFINE l == Len(t)
  <2>1. l \in Nat /\ DOMAIN t = 1 .. l
    BY <1>4
  <2> HIDE DEF l
  <2>2. 1 .. l = 1 .. n
    BY <1>3, <2>1
  <2>3. (l = 0 \/ l \in 1 .. l) /\ (n = 0 \/ n \in 1 .. n)
    BY <1>1, <2>1
  <2>4. (l = 0 \/ l \in 1 .. n) /\ (n = 0 \/ n \in 1 .. l)
    BY <2>2, <2>3
  <2>5. l = n
    BY <1>1, <2>1, <2>4
  <2> QED BY <2>5 DEF l
<1> DEFINE S == {k \in 0 .. n - 1 : Len(g[k]) = n - k}
<1>6. \A k \in 0 .. n - 1 : Len(g[k]) = n - k
  <2>1. 0 \in S
    <3>1. n - 0 = n
      BY <1>1
    <3> QED BY <1>1, <1>4, <1>5, <3>1
  <2>2. ASSUME NEW k \in 1 .. n - 1, k - 1 \in S PROVE k \in S
    <3> DEFINE j == k - 1
    <3>1. j \in 0 .. n /\ k \in 1 .. n /\ k \in 0 .. n - 1 /\ n - j >= 2 /\ (n - j) - 1 = n - k
      BY <1>1
    <3>2. g[k] = JoinLightest(g[j]) /\ g[j] \in Seq(Trees) /\ Len(g[j]) = n - j
      BY <1>2, <2>2, <3>1
    <3> HIDE DEF j
    <3>3. Len(JoinLightest(g[j])) = Len(g[j]) - 1
      <4>1. Len(g[j]) >= 2
        BY <3>1, <3>2
      <4>2. MAX_BITS \in 1 .. MAX_BITS /\ 0 \in 0 .. MAX_BITS
        BY DEF MAX_BITS
      <4> QED BY <3>2, <4>1, <4>2, JoinRooted
    <3> QED BY <3>1, <3>2, <3>3
  <2> HIDE DEF S
  <2>3. \A k \in 0 .. n - 1 : k \in S
    BY <1>1, <2>1, <2>2, UpTo
  <2> QED BY <2>3 DEF S
<1> HIDE DEF S
<1> DEFINE top == g[n]
<1>7. Len(top) = 1 /\ top \in Seq(Trees) /\ top = g[n - 1] /\ top # << >>
  <2>1. n - (n - 1) = 1
    BY <1>1
  <2>2. Len(g[n - 1]) = 1
    BY <1>1, <1>6, <2>1
  <2>3. top = JoinLightest(g[n - 1])
    BY <1>1, <1>2
  <2>4. top = g[n - 1]
    BY <2>2, <2>3 DEF JoinLightest
  <2>5. top # << >>
    <3> SUFFICES ASSUME top = << >> PROVE FALSE
      OBVIOUS
    <3>1. Len(<< >>) = 0 /\ 1 # 0
      OBVIOUS
    <3>2. Len(top) = 1
      BY <2>2, <2>4
    <3>3. Len(top) = Len(<< >>)
      OBVIOUS
    <3> QED BY <3>1, <3>2, <3>3
  <2> HIDE DEF top
  <2> QED BY <1>1, <1>2, <2>2, <2>4, <2>5 DEF top
<1>8. ASSUME top[1].width <= o PROVE Rooted(g[0], Y, o)
  <2> DEFINE At(k) == (n - 1) - k
             U == {k \in 0 .. n - 1 : Rooted(g[At(k)], Y, o)}
  <2>1. 0 \in U
    <3>1. At(0) = n - 1
      BY <1>1
    <3>2. Rooted(top, Y, o)
      <4> HIDE DEF top
      <4> QED BY <1>7, <1>8, OneRooted
    <3> QED BY <1>1, <1>7, <3>1, <3>2
  <2>2. ASSUME NEW k \in 1 .. n - 1, k - 1 \in U PROVE k \in U
    <3> DEFINE j == At(k)
               i == j + 1
    <3>1. /\ j \in 0 .. n - 1 /\ j \in 0 .. n /\ i \in 1 .. n /\ i - 1 = j /\ k \in 0 .. n - 1
          /\ At(k - 1) = i /\ n - j >= 2
      BY <1>1
    <3>2. g[j] \in Seq(Trees) /\ Len(g[j]) = n - j /\ g[i] = JoinLightest(g[j])
      BY <1>2, <1>6, <3>1
    <3>3. Rooted(g[i], Y, o)
      BY <2>2, <3>1
    <3>4. Len(g[j]) >= 2
      BY <3>1, <3>2
    <3> HIDE DEF i, j
    <3>5. Rooted(g[j], Y, o)
      BY <3>2, <3>3, <3>4, JoinRooted
    <3> QED BY <3>1, <3>5 DEF j
  <2> HIDE DEF U
  <2>3. \A k \in 0 .. n - 1 : k \in U
    BY <1>1, <2>1, <2>2, UpTo
  <2>4. At(n - 1) = 0
    BY <1>1
  <2>5. Rooted(g[At(n - 1)], Y, o)
    BY <1>1, <2>3 DEF U
  <2> QED BY <2>4, <2>5
<1>9. \A i \in 1 .. n : g[0][i].weight = source[i].weight /\ g[0][i].width = 0
  BY <1>3, <1>4
<1> QED BY <1>4, <1>5, <1>7, <1>8, <1>9 DEF n

(* Of the codes for which there is place, some that costs no more than any *)
(* other is no wider than the ordinary one.                                *)
LEMMA OrdinaryFits ==
  ASSUME NEW f \in [Symbols -> Nat], NEW source, NEW sorted, Sorted(source, sorted),
         Honest(f, source, sorted), Len(source) >= 1,
         \A s \in Symbols : s \notin Leading(sorted, Len(source)) => f[s] = 0,
         NEW Y \in 1 .. MAX_BITS, ordinary_huffman_optimal_max_bitwidth(source) <= Y
  PROVE  Fitted(Leading(sorted, Len(source)), f, Never, Y,
                ordinary_huffman_optimal_max_bitwidth(source))
<1> DEFINE n == Len(source)
           o == ordinary_huffman_optimal_max_bitwidth(source)
           rep == [i \in 1 .. n |-> sorted[i]]
           D == Leading(sorted, n)
<1>1. /\ source \in Seq(Nodes) /\ \A i \in 1 .. n : sorted[i] \in Symbols
      /\ \A i, j \in 1 .. n : sorted[i] = sorted[j] => i = j
  BY DEF Sorted
<1>2. PICK g : /\ Heap(g, source)
               /\ o = IF g[n] = << >> THEN 1 ELSE Max({1, g[n][1].width})
  BY <1>1, HeapExists
<1>3. o \in Nat \ {0} /\ o \in 0 .. Y
  <2>1. o \in Nat \ {0}
    BY <1>1, OptimalType
  <2> HIDE DEF o
  <2>2. o <= Y /\ Y \in Nat
    BY DEF o, MAX_BITS
  <2> QED BY <2>1, <2>2
<1>4. n \in Nat /\ n >= 1 /\ n \in 0 .. n
  BY <1>1
<1> HIDE DEF o
<1>5. /\ g[0] \in Seq(Trees) /\ Len(g[0]) = n
      /\ \A i \in 1 .. n : g[0][i].weight = source[i].weight /\ g[0][i].width = 0
      /\ g[n] # << >>
      /\ g[n][1].width <= o => Rooted(g[0], Y, o)
  BY <1>1, <1>2, <1>3, HeapRooted
<1>6. g[n][1].width <= o
  <2> DEFINE y == g[n][1].width
  <2>1. y \in Nat
    <3>1. g[n] \in Seq(Trees)
      BY <1>2, <1>4 DEF Heap
    <3>2. Len(g[n]) \in Nat /\ (Len(g[n]) = 0 => g[n] = << >>)
      BY <3>1
    <3>3. 1 \in 1 .. Len(g[n])
      BY <1>5, <3>2
    <3>4. g[n][1] \in Trees
      BY <3>1, <3>3, TreeOf
    <3> QED BY <3>4 DEF Trees
  <2>2. o = Max({1, y})
    BY <1>2, <1>5
  <2> HIDE DEF y
  <2>3. y <= o
    BY <2>1, <2>2, GreatestOfTwo
  <2> QED BY <2>3 DEF y
<1> HIDE DEF n
<1>7. rep \in Seq(Symbols) /\ Len(rep) = n /\ \A i \in 1 .. n : rep[i] = sorted[i]
  BY <1>1, <1>4
<1> HIDE DEF rep
<1>8. Leading(rep, n) = D
  BY <1>7 DEF Leading
<1>9. Never \in [Symbols -> Nat] /\ \A s \in Symbols : Never[s] = 0
  BY DEF Never
<1>10. Represents(rep, f, Never, g[0])
  <2>1. \A i \in 1 .. n : f[rep[i]] = g[0][i].weight
    BY <1>5, <1>7 DEF Honest, n
  <2>2. \A i \in 1 .. n : Never[rep[i]] = g[0][i].width
    BY <1>1, <1>5, <1>7, <1>9
  <2>3. \A s \in Symbols : s \notin Leading(rep, n) => f[s] = 0
    BY <1>8 DEF n
  <2>4. \A i, j \in 1 .. n : rep[i] = rep[j] => i = j
    BY <1>1, <1>7
  <2> HIDE DEF D
  <2> QED BY <1>5, <1>7, <1>9, <2>1, <2>2, <2>3, <2>4 DEF Represents
<1>11. Fitted(Leading(rep, n), f, Never, Y, o)
  <2>1. Rooted(g[0], Y, o)
    BY <1>5, <1>6
  <2> QED BY <1>5, <1>10, <2>1 DEF Rooted
<1> QED BY <1>8, <1>11 DEF n, o

(* Made for more bits than any of them has, codes fit fewer as well.       *)
LEMMA Narrowed ==
  ASSUME NEW o \in 1 .. MAX_BITS, NEW Y \in o .. MAX_BITS, NEW R, NEW e, Admits(R, Y, e),
         \A s \in Symbols : s \in R => e[s] <= o,
         NEW v \in [Symbols -> 0 .. o], \A s \in Symbols : s \in R => v[s] = e[s]
  PROVE  Admits(R, o, v)
<1> DEFINE i == Y - o
           c == Two(i)
           p == Taking(R, Y, e)
           q == Taking(R, o, v)
<1>1. /\ o \in 0 .. MAX_BITS /\ Y \in 0 .. MAX_BITS /\ i \in 0 .. MAX_BITS
      /\ i + o = Y /\ o \in 0 .. MAX_BITS - i
  BY DEF MAX_BITS
<1>2. e \in [Symbols -> 0 .. Y] /\ Total(p) <= Two(Y)
  BY DEF Admits
<1>3. /\ p \in [Symbols -> Nat] /\ q \in [Symbols -> Nat]
      /\ \A s \in Symbols : s \in R => p[s] = Two(Y - e[s])
      /\ \A s \in Symbols : s \notin R => p[s] = 0
      /\ \A s \in Symbols : s \in R => q[s] = Two(o - v[s])
      /\ \A s \in Symbols : s \notin R => q[s] = 0
  BY <1>1, <1>2, TakingIs
<1> HIDE DEF i
<1>4. c \in Nat \ {0} /\ Two(Y) = c * Two(o) /\ Two(o) \in Nat
  <2>1. Two(i + o) = Two(i) * Two(o)
    BY <1>1, PowerSum
  <2> QED BY <1>1, <2>1, Powers
<1>5. ASSUME NEW s \in Symbols PROVE p[s] = c * q[s]
  <2>1. CASE s \in R
    <3> DEFINE k == o - v[s]
    <3>1. v[s] \in 0 .. o /\ v[s] = e[s]
      BY <2>1
    <3>2. k \in 0 .. MAX_BITS - i /\ k \in 0 .. MAX_BITS /\ Y - e[s] = i + k
      BY <1>1, <3>1 DEF MAX_BITS
    <3>3. p[s] = Two(Y - e[s]) /\ q[s] = Two(k)
      BY <1>3, <2>1
    <3> HIDE DEF k
    <3>4. Two(i + k) = Two(i) * Two(k)
      BY <1>1, <3>2, PowerSum
    <3> QED BY <3>2, <3>3, <3>4
  <2>2. CASE s \notin R
    <3>1. p[s] = 0 /\ q[s] = 0
      BY <1>3, <2>2
    <3> QED BY <1>4, <3>1
  <2> QED BY <2>1, <2>2
<1> HIDE DEF p, q, c
<1>6. Total(p) = c * Total(q) /\ Total(q) \in Nat
  <2>1. p = [s \in Symbols |-> p[s]]
    BY <1>3
  <2>2. p = [s \in Symbols |-> c * q[s]]
    BY <1>5, <2>1
  <2>3. Total([s \in Symbols |-> c * q[s]]) = c * Total(q)
    BY <1>3, <1>4, TotalTimes
  <2>4. Total(q) \in Nat
    BY <1>3, TotalPlus
  <2> QED BY <2>2, <2>3, <2>4
<1>7. Total(q) <= Two(o)
  <2> DEFINE a == Total(q)
             b == Two(o)
  <2>1. a \in Nat /\ b \in Nat /\ c * a <= c * b
    BY <1>2, <1>4, <1>6
  <2> HIDE DEF a, b
  <2>2. a <= b
    BY <1>4, <2>1, Cancelled
  <2> QED BY <2>2 DEF a, b
<1> QED BY <1>7 DEF Admits, q

(* What package-merge makes costs no more than any code of this width.     *)
LEMMA MadeCostLeast ==
  ASSUME NEW f \in [Symbols -> Nat], NEW source, NEW sorted, Sorted(source, sorted),
         Honest(f, source, sorted), Len(source) >= 2,
         NEW m \in 1 .. MAX_BITS, Len(source) <= Two(m), NEW g, Weighting(g, source, m),
         NEW v, Admits(Leading(sorted, Len(source)), m, v),
         \A s \in Symbols : s \notin Leading(sorted, Len(source)) => v[s] = 0
  PROVE  Weigh(f, Contents(package(g[m - 1]))) <= Weigh(f, v)
<1> DEFINE n == Len(source)
           D == Leading(sorted, n)
           y == Two(m)
           p == Total(Taking(D, m, v))
           q == Total(Spared(m, v))
<1>1. n \in Nat /\ n >= 2 /\ m \in 0 .. MAX_BITS
  BY DEF Sorted, MAX_BITS
<1>2. v \in [Symbols -> 0 .. m] /\ p <= y
  BY DEF Admits
<1>3. p + q = n * y /\ p \in Nat
  <2>1. \A s \in Symbols \ D : v[s] = 0
    OBVIOUS
  <2> QED BY <1>2, <2>1, TakenAndSpared
<1>4. y \in Nat /\ q \in Nat
  <2>1. Spared(m, v) \in [Symbols -> Nat]
    BY <1>1, <1>2, SparedIs
  <2> QED BY <1>1, <2>1, Powers, TotalPlus
<1>5. (n - 1) * y <= q
  <2> HIDE DEF n, y, p, q
  <2>1. n * y = (n - 1) * y + y /\ (n - 1) * y \in Nat
    BY <1>1, <1>4
  <2> QED BY <1>2, <1>3, <1>4, <2>1
<1>6. \A s \in Symbols : v[s] > 0 => s \in D
  <2> SUFFICES ASSUME NEW s \in Symbols, v[s] > 0, s \notin D PROVE FALSE
    OBVIOUS
  <2>1. v[s] = 0
    OBVIOUS
  <2> QED BY <2>1
<1> QED BY <1>2, <1>5, <1>6, PackageMergeIsLeast

(* So do the lengths made from frequencies cost no more than any within    *)
(* the limit: if they are made for fewer bits, then an ordinary code is    *)
(* within the limit.                                                       *)
LEMMA LengthsCostLeast ==
  ASSUME NEW f \in [Symbols -> Nat], NEW L \in 1 .. MAX_BITS,
         Cardinality(Used(f)) \in 2 .. Two(L), NEW d, Admits(Used(f), L, d),
         \A s \in Symbols : s \notin Used(f) => d[s] = 0
  PROVE  Weigh(f, length_limited_code_lengths(f, L)) <= Weigh(f, d)
<1> DEFINE source == Source(f)
           n == Len(source)
           o == ordinary_huffman_optimal_max_bitwidth(source)
           m == Min({L, o})
           l == length_limited_code_lengths(f, L)
           D == Used(f)
<1>1. PICK sorted : /\ Sorted(source, sorted) /\ Honest(f, source, sorted)
                    /\ Leading(sorted, n) = D
  BY SourceIsWhole
<1>2. l = package_merge_code_lengths(source, m)
  BY DEF length_limited_code_lengths
<1>3. /\ source \in Seq(Nodes) /\ n \in Nat /\ n >= 2 /\ n <= Two(L) /\ n >= 1
      /\ L \in 0 .. MAX_BITS /\ L \in 1 .. 15
  <2>1. L \in 0 .. MAX_BITS /\ L \in 1 .. 15
    BY DEF MAX_BITS
  <2>2. Two(L) \in Nat
    BY <2>1, Powers
  <2>3. n \in 2 .. Two(L)
    <3>1. n = Cardinality(D)
      BY SourceIsWhole
    <3> HIDE DEF n
    <3> QED BY <3>1
  <2>4. source \in Seq(Nodes)
    BY <1>1 DEF Sorted
  <2> HIDE DEF n
  <2> QED BY <2>1, <2>2, <2>3, <2>4
<1>4. /\ D \in SUBSET Symbols /\ \A s \in Symbols : s \notin D => f[s] = 0
      /\ d \in [Symbols -> 0 .. L] /\ d \in [Symbols -> Nat]
  <2>1. d \in [Symbols -> 0 .. L]
    BY DEF Admits
  <2>2. \A s \in Symbols : f[s] \in Nat
    OBVIOUS
  <2>3. D \in SUBSET Symbols /\ \A s \in Symbols : s \notin D => f[s] = 0
    BY <2>2 DEF Used
  <2> QED BY <1>3, <2>1, <2>3
<1> HIDE DEF source
<1>5. o \in Nat \ {0} /\ (o <= MAX_BITS => n <= Two(o))
  BY <1>3, OptimalIsEnough, OptimalType
<1> HIDE DEF o, l
<1>6. /\ m \in 1 .. L /\ m \in 1 .. MAX_BITS /\ m \in Nat \ {0} /\ m <= o
      /\ m = L \/ (m = o /\ o <= L /\ o \in 1 .. MAX_BITS /\ L \in o .. MAX_BITS)
      /\ n <= Two(m)
  <2>1. m \in Nat /\ m <= L /\ m <= o /\ m \in {L, o}
    BY <1>3, <1>5, LeastOfTwo
  <2> HIDE DEF m
  <2>2. n <= Two(m)
    <3>1. CASE m = L
      BY <1>3, <3>1
    <3>2. CASE m = o
      <4>1. o <= MAX_BITS
        BY <1>3, <2>1, <3>2 DEF MAX_BITS
      <4> QED BY <1>5, <3>2, <4>1
    <3> QED BY <2>1, <3>1, <3>2
  <2> HIDE DEF n
  <2> QED BY <1>3, <1>5, <2>1, <2>2 DEF MAX_BITS
<1> HIDE DEF m
<1>7. PICK g : /\ Weighting(g, source, m)
               /\ package_merge_code_lengths(source, m) = Contents(package(g[m - 1]))
  BY <1>3, <1>6, WeightingExists
<1>8. ASSUME NEW v, Admits(D, m, v), \A s \in Symbols : s \notin D => v[s] = 0
      PROVE  Weigh(f, l) <= Weigh(f, v)
  <2>1. /\ Admits(Leading(sorted, Len(source)), m, v)
        /\ \A s \in Symbols : s \notin Leading(sorted, Len(source)) => v[s] = 0
    BY <1>1, <1>8
  <2>2. Weigh(f, Contents(package(g[m - 1]))) <= Weigh(f, v)
    BY <1>1, <1>3, <1>6, <1>7, <2>1, MadeCostLeast
  <2> QED BY <1>2, <1>7, <2>2
<1>9. CASE m = L
  <2>1. Admits(D, m, d)
    BY <1>9
  <2> QED BY <1>8, <2>1 DEF l
<1>10. CASE m # L
  <2>1. m = o /\ o <= L /\ o \in 1 .. MAX_BITS /\ L \in o .. MAX_BITS
    BY <1>6, <1>10
  <2>2. Fitted(D, f, Never, L, o)
    <3>1. Fitted(Leading(sorted, Len(source)), f, Never, L,
                 ordinary_huffman_optimal_max_bitwidth(source))
      <4>1. \A s \in Symbols : s \notin Leading(sorted, Len(source)) => f[s] = 0
        BY <1>1, <1>4
      <4>2. ordinary_huffman_optimal_max_bitwidth(source) <= L
        BY <2>1 DEF o
      <4> QED BY <1>1, <1>3, <4>1, <4>2, OrdinaryFits
    <3> QED BY <1>1, <3>1 DEF o
  <2>3. PICK e : /\ Admits(D, L, e) /\ \A s \in D : e[s] + Never[s] <= o
                 /\ Weigh(f, e) <= Weigh(f, d)
    BY <2>2 DEF Fitted
  <2>4. e \in [Symbols -> 0 .. L] /\ \A s \in Symbols : s \in D => e[s] <= o
    <3>1. e \in [Symbols -> 0 .. L]
      BY <2>3 DEF Admits
    <3>2. ASSUME NEW s \in Symbols, s \in D PROVE e[s] <= o
      <4>1. e[s] \in 0 .. L /\ Never[s] = 0 /\ e[s] + Never[s] <= o
        BY <2>3, <3>1, <3>2 DEF Never
      <4> QED BY <1>3, <4>1
    <3> QED BY <3>1, <3>2
  <2> DEFINE v == [s \in Symbols |-> IF s \in D THEN e[s] ELSE 0]
  <2>5. /\ v \in [Symbols -> 0 .. o] /\ \A s \in Symbols : s \in D => v[s] = e[s]
        /\ \A s \in Symbols : s \notin D => v[s] = 0
    <3>1. ASSUME NEW s \in Symbols PROVE (IF s \in D THEN e[s] ELSE 0) \in 0 .. o
      <4>1. e[s] \in 0 .. L /\ (s \in D => e[s] <= o) /\ o \in Nat /\ L \in Nat
        BY <1>3, <1>5, <2>4
      <4> HIDE DEF D
      <4> QED BY <4>1
    <3> HIDE DEF D
    <3> QED BY <3>1
  <2> HIDE DEF v, D
  <2>6. Admits(D, o, v)
    BY <2>1, <2>3, <2>4, <2>5, Narrowed
  <2>7. Weigh(f, l) <= Weigh(f, v)
    BY <1>8, <2>1, <2>5, <2>6
  <2>8. Weigh(f, v) = Weigh(f, e)
    <3>1. ASSUME NEW s \in Symbols PROVE v[s] * f[s] = e[s] * f[s]
      <4>1. CASE s \in D
        BY <2>5, <4>1
      <4>2. CASE s \notin D
        <5>1. f[s] = 0 /\ v[s] \in 0 .. o /\ e[s] \in 0 .. L
          BY <1>4, <2>4, <2>5, <4>2
        <5>2. v[s] * 0 = 0 /\ e[s] * 0 = 0
          BY <1>3, <1>5, <5>1
        <5> QED BY <5>1, <5>2
      <4> QED BY <4>1, <4>2
    <3>2. [s \in Symbols |-> v[s] * f[s]] = [s \in Symbols |-> e[s] * f[s]]
      BY <3>1, Zenon
    <3> QED BY <3>2, Zenon DEF Weigh
  <2>9. Weigh(f, l) \in Nat /\ Weigh(f, e) \in Nat /\ Weigh(f, d) \in Nat
    <3>1. l \in [Symbols -> Nat]
      <4>1. L \in Nat \ {0}
        BY <1>3
      <4> QED BY <4>1, LengthsAre DEF l
    <3>2. e \in [Symbols -> Nat]
      BY <1>3, <2>4
    <3> QED BY <1>4, <3>1, <3>2, WeighIs
  <2> QED BY <2>3, <2>7, <2>8, <2>9 DEF l
<1> QED BY <1>9, <1>10

(* The cost, as the property states it.                                    *)
LEMMA CostIs ==
  ASSUME NEW f \in [Symbols -> Nat], NEW u \in [Symbols -> Nat]
  PROVE  Cost(u, f) = Weigh(f, u)
<1>1. ASSUME NEW s \in Symbols
      PROVE  (IF s \in Used(f) THEN u[s] * f[s] ELSE 0) = u[s] * f[s]
  <2>1. f[s] \in Nat /\ u[s] \in Nat
    OBVIOUS
  <2>2. CASE f[s] > 0
    BY <2>2 DEF Used
  <2>3. CASE f[s] = 0
    <3>1. u[s] * 0 = 0
      BY <2>1
    <3>2. s \notin Used(f)
      BY <2>3 DEF Used
    <3> QED BY <2>3, <3>1, <3>2
  <2> QED BY <2>1, <2>2, <2>3
<1>2. [s \in Symbols |-> IF s \in Used(f) THEN u[s] * f[s] ELSE 0]
        = [s \in Symbols |-> u[s] * f[s]]
  BY <1>1, Zenon
<1> QED BY <1>2, Zenon DEF Cost, Weigh

(* Whatever the frequencies and the limit are, if it leaves a code for     *)
(* each symbol that occurs.                                                *)
LEMMA CostIsLeast ==
  ASSUME NEW f \in [Symbols -> Nat], NEW L \in 1 .. MAX_BITS, Cardinality(Used(f)) <= Two(L),
         NEW l \in [Used(f) -> 1 .. L], Takes(Used(f), L, l) <= Two(L)
  PROVE  Cost(length_limited_code_lengths(f, L), f) <= Cost(l, f)
<1> DEFINE D == Used(f)
           k == length_limited_code_lengths(f, L)
           d == [s \in Symbols |-> IF s \in D THEN l[s] ELSE 0]
<1>1. L \in Nat \ {0} /\ L \in Nat /\ L \in 0 .. MAX_BITS
  BY DEF MAX_BITS
<1>2. k \in [Symbols -> Nat] /\ \A s \in Symbols : s \notin D => k[s] = 0
  BY <1>1, LengthsAre
<1>3. D \in SUBSET Symbols
  BY DEF Used
<1> HIDE DEF D, k
<1>4. \A s \in D : l[s] \in 1 .. L
  BY DEF D
<1>5. /\ d \in [Symbols -> 0 .. L] /\ d \in [Symbols -> Nat]
      /\ \A s \in Symbols : s \in D => d[s] = l[s]
      /\ \A s \in Symbols : s \notin D => d[s] = 0
  <2>1. ASSUME NEW s \in Symbols PROVE (IF s \in D THEN l[s] ELSE 0) \in 0 .. L
    BY <1>1, <1>4
  <2>2. d \in [Symbols -> 0 .. L]
    BY <2>1
  <2> QED BY <1>1, <2>2
<1> HIDE DEF d
<1>6. Cost(l, f) = Weigh(f, d) /\ Cost(k, f) = Weigh(f, k)
  <2>1. ASSUME NEW s \in Symbols
        PROVE  (IF s \in D THEN l[s] * f[s] ELSE 0) = (IF s \in D THEN d[s] * f[s] ELSE 0)
    BY <1>5
  <2>2. [s \in Symbols |-> IF s \in D THEN l[s] * f[s] ELSE 0]
          = [s \in Symbols |-> IF s \in D THEN d[s] * f[s] ELSE 0]
    BY <2>1, Zenon
  <2>3. Cost(l, f) = Cost(d, f)
    BY <2>2, Zenon DEF Cost, D
  <2> QED BY <1>2, <1>5, <2>3, CostIs
<1>7. Admits(D, L, d)
  <2>1. ASSUME NEW s \in Symbols
        PROVE  (IF s \in D THEN 2 ^ (L - l[s]) ELSE 0) = (IF s \in D THEN Two(L - d[s]) ELSE 0)
    BY <1>5 DEF Two
  <2>2. [s \in Symbols |-> IF s \in D THEN 2 ^ (L - l[s]) ELSE 0]
          = [s \in Symbols |-> IF s \in D THEN Two(L - d[s]) ELSE 0]
    BY <2>1, Zenon
  <2>3. Takes(D, L, l) = Total(Taking(D, L, d))
    BY <2>2, Zenon DEF Takes, Taking
  <2>4. Takes(D, L, l) <= Two(L)
    BY DEF D
  <2> QED BY <1>5, <2>3, <2>4 DEF Admits
<1>8. Weigh(f, k) \in Nat /\ Weigh(f, d) \in Nat
      /\ ((\A s \in Symbols : k[s] <= d[s]) => Weigh(f, k) <= Weigh(f, d))
  BY <1>2, <1>5, WeighIs
<1> DEFINE n == Cardinality(D)
<1>9. n \in Nat
  <2>1. Source(f) \in Seq(Nodes) /\ n = Len(Source(f))
    BY SourceIsWhole DEF Sorted, D
  <2> HIDE DEF n
  <2> QED BY <2>1
<1>10. n <= Two(L) /\ Two(L) \in Nat
  BY <1>1, Powers DEF D
<1> HIDE DEF n
<1>11. CASE n = 0
  <2>1. D = {}
    <3>1. IsFiniteSet(D)
      <4>1. IsFiniteSet(Symbols)
        BY HuffmanAssumption, FS_Interval DEF Symbols
      <4> QED BY <1>3, <4>1, FS_Subset
    <3> QED BY <1>11, <3>1, FS_EmptySet DEF n
  <2>2. \A s \in Symbols : k[s] <= d[s]
    <3>1. \A s \in Symbols : k[s] = 0 /\ d[s] = 0
      BY <1>2, <1>5, <2>1
    <3> QED BY <3>1
  <2> QED BY <1>6, <1>8, <2>2 DEF k
<1>12. CASE n = 1
  <2>1. Cardinality(Used(f)) \in 1 .. Two(L) /\ Len(Source(f)) = 1
    <3>1. Len(Source(f)) = n
      BY SourceIsWhole DEF n, D
    <3> QED BY <1>10, <1>12, <3>1 DEF n, D
  <2>2. PICK sorted, m, a, x :
               /\ Grown(sorted, m, k, a, x)
               /\ Len(Source(f)) = 1 => m = 1 /\ x = 1
    BY <2>1, LengthsGrow DEF k
  <2>3. k \in [Symbols -> 0 .. 1]
    BY <2>1, <2>2 DEF Grown
  <2>4. ASSUME NEW s \in Symbols PROVE k[s] <= d[s]
    <3>1. CASE s \in D
      <4>1. d[s] = l[s] /\ l[s] \in 1 .. L /\ k[s] \in 0 .. 1
        BY <1>4, <1>5, <2>3, <3>1
      <4> QED BY <1>1, <4>1
    <3>2. CASE s \notin D
      <4>1. k[s] = 0 /\ d[s] = 0
        BY <1>2, <1>5, <3>2
      <4> QED BY <4>1
    <3> QED BY <3>1, <3>2
  <2> QED BY <1>6, <1>8, <2>4 DEF k
<1>13. CASE n >= 2
  <2>1. Cardinality(Used(f)) \in 2 .. Two(L)
    BY <1>9, <1>10, <1>13 DEF n, D
  <2>2. Weigh(f, k) <= Weigh(f, d)
    <3>1. Admits(Used(f), L, d) /\ \A s \in Symbols : s \notin Used(f) => d[s] = 0
      BY <1>5, <1>7 DEF D
    <3> QED BY <2>1, <3>1, LengthsCostLeast DEF k
  <2> QED BY <1>6, <2>2 DEF k
<1> QED BY <1>9, <1>11, <1>12, <1>13
-----------------------------------------------------------------------------
LEMMA InitialLengths ==
  ASSUME HInit
  PROVE  lengths \in [Symbols -> Nat]
<1>1. CASE frequencies \in Frequencies /\ limit \in Limits
           /\ lengths = length_limited_code_lengths(frequencies, limit)
  <2>1. frequencies \in [Symbols -> Nat] /\ limit \in Nat \ {0}
    BY <1>1, HuffmanAssumption DEF MAX_BITS
  <2> QED BY <1>1, <2>1, LengthsAre
<1>2. CASE lengths \in Given
  BY <1>2, HuffmanAssumption
<1> QED BY <1>1, <1>2 DEF HInit

LEMMA HuffInvHolds == CodesSpec => []HuffInv
<1>1. CodesInit => HuffInv
  BY InitialLengths, HuffInit DEF CodesInit
<1>2. HuffInv /\ [CodesNext]_codesvars => HuffInv'
  BY HuffStep DEF CodesNext, codesvars
<1> QED BY <1>1, <1>2, PTL DEF CodesSpec

(* The table is made from any lengths that are those of a code, free        *)
(* places or not, and from no others.                                      *)
THEOREM RefusesWhatIsNoCode == CodesSpec => []RefusesNoCode
<1>1. HuffInv => RefusesNoCode
  BY CodesAreRight
<1> QED BY <1>1, HuffInvHolds, PTL

(* What is decoded is the symbol whose code, as the encoder numbers it,    *)
(* comes next, for every code, all bits that may follow it and any number  *)
(* of bits that may be looked at safely.                                   *)
THEOREM DecodesWhatIsWritten == CodesSpec => []DecodesTheCode
<1>1. HuffInv => DecodesTheCode
  BY CodesAreRight
<1> QED BY <1>1, HuffInvHolds, PTL

(* What the encoder writes its blocks with are codes: whatever the counted *)
(* frequencies and the limit are, each symbol that occurs and no other has *)
(* a code within the limit, no two codes clash and, with two symbols or    *)
(* more, no bits are left without a symbol.                                *)
CodesAreMade == frequencies # << >> => LengthsMakeACode

MadeInv == CodesAreMade /\ (frequencies # << >> => limit \in 1 .. MAX_BITS)

LEMMA MadeInvHolds == CodesSpec => []MadeInv
<1>1. HInit => MadeInv
  <2>1. ASSUME frequencies \in Frequencies, limit \in Limits,
               Cardinality(Used(frequencies)) <= 2 ^ limit,
               lengths = length_limited_code_lengths(frequencies, limit)
        PROVE  MadeInv
    <3>1. frequencies \in [Symbols -> Nat] /\ limit \in 1 .. MAX_BITS
      BY <2>1, HuffmanAssumption
    <3> QED BY <2>1, <3>1, CodeIsMade DEF MadeInv, CodesAreMade
  <2> QED BY <2>1 DEF HInit, MadeInv, CodesAreMade
<1>2. CodesInit => MadeInv
  BY <1>1 DEF CodesInit
<1>3. MadeInv /\ [CodesNext]_codesvars => MadeInv'
  <2>1. [CodesNext]_codesvars => UNCHANGED built
    BY DEF CodesNext, codesvars, hvars, HNext, AssignCode, BeginTable, FillEntry, Peek,
           FillDone, Decode
  <2>2. UNCHANGED built => (LengthsMakeACode' <=> LengthsMakeACode)
    BY DEF built, LengthsMakeACode, Used, max_bits, Kraft, Takes, Total
  <2> QED BY <2>1, <2>2 DEF MadeInv, CodesAreMade, built
<1> QED BY <1>2, <1>3, PTL DEF CodesSpec

THEOREM EncodersCodesAreCodes == CodesSpec => []CodesAreMade
<1>1. MadeInv => CodesAreMade
  BY DEF MadeInv
<1> QED BY <1>1, MadeInvHolds, PTL

(* The code lengths are never changed once they are made.                  *)
CodesAreCheap ==
  frequencies # << >> =>
    \A l \in [Used(frequencies) -> 1 .. limit] :
      Takes(Used(frequencies), limit, l) <= 2 ^ limit
        => Cost(lengths, frequencies) <= Cost(l, frequencies)

LEMMA CheapHolds == CodesSpec => []CodesAreCheap
<1>1. HInit => CodesAreCheap
  <2>1. ASSUME frequencies \in Frequencies, limit \in Limits,
               Cardinality(Used(frequencies)) <= 2 ^ limit,
               lengths = length_limited_code_lengths(frequencies, limit)
        PROVE  CodesAreCheap
    <3>1. /\ frequencies \in [Symbols -> Nat] /\ limit \in 1 .. MAX_BITS
          /\ Cardinality(Used(frequencies)) <= Two(limit)
      BY <2>1, HuffmanAssumption DEF Two
    <3>2. ASSUME NEW l \in [Used(frequencies) -> 1 .. limit],
                 Takes(Used(frequencies), limit, l) <= Two(limit)
          PROVE  Cost(length_limited_code_lengths(frequencies, limit), frequencies)
                   <= Cost(l, frequencies)
      BY <3>1, <3>2, CostIsLeast
    <3> QED BY <2>1, <3>2 DEF CodesAreCheap, Two
  <2> QED BY <2>1 DEF HInit, CodesAreCheap
<1>2. CodesInit => CodesAreCheap
  BY <1>1 DEF CodesInit
<1>3. CodesAreCheap /\ [CodesNext]_codesvars => CodesAreCheap'
  <2>1. [CodesNext]_codesvars => UNCHANGED built
    BY DEF CodesNext, codesvars, hvars, HNext, AssignCode, BeginTable, FillEntry, Peek,
           FillDone, Decode
  <2>2. ASSUME CodesAreCheap, UNCHANGED built PROVE CodesAreCheap'
    <3>1. frequencies' = frequencies /\ limit' = limit /\ lengths' = lengths
      BY <2>2 DEF built
    <3> QED BY <2>2, <3>1, Zenon DEF CodesAreCheap
  <2> QED BY <2>1, <2>2
<1> QED BY <1>2, <1>3, PTL DEF CodesSpec

(* No code is shorter: whatever the counted frequencies and the limit are, *)
(* the lengths are those of a code, and no code within the limit writes    *)
(* the symbols in fewer bits.                                              *)
THEOREM EncodersCodesAreOptimal == CodesSpec => []LengthsAreOptimal
<1>1. MadeInv /\ CodesAreCheap => LengthsAreOptimal
  BY DEF MadeInv, CodesAreMade, CodesAreCheap, LengthsAreOptimal
<1> QED BY <1>1, MadeInvHolds, CheapHolds, PTL

(* No decoder refuses a code the encoder makes, if any symbol occurs.      *)
NoneRefused ==
  (frequencies # << >> /\ Used(frequencies) # {}) => stage # "refused"

THEOREM EncodersCodesAreAccepted == CodesSpec => []NoneRefused
<1>1. HuffInv /\ MadeInv => NoneRefused
  <2> SUFFICES ASSUME HuffInv, MadeInv, frequencies # << >>,
                      Used(frequencies) # {}, stage = "refused"
               PROVE  FALSE
    BY DEF NoneRefused
  <2>1. LengthsMakeACode /\ limit \in 1 .. 15
    BY DEF MadeInv, CodesAreMade, MAX_BITS
  <2>2. lengths \in [Symbols -> Nat]
    BY DEF HuffInv
  <2>3. max_bits \in Nat /\ \A s \in Symbols : lengths[s] \in 0 .. max_bits
    BY <2>2, MaxExists
  <2>4. PICK s \in Symbols : lengths[s] > 0
    BY <2>1 DEF LengthsMakeACode, Used
  <2>5. max_bits # 0 /\ ~ (max_bits > MAX_BITS)
    <3>1. max_bits <= limit
      BY <2>1 DEF LengthsMakeACode
    <3> QED BY <2>1, <2>3, <2>4, <3>1 DEF MAX_BITS
  <2>6. Wide /\ Space(All) > Two(max_bits)
    BY <2>5 DEF HuffInv
  <2>7. Space(All) <= Two(max_bits)
    BY <2>1, <2>6, KraftIs DEF LengthsMakeACode, All, Two
  <2>8. Space(All) \in Nat /\ Two(max_bits) \in Nat
    BY <2>6, SpaceMonotone, Widest
  <2> QED BY <2>6, <2>7, <2>8
<1> QED BY <1>1, HuffInvHolds, MadeInvHolds, PTL
=============================================================================
