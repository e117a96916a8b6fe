------------------------------ MODULE Huffman ------------------------------
(***************************************************************************)
(* The Huffman codes of src/huffman.rs: how wide the codes of an alphabet  *)
(* are made, the codes the encoder writes, the table the decoder looks     *)
(* them up in, and the loop that decodes one symbol with it.               *)
(*                                                                         *)
(* A sequence of bits is a number, the first bit its lowest, as in the bit *)
(* buffers.  Recursive functions stand for the loops that make the code    *)
(* lengths; the numbering of the codes, the filling of the decoder's table *)
(* and the decoding are actions.                                           *)
(***************************************************************************)
EXTENDS Integers, Sequences, FiniteSetsExt, SequencesExt

MAX_BITS == 15

CONSTANTS
  N,            \* symbols of the alphabet: 0 .. N - 1
  Frequencies,  \* frequencies an encoder may have counted
  Limits,       \* values of max_bitwidth
  Given,        \* code lengths a stream may hold
  SafelyPeek    \* values of safely_peek_bits; 0 stands for None

Symbols == 0 .. N - 1
None    == N    \* no end-of-block symbol in this alphabet

ASSUME HuffmanAssumption ==
  /\ N \in Nat \ {0}
  /\ Frequencies \subseteq [Symbols -> Nat]
  /\ Limits \subseteq 1 .. MAX_BITS
  /\ Given \subseteq [Symbols -> Nat]
  /\ SafelyPeek \subseteq Nat

VARIABLES
  frequencies, limit,       \* what the code lengths were made from, or <<>>
  lengths,
  entries, code, previous,  \* the loop that numbers the codes
  encoder,                  \* codes of the HuffmanEncoder
  table, safely_peek_bits,
  bits, available,          \* the bits ahead of a reader, and how many
  peek_bits, reached,       \* the loop that decodes, the most it peeked at
  result, stage

built == <<frequencies, limit, lengths>>
filling == <<entries, code, previous, encoder, table, safely_peek_bits>>
reading == <<bits, available, peek_bits, reached, result>>
hvars == <<built, filling, reading, stage>>

Used(f) == {s \in Symbols : f[s] > 0}
max_bits == Max({lengths[s] : s \in Symbols})

(* The order of a stable sort by f of all symbols.                         *)
Earlier(f, s, t) == f[s] < f[t] \/ (f[s] = f[t] /\ s < t)
First(f, left)   == CHOOSE s \in left : \A t \in left \ {s} : Earlier(f, s, t)
-----------------------------------------------------------------------------
(* The width of the widest code of an optimal Huffman tree: of the two     *)
(* lightest trees, of two as light the deeper first, one is made.          *)
Joined(a, b) == [weight |-> a.weight + b.weight,
                 width  |-> 1 + Max({a.width, b.width})]

Lighter(a, b) == a.weight < b.weight \/ (a.weight = b.weight /\ a.width > b.width)
Lightest(trees) == CHOOSE i \in DOMAIN trees :
                     \A j \in DOMAIN trees : ~ Lighter(trees[j], trees[i])

JoinLightest(trees) ==
  IF Len(trees) < 2 THEN trees
  ELSE LET i    == Lightest(trees)
           rest == RemoveAt(trees, i)
           j    == Lightest(rest)
       IN  Append(RemoveAt(rest, j), Joined(trees[i], rest[j]))

ordinary_huffman_optimal_max_bitwidth(source) ==
  LET heap[n \in 0 .. Len(source)] ==
        IF n = 0 THEN [i \in DOMAIN source |-> [weight |-> source[i].weight,
                                               width  |-> 0]]
        ELSE JoinLightest(heap[n - 1])
      top == heap[Len(source)]
  IN IF top = << >> THEN 1 ELSE Max({1, top[1].width})

(* Package-merge: lists of nodes, each with how often it has each symbol.  *)
(* A bug the runs catch: the lists are put one behind the other.           *)
merge_nodes_unsorted(left, right) == left \o right

Merging(left, right, at) ==
  LET li == at.li
      ri == Len(at.merged) - li
  IN IF \/ ri = Len(right)
        \/ li < Len(left) /\ left[li + 1].weight < right[ri + 1].weight
     THEN [merged |-> Append(at.merged, left[li + 1]), li |-> li + 1]
     ELSE [merged |-> Append(at.merged, right[ri + 1]), li |-> li]

merge_nodes(left, right) ==
  LET loop[n \in 0 .. Len(left) + Len(right)] ==
        IF n = 0 THEN [merged |-> << >>, li |-> 0]
        ELSE Merging(left, right, loop[n - 1])
  IN loop[Len(left) + Len(right)].merged

Plus(a, b) == [s \in Symbols |-> a[s] + b[s]]

Both(a, b) == [symbols |-> Plus(a.symbols, b.symbols),
               weight  |-> a.weight + b.weight]

package(nodes) ==
  LET pairs[n \in 0 .. Len(nodes) \div 2] ==
        IF n = 0 THEN << >>
        ELSE Append(pairs[n - 1], Both(nodes[2 * n - 1], nodes[2 * n]))
  IN IF Len(nodes) < 2 THEN nodes ELSE pairs[Len(nodes) \div 2]

(* The symbols that occur, the least frequent first.                       *)
WithNext(f, sorted) ==
  LET left == Used(f) \ Range(sorted)
  IN  IF left = {} THEN sorted ELSE Append(sorted, First(f, left))

Source(f) ==
  LET sorted[n \in 0 .. N] ==
        IF n = 0 THEN << >> ELSE WithNext(f, sorted[n - 1])
  IN [i \in DOMAIN sorted[N] |->
        [symbols |-> [s \in Symbols |-> IF s = sorted[N][i] THEN 1 ELSE 0],
         weight  |-> f[sorted[N][i]]]]

package_merge_code_lengths(source, max_bitwidth) ==
  LET weighted[n \in 0 .. max_bitwidth - 1] ==
        IF n = 0 THEN source
        ELSE merge_nodes(package(weighted[n - 1]), source)
      packaged == package(weighted[max_bitwidth - 1])
      widths[n \in 0 .. Len(packaged)] ==
        IF n = 0 THEN [s \in Symbols |-> 0]
                 ELSE Plus(widths[n - 1], packaged[n].symbols)
  IN widths[Len(packaged)]

length_limited_code_lengths(f, max_bitwidth) ==
  package_merge_code_lengths(Source(f),
    Min({max_bitwidth, ordinary_huffman_optimal_max_bitwidth(Source(f))}))
-----------------------------------------------------------------------------
(* Canonical codes: of the symbols by width, each one more than the one    *)
(* before, with as many zeros behind as it is wider.  The encoder and the  *)
(* decoder number them in loops of their own.                              *)

reverse_bits(b, width) ==
  LET to[n \in 0 .. width] ==
        IF n = 0 THEN 0 ELSE 2 * to[n - 1] + ((b \div 2 ^ (n - 1)) % 2)
  IN to[width]

HInit ==
  /\ \/ frequencies \in Frequencies /\ limit \in Limits
        /\ Cardinality(Used(frequencies)) <= 2 ^ limit
        /\ lengths = length_limited_code_lengths(frequencies, limit)
     \/ /\ frequencies = << >> /\ limit = 0 /\ lengths \in Given
  /\ entries = Used(lengths) /\ code = 0 /\ previous = 0
  /\ encoder = [s \in Symbols |-> 0]
  /\ table = << >> /\ safely_peek_bits = 0
  /\ bits = 0 /\ available = 0 /\ peek_bits = 0 /\ reached = 0
  /\ result = None /\ stage = "codes"

Entry   == First(lengths, entries)
Width   == lengths[Entry]
Shifted == code * 2 ^ (Width - previous)

NextEntry == /\ code' = Shifted + 1
             /\ previous' = Width
             /\ entries' = entries \ {Entry}

AssignCode ==
  /\ stage = "codes" /\ entries # {} /\ Width <= MAX_BITS
  /\ encoder' = [encoder EXCEPT ![Entry] = reverse_bits(Shifted, Width)]
  /\ NextEntry
  /\ UNCHANGED <<built, table, safely_peek_bits, reading, stage>>

(* The decoder's table, as wide as the widest code.                        *)
BeginTable ==
  /\ stage = "codes" /\ (entries # {} => Width > MAX_BITS)
  /\ IF max_bits = 0 \/ max_bits > MAX_BITS
       THEN stage' = "refused" /\ UNCHANGED table
       ELSE /\ stage' = "fill"
            /\ table' = [i \in 0 .. 2 ^ max_bits - 1 |-> None]
  /\ entries' = Used(lengths) /\ code' = 0 /\ previous' = 0
  /\ UNCHANGED <<built, encoder, safely_peek_bits, reading>>

(* The places of a code in the table: any bits may follow it.              *)
Places == {padding * 2 ^ Width + reverse_bits(Shifted, Width) :
             padding \in 0 .. 2 ^ (max_bits - Width) - 1}

(* A bug the runs catch: a code may take the place of another.             *)
Conflict_never == FALSE

Conflict == \E i \in Places : table[i] # None

FillEntry ==
  /\ stage = "fill" /\ entries # {}
  /\ IF Conflict THEN stage' = "refused" /\ UNCHANGED filling
     ELSE /\ table' = [i \in DOMAIN table |->
                         IF i \in Places THEN Entry ELSE table[i]]
          /\ NextEntry
          /\ UNCHANGED <<encoder, safely_peek_bits, stage>>
  /\ UNCHANGED <<built, reading>>

(* How far decode may look ahead without harm: as far as the end-of-block  *)
(* code reaches, or as it was told, or else as the widest code.            *)
FillDone(eob, safely_peek) ==
  /\ stage = "fill" /\ entries = {}
  /\ safely_peek_bits' =
       LET actual == IF eob # None /\ lengths[eob] > 0 THEN lengths[eob]
                     ELSE IF safely_peek > 0 THEN safely_peek ELSE max_bits
       IN Min({max_bits, actual})
  /\ stage' = "ready"
  /\ UNCHANGED <<built, entries, code, previous, encoder, table, reading>>
-----------------------------------------------------------------------------
(* decode, of a reader with `available' bits left.                         *)

Decode(n, b) == /\ stage = "ready"
                /\ available' = n /\ bits' = b
                /\ peek_bits' = safely_peek_bits
                /\ reached' = safely_peek_bits
                /\ result' = None
                /\ stage' = "decode"
                /\ UNCHANGED <<built, filling>>

peeked == table[bits % 2 ^ peek_bits]

(* A bug the runs catch: an entry is taken though its code is longer than  *)
(* what was looked at.                                                     *)
Fits_any == peeked # None

Fits == peeked # None /\ lengths[peeked] <= peek_bits

(* Look at peek_bits bits, missing ones being zero in the index, and at as *)
(* many as the entry says if its code is longer.                           *)
Peek ==
  /\ stage = "decode"
  /\ IF peek_bits > available
       THEN stage' = "short" /\ UNCHANGED <<peek_bits, reached, result>>
     ELSE IF peeked = None
       THEN stage' = "invalid" /\ UNCHANGED <<peek_bits, reached, result>>
     ELSE IF Fits
       THEN stage' = "decoded" /\ result' = peeked
            /\ UNCHANGED <<peek_bits, reached>>
     ELSE /\ peek_bits' = lengths[peeked]
          /\ reached' = Max({reached, lengths[peeked]})
          /\ UNCHANGED <<result, stage>>
  /\ UNCHANGED <<built, filling, bits, available>>

HNext == \/ AssignCode \/ BeginTable \/ FillEntry \/ Peek
         \/ \E e \in Symbols \cup {None}, p \in SafelyPeek : FillDone(e, p)
         \/ \E n \in 0 .. max_bits : \E b \in 0 .. 2 ^ n - 1 : Decode(n, b)

HSpec == HInit /\ [][HNext]_hvars /\ WF_hvars(Peek)
-----------------------------------------------------------------------------
(* A sum over the symbols.                                                 *)
Total(w) ==
  LET sum[n \in 0 .. N] == IF n = 0 THEN 0 ELSE sum[n - 1] + w[n - 1]
  IN sum[N]

(* How many places in a table of this width codes of these lengths need,   *)
(* and how many bits it takes to write all symbols with them.              *)
Takes(D, width, l) ==
  Total([s \in Symbols |-> IF s \in D THEN 2 ^ (width - l[s]) ELSE 0])

Kraft(l) == Takes(Used(l), max_bits, l)

Cost(l, f) == Total([s \in Symbols |-> IF s \in Used(f) THEN l[s] * f[s] ELSE 0])

(* The lengths are those of a code for what occurs: a width for each       *)
(* symbol that occurs and no other, within the limit, no place in the      *)
(* table used twice and, with two symbols or more, none left free.         *)
LengthsMakeACode ==
  /\ Used(lengths) = Used(frequencies)
  /\ max_bits <= limit
  /\ Kraft(lengths) <= 2 ^ max_bits
  /\ Cardinality(Used(lengths)) > 1 => Kraft(lengths) = 2 ^ max_bits

(* The lengths made from frequencies are those of a code, and no code      *)
(* within the limit writes these symbols in fewer bits.                    *)
LengthsAreOptimal ==
  (frequencies # << >> /\ stage = "codes" /\ entries = Used(lengths)) =>
    /\ LengthsMakeACode
    /\ \A l \in [Used(frequencies) -> 1 .. limit] :
         Takes(Used(frequencies), limit, l) <= 2 ^ limit
           => Cost(lengths, frequencies) <= Cost(l, frequencies)

(* The decoder refuses code lengths just when there are none, when one is  *)
(* too large or when no code has them; a code with free places is          *)
(* accepted.                                                               *)
RefusesNoCode ==
  /\ stage = "refused" => \/ max_bits = 0 \/ max_bits > MAX_BITS
                          \/ Kraft(lengths) > 2 ^ max_bits
  /\ stage = "ready" => max_bits <= MAX_BITS /\ Kraft(lengths) <= 2 ^ max_bits

(* The symbol whose code is next.                                          *)
IsNext(s) == lengths[s] <= available /\ bits % 2 ^ lengths[s] = encoder[s]

(* decode gives the symbol whose code, as the encoder writes it, the bits  *)
(* begin with, whatever follows it, and "invalid" if there is none.  It    *)
(* looks no farther than it may or than this code reaches, so that it      *)
(* comes up short only if the input ends before that.                      *)
DecodesTheCode ==
  /\ stage = "decoded" =>
       /\ lengths[result] > 0 /\ IsNext(result)
       /\ reached <= Max({safely_peek_bits, lengths[result]})
  /\ stage = "invalid" => \A s \in Used(lengths) : ~ IsNext(s)
  /\ stage = "short" =>
       \A s \in Used(lengths) : IsNext(s) => available < safely_peek_bits
=============================================================================
