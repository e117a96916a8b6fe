------------------------------- MODULE Crc32 -------------------------------
(***************************************************************************)
(* The CRC-32 checksum of src/crc32.rs: a loop that takes SLICE bytes at a *)
(* time with as many tables, and one byte by byte for the rest.            *)
(*                                                                         *)
(* A word is the set of the places, from 0, of the bits that are 1 in it.  *)
(***************************************************************************)
EXTENDS Naturals, Sequences, FiniteSets

CONSTANTS
  BITS,        \* 8, of a byte
  WIDTH,       \* 32, of the checksum
  SLICE,       \* 16
  POLYNOMIAL,  \* reflected: the set of its bits
  Data,        \* what an update may be given
  MaxData      \* a bound: bytes in all

Word == SUBSET (0 .. WIDTH - 1)
ByteWord == SUBSET (0 .. BITS - 1)

ASSUME Crc32Assumption ==
  /\ BITS \in Nat \ {0} /\ WIDTH \in Nat \ {0} /\ SLICE \in Nat \ {0}
  /\ WIDTH % BITS = 0 /\ SLICE * BITS >= WIDTH
  /\ POLYNOMIAL \in Word /\ Data \subseteq Seq(ByteWord) /\ MaxData \in Nat

Xor(v, w) == (v \ w) \cup (w \ v)
Shr(w, n) == {x - n : x \in {y \in w : y >= n}}
Low(w)    == w \cap (0 .. BITS - 1)

(* One bit out of the register.                                            *)
Shifted(w) == IF 0 \in w THEN Xor(Shr(w, 1), POLYNOMIAL) ELSE Shr(w, 1)

(* BITS of them.                                                           *)
byte_table[n \in 0 .. BITS] ==
  [w \in Word |-> IF n = 0 THEN w ELSE byte_table[n - 1][Shifted(w)]]

(* TABLE[k][w] is what k bytes of zero behind the byte w make of it.       *)
make_table[k \in 0 .. SLICE - 1] ==
  [w \in ByteWord |->
     IF k = 0 THEN byte_table[BITS][w]
     ELSE LET prev == make_table[k - 1][w]
          IN  Xor(Shr(prev, BITS), byte_table[BITS][Low(prev)])]

TABLE == make_table

VARIABLES
  state,  \* inverted
  crc,    \* its copy in update
  rest,   \* what is left of the data
  step,
  seen    \* all that has been read

cvars == <<state, crc, rest, step, seen>>

CInit == /\ state = 0 .. WIDTH - 1 /\ crc = {} /\ rest = << >>
         /\ step = "idle" /\ seen = << >>

CrcUpdate(data) == /\ step = "idle" /\ Len(seen) + Len(data) <= MaxData
                   /\ crc' = state /\ rest' = data
                   /\ step' = "sliced"
                   /\ UNCHANGED <<state, seen>>

(* A bug the runs catch: the register meets the first byte only.           *)
Mixed_first(k) == IF k = 1 THEN Xor(rest[k], Low(crc)) ELSE rest[k]

(* The k-th byte of a slice, with what it meets of the register.           *)
Mixed(k) == Xor(rest[k], Low(Shr(crc, (k - 1) * BITS)))

(* The bits that an odd number of the words have.                          *)
XorAll(words) ==
  {x \in 0 .. WIDTH - 1 :
     Cardinality({k \in DOMAIN words : x \in words[k]}) % 2 = 1}

Read(n) == /\ seen' = seen \o SubSeq(rest, 1, n)
           /\ rest' = SubSeq(rest, n + 1, Len(rest))

Slice == /\ step = "sliced" /\ Len(rest) >= SLICE
         /\ crc' = XorAll([k \in 1 .. SLICE |-> TABLE[SLICE - k][Mixed(k)]])
         /\ Read(SLICE)
         /\ UNCHANGED <<state, step>>

SlicedDone == /\ step = "sliced" /\ Len(rest) < SLICE
              /\ step' = "bytes"
              /\ UNCHANGED <<state, crc, rest, seen>>

OneByte == /\ step = "bytes" /\ rest # << >>
           /\ crc' = Xor(Shr(crc, BITS), TABLE[0][Low(Xor(crc, rest[1]))])
           /\ Read(1)
           /\ UNCHANGED <<state, step>>

CrcReturns == /\ step = "bytes" /\ rest = << >>
              /\ state' = crc
              /\ step' = "idle"
              /\ UNCHANGED <<crc, rest, seen>>

CrcValue == step = "idle" /\ UNCHANGED cvars

CNext == \/ (\E data \in Data : CrcUpdate(data)) \/ CrcValue
         \/ Slice \/ SlicedDone \/ OneByte \/ CrcReturns

CSpec == CInit /\ [][CNext]_cvars
-----------------------------------------------------------------------------
(* The definition of a CRC: the register after n bits of a message.        *)
Register(bytes) ==
  LET after[n \in 0 .. BITS * Len(bytes)] ==
        IF n = 0 THEN 0 .. WIDTH - 1
        ELSE LET bit == (n - 1) % BITS \in bytes[(n - 1) \div BITS + 1]
                 w   == after[n - 1]
             IN  IF bit # (0 \in w) THEN Xor(Shr(w, 1), POLYNOMIAL)
                                    ELSE Shr(w, 1)
  IN  after[BITS * Len(bytes)]

(* Between two updates the state is the register behind all that was fed,  *)
(* however it was cut up; in the loops, behind all that was read.          *)
ChecksumIsCrc ==
  Register(seen) = IF step = "idle" THEN state ELSE crc
=============================================================================
