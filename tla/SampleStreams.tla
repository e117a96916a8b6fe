--------------------------- MODULE SampleStreams ---------------------------
(***************************************************************************)
(* Compressed streams for TLC.  A stream is written as the sequence of its *)
(* elements with their widths in bits; Layout puts each at its position    *)
(* and fills the functions of DeflateStream, every other position holding  *)
(* something that no decoder in step with the stream would read there.     *)
(***************************************************************************)
EXTENDS DeflateStream, TLC

LOCAL INSTANCE SequencesExt

(* Elements: in which context they are read, how many bits, what they say. *)
Element(context, bits, value) ==
  [context |-> context, bits |-> bits, says |-> value]

Header(final, type) ==
  Element("header", 3, [is_final |-> final, type |-> type])

LenWord(ok, n) == Element("lens", 32, [ok |-> ok, len |-> n])
RawByte(b)     == Element("byte", 8, b)

(* Of a symbol only what differs from NoSymbol.                            *)
NoSymbol == [kind |-> "forbidden", width |-> 1, byte |-> 0, extra |-> 0,
             length |-> 1, dkind |-> "outOfTable", dwidth |-> 1,
             dextra |-> 0, distance |-> 1]

Literal(w, b) ==
  Element("symbol", w, [kind |-> "literal", width |-> w, byte |-> b])
EndOfBlock(w) == Element("symbol", w, [kind |-> "endOfBlock"])

(* A code of w bits and x extra bits for length n, one of dw and dx for d. *)
Match(w, x, n, dw, dx, d) ==
  Element("symbol", w + x + dw + dx,
          [kind |-> "match", width |-> w, extra |-> x, length |-> n,
           dkind |-> "distance", dwidth |-> dw, dextra |-> dx,
           distance |-> d])

(* In a fixed block: lengths 3.. have 7 bit codes, distances 5 bit codes.  *)
FixedMatch(n, d) == Match(7, 0, n, 5, IF d > 4 THEN 1 ELSE 0, d)

BadDistance(dkind) ==
  Element("symbol", 12, [kind |-> "match", width |-> 7, dkind |-> dkind,
                         dwidth |-> 5])
BadSymbol(kind, w) == Element("symbol", w, [kind |-> kind, width |-> w])

Lengths(max, eob) == [ok |-> TRUE, max |-> max, eob |-> eob]
Unusable          == [ok |-> FALSE, max |-> 1, eob |-> 0]

Dynamic(hclen, target, bitwidth, literal, distance) ==
  Element("dynamic", 14,
          [hdist_ok |-> TRUE, hclen |-> hclen, target_len |-> target,
           bitwidth |-> bitwidth, literal |-> literal,
           distance |-> distance])
NoDynamic == [hdist_ok |-> FALSE, hclen |-> 4, target_len |-> 258,
              bitwidth |-> Unusable, literal |-> Unusable,
              distance |-> Unusable]

Bitwidths(hclen) == Element("bitwidths", 3 * hclen, 0)

Rle(code, w, n) ==
  Element("rle", w + RleExtraBits(code),
          [code |-> code, width |-> w, repeat |-> n])

(* The length word of a stored block begins on a byte boundary.            *)
Start(e, p) == IF e.context = "lens" THEN 8 * ((p + 7) \div 8) ELSE p

(* A stream of the elements, cut off or followed by bytes of a container:  *)
(* `extra' bytes more (or, negative, fewer) than the elements need.        *)
Part(name, elements, extra) ==
  [id |-> name, elements |-> elements, extra |-> extra]

(* The elements of a part at their positions, as a set, and its size.      *)
At(e, p) == [pos |-> Start(e, p), context |-> e.context,
             says |-> IF e.context = "symbol" THEN e.says @@ NoSymbol
                                               ELSE e.says]

Place(part) ==
  LET placed ==
        FoldLeft(LAMBDA acc, e : [at  |-> acc.at \cup {At(e, acc.end)},
                                  end |-> Start(e, acc.end) + e.bits],
                [at |-> {}, end |-> 0], part.elements)
  IN  [id |-> part.id, at |-> placed.at,
       size |-> ((placed.end + 7) \div 8) + part.extra]

Layout(placed) ==
  LET bits == BitsOf(placed.size)
      read(context, otherwise) ==
        LET here == {x \in placed.at : x.context = context /\ x.pos \in bits}
        IN  [p \in {x.pos : x \in here} |->
               (CHOOSE x \in here : x.pos = p).says]
            @@ [p \in bits |-> otherwise]
  IN [id      |-> placed.id,
      size    |-> placed.size,
      header  |-> read("header", [is_final |-> FALSE, type |-> "reserved"]),
      lens    |-> read("lens", [ok |-> FALSE, len |-> 0]),
      byte    |-> read("byte", 0),
      dynamic |-> read("dynamic", NoDynamic),
      rle     |-> read("rle", [code |-> "invalid", width |-> 1,
                               repeat |-> 1]),
      symbol  |-> read("symbol", NoSymbol)]
-----------------------------------------------------------------------------
MCByte == 0 .. 3

(* Three blocks, of fixed codes, stored and again of fixed codes, with     *)
(* matches into the block before and an overlapping one; then a byte of a  *)
(* container.                                                              *)
Mixed == <<Header(FALSE, "fixed"), Literal(8, 1), Literal(9, 2),
           FixedMatch(3, 2), EndOfBlock(7),
           Header(FALSE, "stored"), LenWord(TRUE, 2), RawByte(3), RawByte(1),
           Header(TRUE, "fixed"), FixedMatch(4, 3), EndOfBlock(7)>>

(* More output than two thresholds; matches as far back as they may reach. *)
Long == <<Header(TRUE, "fixed"), Literal(8, 1), Literal(9, 2),
          FixedMatch(4, 1), Literal(8, 3), FixedMatch(4, 5),
          FixedMatch(3, 4), FixedMatch(4, 5), FixedMatch(4, 3),
          FixedMatch(4, 5), Literal(8, 1), EndOfBlock(7)>>

(* END_OF_BLOCK is the last bit of the last byte.                          *)
Flush == <<Header(TRUE, "fixed"), Literal(9, 1), Literal(9, 2),
           FixedMatch(3, 1), EndOfBlock(7)>>

(* A block of no bytes.                                                    *)
Nothing == <<Header(TRUE, "fixed"), EndOfBlock(7)>>

(* A stored block beyond the cap, an empty one, and matches into them.     *)
Stored == <<Header(FALSE, "stored"), LenWord(TRUE, 7), RawByte(1),
            RawByte(2), RawByte(3), RawByte(1), RawByte(2), RawByte(2),
            RawByte(3), Header(FALSE, "stored"), LenWord(TRUE, 0),
            Header(FALSE, "fixed"), FixedMatch(4, 5), EndOfBlock(7),
            Header(TRUE, "stored"), LenWord(TRUE, 1), RawByte(1)>>

(* The header of a dynamic block with 258 + 4 code lengths.                *)
DynamicHead(final, literal, distance, hclen, bitwidth) ==
  <<Header(final, "dynamic"),
    Dynamic(hclen, 262, bitwidth, literal, distance), Bitwidths(hclen)>>

(* Literals of one and two bits before an END_OF_BLOCK of three.           *)
ShortCodes ==
  <<Header(TRUE, "dynamic"),
    Dynamic(18, 259, Lengths(2, 0), Lengths(3, 3), Lengths(1, 0)),
    Bitwidths(18),
    Rle("zeros11", 2, 97), Rle("length", 2, 1), Rle("length", 2, 1),
    Rle("zeros11", 2, 138), Rle("zeros11", 2, 19), Rle("length", 2, 1),
    Rle("length", 2, 1), Rle("length", 2, 1),
    Literal(1, 1), Literal(1, 1), Literal(2, 2), Match(3, 0, 3, 1, 0, 1),
    Literal(1, 1), EndOfBlock(3)>>

(* END_OF_BLOCK has the shortest code, so every other is found by peeking  *)
(* again; a length and a distance with extra bits.                         *)
LongCodesLengths ==
  <<Rle("zeros11", 2, 97), Rle("length", 3, 1), Rle("previous", 3, 3),
    Rle("zeros11", 2, 138), Rle("zeros11", 2, 17), Rle("length", 3, 1),
    Rle("length", 3, 1), Rle("zeros3", 2, 3), Rle("length", 3, 1)>>

LongCodes ==
  DynamicHead(TRUE, Lengths(3, 2), Lengths(1, 0), 18, Lengths(3, 0))
  \o LongCodesLengths
  \o <<Literal(3, 1), Literal(3, 2), Literal(3, 3), Literal(3, 2),
       Match(2, 1, 4, 1, 1, 4), EndOfBlock(2)>>

(* The same with codes of 15 bits, and a stored block behind it.           *)
DeepCodes ==
  DynamicHead(FALSE, Lengths(15, 2), Lengths(15, 0), 18, Lengths(3, 0))
  \o LongCodesLengths
  \o <<Literal(15, 1), Literal(3, 2), Literal(9, 3),
       Match(14, 1, 4, 15, 1, 3), Literal(3, 2), EndOfBlock(2),
       Header(TRUE, "stored"), LenWord(TRUE, 1), RawByte(2)>>

(* A table without END_OF_BLOCK: the block cannot end.                     *)
Endless == DynamicHead(TRUE, Lengths(3, 0), Lengths(1, 0), 18, Lengths(3, 0))
           \o LongCodesLengths
           \o <<Literal(3, 1), Literal(3, 2), BadSymbol("endOfBlock", 1)>>

(* Malformed streams: what comes before the fault decodes.                 *)
BadType    == <<Header(FALSE, "fixed"), Literal(8, 1), EndOfBlock(7),
                Header(TRUE, "reserved")>>
BadLen     == <<Header(FALSE, "fixed"), Literal(8, 1), EndOfBlock(7),
                Header(TRUE, "stored"), LenWord(FALSE, 1), RawByte(1)>>
TooFar     == <<Header(TRUE, "fixed"), Literal(8, 1), FixedMatch(3, 2),
                EndOfBlock(7)>>
Forbidden  == <<Header(TRUE, "fixed"), Literal(8, 1),
                BadSymbol("forbidden", 8), EndOfBlock(7)>>
BadDist    == <<Header(TRUE, "fixed"), Literal(8, 1),
                BadDistance("outOfTable"), EndOfBlock(7)>>
NoDistCode == <<Header(TRUE, "fixed"), Literal(8, 1),
                BadDistance("invalid"), EndOfBlock(7)>>
NoCode     == DynamicHead(TRUE, Lengths(3, 2), Lengths(1, 0), 18, Lengths(3, 0))
              \o LongCodesLengths
              \o <<Literal(3, 1), BadSymbol("invalid", 3), EndOfBlock(2)>>
BadHdist   == <<Header(TRUE, "dynamic"), Element("dynamic", 14, NoDynamic),
                RawByte(1)>>
BadWidths  == DynamicHead(TRUE, Lengths(3, 2), Lengths(1, 0), 4, Unusable)
              \o <<RawByte(1)>>
NoPrevious == DynamicHead(TRUE, Lengths(3, 2), Lengths(1, 0), 18, Lengths(3, 0))
              \o <<Rle("previous", 3, 3), RawByte(1)>>
NoRleCode  == DynamicHead(TRUE, Lengths(3, 2), Lengths(1, 0), 18, Lengths(3, 0))
              \o <<Rle("zeros11", 2, 97), Rle("invalid", 3, 1), RawByte(1)>>
TooMany    == DynamicHead(TRUE, Lengths(3, 2), Lengths(1, 0), 18, Lengths(3, 0))
              \o <<Rle("zeros11", 2, 138), Rle("zeros11", 2, 138), RawByte(1)>>
BadTables  == DynamicHead(TRUE, Lengths(3, 2), Unusable, 18, Lengths(3, 0))
              \o LongCodesLengths \o <<RawByte(1)>>

Whole == {Part("mixed", Mixed, 1), Part("long", Long, 0),
          Part("flush", Flush, 0), Part("stored", Stored, 2),
          Part("container", Flush, 2),
          Part("shortCodes", ShortCodes, 1), Part("longCodes", LongCodes, 0),
          Part("deepCodes", DeepCodes, 1)}

Faulty == {Part("endless", Endless, 0), Part("badType", BadType, 0),
           Part("badLen", BadLen, 0), Part("tooFar", TooFar, 0),
           Part("forbidden", Forbidden, 0), Part("badDist", BadDist, 0),
           Part("noDistCode", NoDistCode, 0), Part("noCode", NoCode, 0),
           Part("badHdist", BadHdist, 0), Part("badWidths", BadWidths, 0),
           Part("noPrevious", NoPrevious, 0), Part("noRleCode", NoRleCode, 0),
           Part("tooMany", TooMany, 0), Part("badTables", BadTables, 0),
           Part("cutMixed", Mixed, -1), Part("cutStored", Stored, -6),
           Part("cutCodes", LongCodes, -1),
           Part("cutLengths", ShortCodes, -6)}

(* What elements decode to.                                                *)
Decoded(elements) ==
  FoldLeft(LAMBDA out, e :
             IF e.context = "byte" THEN Append(out, e.says)
             ELSE IF e.context # "symbol" THEN out
             ELSE IF e.says.kind = "literal" THEN Append(out, e.says.byte)
             ELSE IF e.says.kind = "match"
                  THEN copy_from_distance(out, e.says.distance, e.says.length)
                  ELSE out,
           << >>, elements)

(* How many bytes the elements of each part take.                          *)
BytesOf(parts) ==
  LET placed(i) == Place(CHOOSE p \in parts : p.id = i)
      extra(i)  == (CHOOSE p \in parts : p.id = i).extra
  IN  [i \in {p.id : p \in parts} |-> placed(i).size - extra(i)]

(* What the elements of each part decode to.                               *)
DataOf(parts) ==
  [i \in {p.id : p \in parts} |->
     Decoded((CHOOSE p \in parts : p.id = i).elements)]

(* The laid out streams of some parts, and the function from their names.  *)
LaidOut(parts) == {Layout(p) : p \in {Place(q) : q \in parts}}
Named(laid)    == [i \in {s.id : s \in laid} |-> CHOOSE s \in laid : s.id = i]
=============================================================================
