------------------------------ MODULE Inflate ------------------------------
(***************************************************************************)
(* What decoding a DEFLATE stream means, with none of the machinery of a   *)
(* streaming decoder: the whole stream is at hand, `pos' is the next bit,  *)
(* `out' is everything decoded so far, and each step reads one element of  *)
(* the format.  There is no input or output buffer, no limit on what is    *)
(* buffered, no look-ahead and no window: a match may reach any byte of    *)
(* `out'.  Decoder.tla is shown to implement this specification.           *)
(***************************************************************************)
EXTENDS DeflateStream

VARIABLES
  id,      \* the stream being decoded
  pos,     \* the next bit to read
  phase,   \* what the next bits are
  out      \* every byte decoded so far

vars == <<id, pos, phase, out>>

S == Streams[id]

Init == /\ id \in StreamIds
        /\ pos = 0
        /\ phase = [kind |-> "BlockHeader"]
        /\ out = << >>

(* The next n bits are part of the stream.                                 *)
Has(n) == pos + n <= 8 * S.size

Read(n) == /\ Has(n)
           /\ pos' = pos + n

(* Bytes are read from the next byte boundary.                             *)
Aligned == 8 * ((pos + 7) \div 8)

EndOf(is_final) == IF is_final THEN [kind |-> "Finished"]
                               ELSE [kind |-> "BlockHeader"]

ReadHeader ==
  LET h == S.header[pos] IN
  /\ phase.kind = "BlockHeader"
  /\ Read(3)
  /\ UNCHANGED out
  /\ \/ /\ h.type = "stored"
        /\ phase' = [kind |-> "StoredAlignAndLen", is_final |-> h.is_final]
     \/ /\ h.type = "fixed"
        /\ phase' = [kind |-> "SymbolLoop", is_final |-> h.is_final,
                     eob |-> fixed_literal_code_lengths.eob]
     \/ /\ h.type = "dynamic"
        /\ phase' = [kind |-> "DynamicHeader", is_final |-> h.is_final]

ReadStoredLength ==
  /\ phase.kind = "StoredAlignAndLen"
  /\ Aligned + 32 <= 8 * S.size
  /\ S.lens[Aligned].ok
  /\ pos' = Aligned + 32
  /\ phase' = [kind |-> "StoredBody", is_final |-> phase.is_final,
               remaining |-> S.lens[Aligned].len]
  /\ UNCHANGED out

(* Any number of the stored bytes at a time.                               *)
ReadStoredBytes ==
  /\ phase.kind = "StoredBody"
  /\ \E n \in 1 .. phase.remaining :
       /\ Read(8 * n)
       /\ out' = out \o [k \in 1 .. n |-> S.byte[pos + 8 * (k - 1)]]
       /\ phase' = [phase EXCEPT !.remaining = @ - n]

EndStored ==
  /\ phase.kind = "StoredBody"
  /\ phase.remaining = 0
  /\ phase' = EndOf(phase.is_final)
  /\ UNCHANGED <<pos, out>>

ReadDynamicHeader ==
  /\ phase.kind = "DynamicHeader"
  /\ S.dynamic[pos].hdist_ok
  /\ Read(14)
  /\ phase' = [kind |-> "DynamicBitwidthTable", is_final |-> phase.is_final,
               at |-> pos, order_idx |-> 0]
  /\ UNCHANGED out

ReadBitwidth ==
  /\ phase.kind = "DynamicBitwidthTable"
  /\ phase.order_idx < S.dynamic[phase.at].hclen
  /\ Read(3)
  /\ phase' = [phase EXCEPT !.order_idx = @ + 1]
  /\ UNCHANGED out

EndBitwidths ==
  /\ phase.kind = "DynamicBitwidthTable"
  /\ phase.order_idx = S.dynamic[phase.at].hclen
  /\ S.dynamic[phase.at].bitwidth.ok
  /\ phase' = [kind |-> "DynamicCodeLengths", is_final |-> phase.is_final,
               at |-> phase.at, len |-> 0]
  /\ UNCHANGED <<pos, out>>

ReadCodeLengths ==
  LET e == S.rle[pos] IN
  /\ phase.kind = "DynamicCodeLengths"
  /\ phase.len < S.dynamic[phase.at].target_len
  /\ e.code # "invalid"
  /\ e.code = "previous" => phase.len > 0
  /\ Read(e.width + RleExtraBits(e.code))
  /\ phase.len + e.repeat <= S.dynamic[phase.at].target_len
  /\ phase' = [phase EXCEPT !.len = @ + e.repeat]
  /\ UNCHANGED out

EndCodeLengths ==
  LET dyn == S.dynamic[phase.at] IN
  /\ phase.kind = "DynamicCodeLengths"
  /\ phase.len = dyn.target_len
  /\ dyn.literal.ok /\ dyn.distance.ok
  /\ phase' = [kind |-> "SymbolLoop", is_final |-> phase.is_final,
               eob |-> dyn.literal.eob]
  /\ UNCHANGED <<pos, out>>

ReadLiteral ==
  LET s == S.symbol[pos] IN
  /\ phase.kind = "SymbolLoop"
  /\ s.kind = "literal"
  /\ Read(s.width)
  /\ out' = Append(out, s.byte)
  /\ UNCHANGED phase

ReadMatch ==
  LET s == S.symbol[pos] IN
  /\ phase.kind = "SymbolLoop"
  /\ s.kind = "match" /\ s.dkind = "distance"
  /\ s.distance <= Len(out)
  /\ Read(s.width + s.extra + s.dwidth + s.dextra)
  /\ out' = copy_from_distance(out, s.distance, s.length)
  /\ UNCHANGED phase

ReadEndOfBlock ==
  /\ phase.kind = "SymbolLoop"
  /\ S.symbol[pos].kind = "endOfBlock"
  /\ phase.eob > 0
  /\ Read(phase.eob)
  /\ phase' = EndOf(phase.is_final)
  /\ UNCHANGED out

(* The rules of the format that a stream can break.                        *)
ReservedType == phase.kind = "BlockHeader" /\ S.header[pos].type = "reserved"

LengthsDisagree == /\ phase.kind = "StoredAlignAndLen"
                   /\ Aligned <= 8 * S.size /\ ~ S.lens[Aligned].ok

TooManyDistances == phase.kind = "DynamicHeader" /\ ~ S.dynamic[pos].hdist_ok

NoBitwidthCode == /\ phase.kind = "DynamicBitwidthTable"
                  /\ phase.order_idx = S.dynamic[phase.at].hclen
                  /\ ~ S.dynamic[phase.at].bitwidth.ok

(* The next code length, or run of them.                                   *)
InCodeLengths == /\ phase.kind = "DynamicCodeLengths"
                 /\ phase.len < S.dynamic[phase.at].target_len

NoElement       == InCodeLengths /\ S.rle[pos].code = "invalid"
NothingToRepeat == InCodeLengths /\ S.rle[pos].code = "previous"
                                 /\ phase.len = 0
TooManyLengths  ==
  /\ InCodeLengths
  /\ phase.len + S.rle[pos].repeat > S.dynamic[phase.at].target_len

NoSymbolCodes ==
  LET dyn == S.dynamic[phase.at] IN
  /\ phase.kind = "DynamicCodeLengths" /\ phase.len = dyn.target_len
  /\ ~ (dyn.literal.ok /\ dyn.distance.ok)

(* The next symbol: bits that are none, END_OF_BLOCK where it has no code, *)
(* or one that the format does not use.                                    *)
NoSymbol ==
  LET s == S.symbol[pos] IN
  /\ phase.kind = "SymbolLoop"
  /\ s.kind = "invalid" \/ (s.kind = "endOfBlock" /\ phase.eob = 0)

ForbiddenSymbol == phase.kind = "SymbolLoop" /\ S.symbol[pos].kind = "forbidden"

(* A match at no distance, or at one behind the beginning.                 *)
InMatch    == phase.kind = "SymbolLoop" /\ S.symbol[pos].kind = "match"
NoDistance == InMatch /\ S.symbol[pos].dkind # "distance"
TooFar     == InMatch /\ S.symbol[pos].distance > Len(out)

(* The stream breaks a rule of the format at this position.                *)
Malformed == \/ ReservedType \/ LengthsDisagree
             \/ TooManyDistances \/ NoBitwidthCode
             \/ NoElement \/ NothingToRepeat \/ TooManyLengths
             \/ NoSymbolCodes
             \/ NoSymbol \/ ForbiddenSymbol \/ NoDistance \/ TooFar

(* Nothing is decoded any more; where the reader stands means nothing.     *)
Reject == /\ Malformed
          /\ phase' = [kind |-> "Failed"]
          /\ pos' = 0
          /\ UNCHANGED out

Next == /\ \/ ReadHeader \/ ReadStoredLength \/ ReadStoredBytes \/ EndStored
           \/ ReadDynamicHeader \/ ReadBitwidth \/ EndBitwidths
           \/ ReadCodeLengths \/ EndCodeLengths
           \/ ReadLiteral \/ ReadMatch \/ ReadEndOfBlock
           \/ Reject
        /\ UNCHANGED id

Spec == Init /\ [][Next]_vars
-----------------------------------------------------------------------------
(* How many bits the next symbol takes, END_OF_BLOCK aside.                *)
SymbolBits ==
  LET s == S.symbol[pos] IN
  IF s.kind = "endOfBlock" THEN 0
  ELSE IF s.kind = "match" THEN s.width + s.extra + s.dwidth + s.dextra
  ELSE s.width

(* The next element ends within the first n bytes, and so does, behind a   *)
(* symbol, the END_OF_BLOCK that has to follow.                            *)
EndsWithin(n) ==
  /\ phase.kind = "BlockHeader" => pos + 3 <= 8 * n
  /\ phase.kind = "StoredAlignAndLen" => Aligned + 32 <= 8 * n
  /\ phase.kind = "StoredBody" => pos + 8 * phase.remaining <= 8 * n
  /\ phase.kind = "DynamicHeader" => pos + 14 <= 8 * n
  /\ /\ phase.kind = "DynamicBitwidthTable"
     /\ phase.order_idx < S.dynamic[phase.at].hclen
     => pos + 3 <= 8 * n
  /\ /\ phase.kind = "DynamicCodeLengths"
     /\ phase.len < S.dynamic[phase.at].target_len
     => pos + S.rle[pos].width + RleExtraBits(S.rle[pos].code) <= 8 * n
  /\ phase.kind = "SymbolLoop" => /\ phase.eob > 0
                                  /\ pos + SymbolBits + phase.eob <= 8 * n

(* A stream is finished only if it is whole, in its last byte and with all *)
(* its data.  At every point of a whole one the next element breaks no     *)
(* rule and is in it.                                                      *)
EndIsRight ==
  IF id \in DOMAIN WholeSize
    THEN /\ phase.kind # "Failed" /\ ~ Malformed
         /\ EndsWithin(WholeSize[id])
         /\ phase.kind = "Finished" => /\ (pos + 7) \div 8 = WholeSize[id]
                                       /\ out = WholeData[id]
    ELSE phase.kind # "Finished"
=============================================================================
