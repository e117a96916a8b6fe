----------------------------- MODULE Containers -----------------------------
(***************************************************************************)
(* The two container decoders, and what a file is: a header, a DEFLATE     *)
(* stream and what follows it.  A behaviour decodes one file.              *)
(***************************************************************************)
EXTENDS Gzip, Zlib

(* The headers of the format, whole and with nothing behind them.  Bytes   *)
(* p + 1 .. q of h are a text and the zero that ends it.                   *)
IsText(h, p, q) == /\ q \in p + 1 .. Len(h)
                   /\ h[q] = 0
                   /\ \A j \in p + 1 .. q - 1 : h[j] # 0

(* What may follow the first p bytes, behind each of the parts.            *)
BehindComment(h, p) ==
  Len(h) = IF Flagged(h[4], FHCRC) THEN p + 2 ELSE p
BehindName(h, p) ==
  IF Flagged(h[4], FCOMMENT)
    THEN \E q \in 1 .. Len(h) : IsText(h, p, q) /\ BehindComment(h, q)
    ELSE BehindComment(h, p)
BehindExtra(h, p) ==
  IF Flagged(h[4], FNAME)
    THEN \E q \in 1 .. Len(h) : IsText(h, p, q) /\ BehindName(h, q)
    ELSE BehindName(h, p)

ExtraEnd(h) == 12 + h[11] + 256 * h[12]

IsGzipHeader(h) ==
  /\ Len(h) >= 10
  /\ IF Flagged(h[4], FEXTRA)
       THEN Len(h) >= 12 /\ BehindExtra(h, ExtraEnd(h))
       ELSE BehindExtra(h, 10)

HeadIsGood(f) == IF f.format = "gzip" THEN parse_ok(f.head)
                                      ELSE validate_zlib_header(f.head)

(* The trailer of a file that holds the data.                              *)
TrailerOf(f, data) ==
  IF f.format = "gzip"
    THEN Checksum(data) \o SizeBytes(Len(data) % SIZE_MOD)
    ELSE Checksum(data)

EndsRight(f, data) ==
  LET n == Len(TrailerOf(f, data))
  IN  Len(f.tail) >= n /\ SubSeq(f.tail, 1, n) = TrailerOf(f, data)

(* A file is cut into its parts where they end (a header that is malformed *)
(* from the start has no end), and is well-formed if all of them are.      *)
ASSUME FilesAssumption ==
  \A i \in StreamIds :
    LET f == Files[i] IN
    /\ f.format = "zlib" => Len(f.head) = 2
    /\ f.format = "gzip" => /\ Len(f.head) >= 10
                            /\ parse_ok(f.head) => IsGzipHeader(f.head)
    /\ i \in DOMAIN WholeSize => WholeSize[i] = Streams[i].size - Len(f.tail)
    /\ i \in WellFormed <=> /\ HeadIsGood(f)
                            /\ i \in DOMAIN WholeSize
                            /\ EndsRight(f, WholeData[i])
-----------------------------------------------------------------------------
FilesInit == \/ GInit
             \/ ZInit /\ FieldsInit

FilesNext == \/ /\ File.format = "gzip"
                /\ GNext
             \/ /\ File.format = "zlib"
                /\ ZNext
                /\ UNCHANGED <<evars, isize>>

(* A call of feed runs without giving up the processor.                    *)
InCall == at # "idle" /\ FilesNext

FilesSpec == FilesInit /\ [][FilesNext]_gvars /\ WF_gvars(InCall)
=============================================================================
