---------------------------- MODULE MCContainers ----------------------------
(***************************************************************************)
(* gzip and zlib files for TLC: every part a header may have, each reason  *)
(* to refuse one, a trailer that is right, wrong or followed by more,      *)
(* around streams of SampleStreams.                                        *)
(***************************************************************************)
EXTENDS Containers, SampleStreams
-----------------------------------------------------------------------------
(* Ten bytes and the parts that flags announce.                            *)
Fixed(flag_bits) == <<31, 139, 8, flag_bits, 1, 2, 3, 4, 0, 255>>

FullHead   == Fixed(FHCRC + FEXTRA + FNAME + FCOMMENT)
              \o <<3, 0, 0, 9, 0>> \o <<7, 7, 0>> \o <<0>> \o <<1, 2>>
EmptyExtra == Fixed(FEXTRA + FHCRC) \o <<0, 0>> \o <<1, 0>>
NamedHead  == Fixed(FNAME) \o <<5, 5, 0>>

(* What a file is made from: `lie' is what its trailer says its content    *)
(* is, if not empty, `off' how far the size in it is wrong, and `more' how *)
(* many bytes follow.                                                      *)
Row(format, head, elements, lie, off, more) ==
  [format |-> format, head |-> head, elements |-> elements,
   lie |-> lie, off |-> off, more |-> more]

GzipRow(head, elements) == Row("gzip", head, elements, << >>, 0, 0)
ZlibRow(head, elements) == Row("zlib", head, elements, << >>, 0, 0)

(* 120 is method 8 with a window of 32 KiB, 8 with one of 256 bytes.       *)
GoodRows ==
  "plain"      :> GzipRow(Fixed(0), "flush") @@
  "full"       :> GzipRow(FullHead, "long") @@
  "emptyExtra" :> GzipRow(EmptyExtra, "shortCodes") @@
  "named"      :> GzipRow(NamedHead, "stored") @@
  "nothing"    :> GzipRow(Fixed(FCOMMENT) \o <<1, 0>>, "nothing") @@
  "excess"     :> Row("gzip", Fixed(0), "mixed", << >>, 0, 2) @@
  "zPlain"     :> ZlibRow(<<120, 156>>, "flush") @@
  "zLong"      :> ZlibRow(<<120, 156>>, "long") @@
  "zMixed"     :> ZlibRow(<<8, 29>>, "mixed") @@
  "zDynamic"   :> ZlibRow(<<120, 218>>, "shortCodes") @@
  "zStored"    :> ZlibRow(<<120, 94>>, "stored") @@
  "zNothing"   :> ZlibRow(<<120, 1>>, "nothing") @@
  "zExcess"    :> Row("zlib", <<120, 156>>, "long", << >>, 0, 2)

BadRows ==
  "badMagic"   :> GzipRow(<<31, 140>> \o SubSeq(Fixed(0), 3, 10), "flush") @@
  "badMethod"  :> GzipRow(<<31, 139, 7>> \o SubSeq(Fixed(0), 4, 10), "flush") @@
  "badCrc"     :> Row("gzip", Fixed(0), "flush", <<1, 2, 2, 2, 1>>, 0, 1) @@
  "badSize"    :> Row("gzip", Fixed(0), "flush", << >>, 1, 0) @@
  "badBody"    :> Row("gzip", Fixed(FHCRC) \o <<1, 1>>, "badType", <<1>>, 0, 0) @@
  "zMethod"    :> ZlibRow(<<119, 133>>, "flush") @@
  "zWindow"    :> ZlibRow(<<136, 28>>, "flush") @@
  "zDict"      :> ZlibRow(<<120, 187>>, "flush") @@
  "zCheck"     :> ZlibRow(<<120, 157>>, "flush") @@
  "zAdler"     :> Row("zlib", <<120, 156>>, "flush", <<1, 2>>, 0, 1) @@
  "zBody"      :> Row("zlib", <<120, 156>>, "tooFar", <<1>>, 0, 0)

Samples == [flush |-> Flush, long |-> Long, shortCodes |-> ShortCodes,
            stored |-> Stored, nothing |-> Nothing, mixed |-> Mixed,
            badType |-> BadType, tooFar |-> TooFar]

(* The trailer of what it says it is of, and what follows.                 *)
TailOf(row, said) ==
  LET size == SizeBytes((Len(said) + row.off) % SIZE_MOD)
  IN  Checksum(said) \o (IF row.format = "gzip" THEN size ELSE << >>)
        \o [k \in 1 .. row.more |-> [of |-> "data", value |-> << >>, k |-> 0]]

FileOf(row, elements) ==
  LET said == IF row.lie = << >> THEN Decoded(elements) ELSE row.lie
  IN  [format |-> row.format, head |-> row.head, elements |-> elements,
       said |-> said, tail |-> TailOf(row, said)]

FilesOf(rows, samples) ==
  [name \in DOMAIN rows |-> FileOf(rows[name], samples[rows[name].elements])]

AllFiles == FilesOf(GoodRows @@ BadRows, Samples)

Good == {"plain", "full", "emptyExtra", "named", "nothing", "excess", "zPlain",
         "zLong", "zMixed", "zDynamic", "zStored", "zNothing", "zExcess"}

(* Files that end a caller with an error.                                  *)
Refused == {"badMagic", "badMethod", "badCrc", "badSize", "badBody", "excess",
            "zMethod", "zWindow", "zDict", "zCheck", "zAdler", "zBody",
            "zExcess"}

(* Each file is given to a caller that gives up after an error and, if it  *)
(* is one that meets an error, to one that insists.                        *)
Ids == ((Good \cup Refused) \X {FALSE}) \cup (Refused \X {TRUE})

PartsOf(files)   == {Part(i, files[i[1]].elements, Len(files[i[1]].tail)) :
                       i \in Ids}
WholeOf(files)   == {p \in PartsOf(files) : p.elements \notin {BadType, TooFar}}
AroundOf(files)  == [i \in Ids |-> [format  |-> files[i[1]].format,
                                    head    |-> files[i[1]].head,
                                    tail    |-> files[i[1]].tail,
                                    insists |-> i[2]]]

(* TLC evaluates a definition of its own once, a constant's at every use.  *)
Laid      == LaidOut(PartsOf(AllFiles))
Indexed   == Named(Laid)
MCStreams == Indexed
LaidWhole == WholeOf(AllFiles)
MCWholeSize == BytesOf(LaidWhole)
MCWholeData == DataOf(LaidWhole)
Around    == AroundOf(AllFiles)
MCFiles   == Around

MCStreamIds  == Ids
MCWellFormed == {i \in Ids : i[1] \in Good}
MCPieceSizes == {1, 2, 3, 7, 12}
=============================================================================
