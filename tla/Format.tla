------------------------------- MODULE Format -------------------------------
(***************************************************************************)
(* Format::detect of src/lib.rs, beside the decoders that accept and the   *)
(* encoders that write the first bytes it looks at.  The bytes of a stream *)
(* arrive one by one.                                                      *)
(***************************************************************************)
EXTENDS Naturals, Sequences

VARIABLE head  \* the bytes that have arrived, the first two at most

MAGIC1 == 31   \* 0x1F
MAGIC2 == 139  \* 0x8B
CMF    == 120  \* 0x78
FLG    == 156  \* 0x9C

(* A bug the runs catch: the method is taken for three bits.               *)
IsZlib_narrow(cmf, flg) == /\ cmf % 8 = 0 /\ cmf \div 16 <= 7
                           /\ (cmf * 256 + flg) % 31 = 0

IsZlib(cmf, flg) == /\ cmf % 16 = 8 /\ cmf \div 16 <= 7
                    /\ (cmf * 256 + flg) % 31 = 0

detect(data) ==
  IF Len(data) < 2 THEN "none"
  ELSE IF data[1] = MAGIC1 /\ data[2] = MAGIC2 THEN "gzip"
  ELSE IF IsZlib(data[1], data[2]) THEN "zlib"
  ELSE "deflate"

(* What the gzip decoder and the zlib decoder let pass.                    *)
parse_fixed_header(data)   == data[1] = MAGIC1 /\ data[2] = MAGIC2
validate_zlib_header(data) == /\ data[1] % 16 = 8 /\ data[1] \div 16 <= 7
                              /\ (data[2] \div 32) % 2 = 0
                              /\ (data[1] * 256 + data[2]) % 31 = 0

(* The first byte of a block that the encoder writes: BFINAL, BTYPE and,   *)
(* in a stored block, zeros up to the byte.                                *)
block_starts == {final : final \in 0 .. 1}
                  \cup {x \in 0 .. 255 : (x \div 2) % 4 \in {1, 2}}

FInit == head = << >>

Arrive(byte) == Len(head) < 2 /\ head' = Append(head, byte)

(* No more bytes are looked at.                                            *)
Decided == Len(head) = 2 /\ UNCHANGED head

FNext == (\E byte \in 0 .. 255 : Arrive(byte)) \/ Decided

FSpec == FInit /\ [][FNext]_head
-----------------------------------------------------------------------------
(* No stream is taken for one of another format: not one that the gzip or  *)
(* the zlib decoder accepts, nor one that the DEFLATE encoder writes,      *)
(* whatever its first block is; the headers written are accepted.          *)
FormatIsFound ==
  IF Len(head) < 2 THEN detect(head) = "none"
  ELSE /\ parse_fixed_header(head) => detect(head) = "gzip"
       /\ validate_zlib_header(head) => detect(head) = "zlib"
       /\ head[1] \in block_starts => detect(head) = "deflate"
       /\ head = <<CMF, FLG>> => validate_zlib_header(head)
=============================================================================
