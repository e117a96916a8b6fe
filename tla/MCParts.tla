------------------------------ MODULE MCParts ------------------------------
(***************************************************************************)
(* The small parts for TLC: the copy of a match, the two checksums, the    *)
(* output buffer of the containers and format detection.  They share no    *)
(* state: a behaviour is of one of them, and the others wait in one of     *)
(* their initial states.                                                   *)
(***************************************************************************)
EXTENDS CopyMatch, Adler32, Crc32, Buf, Format

CONSTANT MaxBuffer

(* Buffers whose bytes are all different, so that no wrong byte looks like *)
(* the right one.                                                          *)
MCByte    == 1 .. MaxBuffer
MCBuffers == {[k \in 1 .. n |-> k] : n \in 0 .. MaxBuffer}
MCLengths == 1 .. 20

MCUpdates == 0 .. 7

(* Of a CRC, updates that reach the loop over slices, the one behind it,   *)
(* both or none.                                                           *)
MCData == UNION {[1 .. n -> ByteWord] : n \in {0, 1, 4, 5}}

MCPieces == UNION {[1 .. n -> Octet] : n \in 0 .. 2}
-----------------------------------------------------------------------------
VARIABLE part  \* which of them moves

partsvars == <<mvars, avars, cvars, bvars, head, part>>

CopyWaits == given = << >> /\ distance = 0 /\ length = 1

PartsInit ==
  /\ part \in {"copy", "adler", "crc", "buf", "format"}
  /\ part # "copy" => CopyWaits
  /\ MInit /\ AInit /\ CInit /\ BInit /\ FInit

PartsNext ==
  \/ part = "copy" /\ MNext /\ UNCHANGED <<avars, cvars, bvars, head, part>>
  \/ part = "adler" /\ ANext /\ UNCHANGED <<mvars, cvars, bvars, head, part>>
  \/ part = "crc" /\ CNext /\ UNCHANGED <<mvars, avars, bvars, head, part>>
  \/ part = "buf" /\ BNext /\ UNCHANGED <<mvars, avars, cvars, head, part>>
  \/ part = "format" /\ FNext /\ UNCHANGED <<mvars, avars, cvars, bvars, part>>

(* Sequential code: a call that runs goes on until it returns.             *)
PartsSpec == /\ PartsInit /\ [][PartsNext]_partsvars
             /\ WF_mvars(part = "copy" /\ MNext)
             /\ WF_avars(part = "adler" /\ AStep)

(* The loop over a match and those over a chunk of a checksum end.         *)
PartsReturn == /\ part = "copy" => CopyReturns
               /\ UpdateEnds
=============================================================================
