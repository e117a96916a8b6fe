----------------------------- MODULE ByteQueue -----------------------------
(***************************************************************************)
(* What a buffer between a producer and a consumer of bytes promises: the  *)
(* bytes come out once, in the order in which they went in.                *)
(***************************************************************************)
EXTENDS Naturals, Sequences

CONSTANT Pieces  \* what may be put in at once

VARIABLES
  queue,  \* the bytes that are in it
  last    \* the last operation and its argument

QInit     == queue = << >> /\ last = <<"new", 0>>
Put(data) == queue' = queue \o data /\ last' = <<"put", data>>
Take(n)   == queue' = SubSeq(queue, n + 1, Len(queue)) /\ last' = <<"take", n>>
QNext     == \/ \E data \in Pieces : Put(data)
             \/ \E n \in 0 .. Len(queue) : Take(n)
QSpec     == QInit /\ [][QNext]_<<queue, last>>
=============================================================================
