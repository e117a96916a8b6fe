------------------------------ MODULE MCCodes ------------------------------
(***************************************************************************)
(* Huffman codes, the description of them in a dynamic block, and the      *)
(* symbols of matches, for TLC.  They share no state: a behaviour is of    *)
(* one of the three, and the others wait in one of their initial states.   *)
(***************************************************************************)
EXTENDS Huffman, DynamicHeader, SymbolTables

(* All frequencies up to 2 of five symbols and some that make deep trees;  *)
(* all code lengths up to 3, codes or not, and one that is too large.      *)
MCFrequencies == [Symbols -> 0 .. 2]
                   \cup {[s \in Symbols |-> d[s + 1]] :
                           d \in {<<1, 1, 2, 3, 5>>, <<8, 1, 4, 2, 1>>,
                                  <<1, 3, 3, 1, 9>>, <<16, 8, 4, 2, 1>>}}
MCGiven == [Symbols -> 0 .. 3] \cup {[s \in Symbols |-> IF s = 1 THEN 16 ELSE s]}

MCOrder == <<16, 17, 18, 0, 8, 7, 9, 6, 10, 5, 11, 4, 12, 3, 13, 2, 14, 1, 15>>

Run(value, n) == [i \in 1 .. n |-> value]

(* Zeros, a run of literals, zeros, end of block, length codes, zeros: the *)
(* runs at and around every length at which another element is used, at    *)
(* the end of the literals and across it.                                  *)
MCLiterals ==
  {Run(0, z) \o Run(8, l) \o Run(0, 256 - z - l) \o <<3>>
     \o Run(5, m) \o Run(0, 29 - m) :
     z \in {0, 1, 2, 3, 10, 11, 12, 138, 139, 141, 149},
     l \in {1, 2, 3, 4, 6, 7, 8, 10},
     m \in {0, 3, 29}}

MCDistances ==
  {<<1>> \o Run(0, 29), Run(5, 4) \o Run(0, 26), Run(0, 29) \o <<1>>,
   Run(5, 30)}

(* Every length at the least distance, every distance at the least length. *)
MCMatches == ((3 .. 258) \X {1}) \cup ({3} \X (1 .. 32768))
-----------------------------------------------------------------------------
VARIABLE part  \* which of the three moves

codesvars == <<hvars, dvars, svars, part>>

(* The state in which each waits while another moves.                      *)
TablesWait == frequencies = << >> /\ lengths = [s \in Symbols |-> 0]
DescriptionWaits == /\ literal = CHOOSE l \in MCLiterals : TRUE
                    /\ distance = CHOOSE d \in MCDistances : TRUE
SymbolsWait == length = 3 /\ backward_distance = 1

CodesInit ==
  \/ /\ part = "tables"
     /\ SymbolsWait /\ SInit /\ DescriptionWaits /\ DInit /\ HInit
  \/ /\ part = "description"
     /\ SymbolsWait /\ SInit /\ TablesWait /\ HInit /\ DInit
  \/ /\ part = "symbols"
     /\ TablesWait /\ HInit /\ DescriptionWaits /\ DInit /\ SInit

CodesNext ==
  \/ part = "tables" /\ HNext /\ UNCHANGED <<dvars, svars, part>>
  \/ part = "description" /\ DNext /\ UNCHANGED <<hvars, svars, part>>
  \/ part = "symbols" /\ SNext /\ UNCHANGED <<hvars, dvars, part>>

CodesSpec == CodesInit /\ [][CodesNext]_codesvars

(* What the encoder says of its codes and of a match, the decoder reads.   *)
CodesReadBack == ReadsBack /\ MatchReadsBack
=============================================================================
