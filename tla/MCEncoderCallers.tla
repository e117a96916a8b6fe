-------------------------- MODULE MCEncoderCallers --------------------------
(***************************************************************************)
(* What is around a DEFLATE encoder, for TLC: the container encoders and   *)
(* the writing adapter.  A behaviour has one of them and the others do not *)
(* move.                                                                   *)
(***************************************************************************)
EXTENDS ContainerEncoder, IoWriter

VARIABLE user  \* who has the encoder

uservars == <<kvars, wvars, user>>

UsersInit == /\ KInit /\ WInit
             /\ user \in {"container", "writer"}
             /\ user = "writer" => format = "gzip"

Containing == /\ user = "container"
              /\ KNext
              /\ UNCHANGED <<place, sink, outcome, user>>

Writing == /\ user = "writer"
           /\ WNext
           /\ UNCHANGED <<own, user>>

UsersNext == Containing \/ Writing

(* A call runs without giving up the processor.                            *)
InCall == (at # "idle" \/ place # "idle") /\ UsersNext

UsersSpec == UsersInit /\ [][UsersNext]_uservars /\ WF_uservars(InCall)

(* Each promise is of its own caller: what a container encoder has made of *)
(* the stream inside is its file, and what a writer has put into its sink  *)
(* the stream.                                                             *)
FilesAreWhole   == user = "container" => FileIsWhole
SinksAreStreams == user = "writer" => SinkIsStream
-----------------------------------------------------------------------------

MCPieces == {<< >>, <<0>>, <<0, 0, 1>>}

MCCoding == [fixed |-> [table |-> {0}, literal |-> {8}, match |-> {12},
                        end |-> {7}]]
=============================================================================
