------------------------ MODULE DecoderCallersProofs ------------------------
(***************************************************************************)
(* The callers of the decoder tell their own callers the truth about the   *)
(* end of the stream: decompress, whose loop has to tell an output buffer  *)
(* that is full from input that is missing, and the reading adapter.       *)
(*                                                                         *)
(* Both do nothing to the decoder but what its properties allow for, so    *)
(* all that DecoderProofs proves of it holds in their hands.               *)
(***************************************************************************)
EXTENDS MCCallers, Containers, DecoderProofs

(* How a step leaves the drive it belongs to.                              *)
StepOutcome ==
  \/ pc' = "drive"
  \/ pc' = "idle" /\ result' = "ok"
  \/ pc' = "idle" /\ result' = "err" /\ state'.kind = "Transient"

LEMMA Outcomes ==
  ASSUME pc = "drive"
  PROVE  /\ \A r : Progress(r) => StepOutcome
         /\ \A r : Commit(r) => StepOutcome
         /\ \A r : Finished(r) => StepOutcome
         /\ \A r : \A b : EndBlock(r, b) => StepOutcome
         /\ NeedMoreBytes => StepOutcome
         /\ Yield => StepOutcome
         /\ Error => StepOutcome
<1>1. /\ \A r : Progress(r) => StepOutcome
      /\ \A r : Commit(r) => StepOutcome
      /\ Error => StepOutcome
  BY DEF Progress, Commit, Error, StepOutcome
<1>2. \A r : Finished(r) => StepOutcome
  BY <1>1 DEF Finished
<1> QED BY <1>1, <1>2 DEF EndBlock, NeedMoreBytes, Yield

LEMMA StepOutcomes == Step => StepOutcome
<1> SUFFICES ASSUME Step PROVE StepOutcome
  OBVIOUS
<1>1. CASE StepBlockHeader(S)
  BY <1>1, Outcomes DEF StepBlockHeader, InState
<1>2. CASE StepStoredAlignAndLen(S)
  BY <1>2, Outcomes DEF StepStoredAlignAndLen, InState
<1>3. CASE StepStoredBody(S)
  BY <1>3, Outcomes DEF StepStoredBody, InState
<1>4. CASE StepDynamicHeader(S)
  BY <1>4, Outcomes DEF StepDynamicHeader, InState
<1>5. CASE StepDynamicBitwidthTable(S)
  BY <1>5, Outcomes DEF StepDynamicBitwidthTable, InState
<1>6. CASE StepDynamicCodeLengths(S)
  BY <1>6, Outcomes DEF StepDynamicCodeLengths, InState
<1>7. CASE StepSymbolLoop(S)
  BY <1>7, Outcomes DEF StepSymbolLoop, InState
<1>8. CASE StepFinished
  BY <1>8, Outcomes DEF StepFinished, InState
<1> QED BY <1>1, <1>2, <1>3, <1>4, <1>5, <1>6, <1>7, <1>8 DEF Step

LEMMA StepDrives == Step => pc = "drive"
BY ZenonT(60) DEF Step, StepBlockHeader, StepStoredAlignAndLen, StepStoredBody,
       StepDynamicHeader, StepDynamicBitwidthTable, StepDynamicCodeLengths,
       StepSymbolLoop, StepFinished, InState

(* A feed that is accepted has to be driven.                               *)
LEMMA FeedDrives ==
  ASSUME NEW n, Feed(n), ~ (finished /\ n > 0)
  PROVE  pc' # "idle"
BY DEF Feed
-----------------------------------------------------------------------------
(* What the end of the data means to the decoder.                          *)
LEMMA FinishedIsWhole ==
  ASSUME IInv, EndIsRight, finished
  PROVE  /\ HasWholeStream /\ History = WholeData[id]
         /\ WholeSize[id] = (Pos + 7) \div 8
<1>1. state.kind = "Finished"
  BY DEF IInv, BitsOK
<1>2. Phase.kind = "Finished" /\ AbstractPos = Pos
  BY <1>1, PhaseOf
<1>3. /\ id \in DOMAIN WholeSize /\ WholeSize[id] = (Pos + 7) \div 8
      /\ History = WholeData[id]
  BY <1>2 DEF EndIsRight, Abstract!EndIsRight
<1>4. Pos \in Nat /\ fed \in Nat /\ Pos <= 8 * fed
  BY CurrentReader, PosAvailable DEF Pos
<1>5. (Pos + 7) \div 8 <= fed
  <2> DEFINE p == Pos
  <2>1. p \in Nat /\ p <= 8 * fed
    BY <1>4
  <2> HIDE DEF p
  <2>2. (p + 7) \div 8 <= fed
    BY <1>4, <2>1
  <2> QED BY <2>2 DEF p
<1> QED BY <1>3, <1>5 DEF HasWholeStream

LEMMA FailedIsNotWhole ==
  ASSUME EndIsRight, state.kind = "Transient"
  PROVE  id \notin DOMAIN WholeSize
BY PhaseOf DEF EndIsRight, Abstract!EndIsRight

LEMMA NothingUnread ==
  ASSUME IInv, Unread = << >>
  PROVE  History = delivered
BY OutputTypes, ConcatEmptySeq DEF History

LEMMA AdvanceAll ==
  ASSUME IInv, Advance(Len(Unread))
  PROVE  Unread' = << >> /\ delivered' = delivered \o Unread
<1>1. Len(Unread) \in 0 .. Len(Unread) /\ Unread \in Seq(Byte)
  BY UnreadType
<1> DEFINE keep == keep_from(Len(output), drained + Len(Unread))
<1>2. /\ keep \in Nat /\ Len(Unread) = Len(output) - drained
      /\ drained' = drained + Len(Unread) - keep
      /\ Len(output') = Len(output) - keep
  BY <1>1, AdvanceOutput
<1> HIDE DEF keep
<1>3. Len(Unread') = Len(output') - drained' /\ Unread' \in Seq(Byte)
  <2>1. IInv'
    BY <1>1, AdvanceInv
  <2>2. output' \in Seq(Byte) /\ drained' \in 0 .. Len(output')
    BY <2>1 DEF IInv, TypeOK
  <2> QED BY <2>2, DropProperties DEF Unread
<1>4. Len(Unread') = 0
  <2>1. drained \in Nat /\ Len(output) \in Nat
    BY OutputTypes
  <2> QED BY <1>2, <1>3, <2>1
<1>5. Unread' = << >>
  BY <1>3, <1>4, EmptySeq
<1>6. delivered' = delivered \o Unread
  BY <1>1, SubSeqFull DEF Advance
<1> QED BY <1>5, <1>6

(* What the callers know of the stream they have, they go on knowing.      *)
LEMMA SameWhole ==
  ASSUME UNCHANGED <<id, fed>>
  PROVE  HasWholeStream' <=> HasWholeStream
BY DEF HasWholeStream

LEMMA SameDecoder ==
  ASSUME UNCHANGED vars
  PROVE  UNCHANGED <<id, fed, delivered, state, finished, pc, result, Unread,
                     HasWholeStream>>
BY DEF vars, Unread, HasWholeStream
-----------------------------------------------------------------------------
(* DrainLoop, in a caller that lets the decoder run at certain places.     *)
(* When a feed has returned and has not finished, the stream is not whole  *)
(* or the output is full: emptying it and feeding nothing tells which.     *)
Returned ==
  pc = "idle" => /\ result \in {"ok", "err"}
                 /\ result = "err" => state.kind = "Transient"

ReturnedWhy ==
  pc = "idle" /\ result = "ok" /\ ~ finished
    => Len(Unread) >= MAX_INTERNAL_BUFFER \/ ~ HasWholeStream

LoopInv(running) ==
  /\ at \notin running => pc # "drive"
  /\ at \in running => Returned
  /\ at = "ended" => finished /\ Unread = << >>
  /\ at = "starved" => ~ finished /\ Unread = << >>
  /\ at = "failed" => state.kind = "Transient"

LoopTells(running) ==
  /\ at \in running => ReturnedWhy
  /\ at = "starved" => ~ HasWholeStream

(* The places where a caller may let it run.                               *)
Fits(running) ==
  /\ "check" \in running
  /\ running \cap {"drain", "resume", "ended", "starved", "failed"} = {}

LEMMA DriveReturns ==
  ASSUME Step
  PROVE  Returned'
BY StepOutcomes DEF Returned, StepOutcome

LEMMA DriveReturnsWhy ==
  ASSUME IInv, IInv', EndIsRight, Step
  PROVE  ReturnedWhy'
<1> SUFFICES ASSUME pc' = "idle", result' = "ok", ~ finished'
             PROVE  Len(Unread') >= MAX_INTERNAL_BUFFER \/ ~ HasWholeStream'
  BY DEF ReturnedWhy
<1>1. /\ pc = "drive" /\ UNCHANGED <<id, fed, drained>>
  BY StepDrives DEF Step
<1>2. Returns
  BY <1>1 DEF Returns
<1>3. CASE ~ HasWholeStream
  BY <1>1, <1>3, SameWhole
<1>4. CASE HasWholeStream
  <2>1. Yielded
    BY <1>2, <1>4, WholeFinishes
  <2>2. Len(Unread') = Len(output') - drained'
    <3>1. /\ output' \in Seq(Byte) /\ drained' \in 0 .. Len(output')
      BY DEF IInv, TypeOK
    <3> QED BY <3>1, DropProperties DEF Unread
  <2> QED BY <2>1, <2>2 DEF Yielded
<1> QED BY <1>3, <1>4

LEMMA LoopSteps ==
  ASSUME NEW running, LoopInv(running), Fits(running), Step, UNCHANGED at
  PROVE  /\ LoopInv(running)'
         /\ IInv /\ IInv' /\ EndIsRight => LoopTells(running)'
<1>1. at \in running
  BY StepDrives DEF LoopInv
<1> QED BY <1>1, DriveReturns, DriveReturnsWhy DEF LoopInv, LoopTells, Fits

LEMMA LoopCalls ==
  ASSUME IInv, NEW running, LoopInv(running), Fits(running),
         Drain \/ Resume \/ Check
  PROVE  /\ LoopInv(running)'
         /\ LoopTells(running) => LoopTells(running)'
<1>1. CASE Drain
  <2>1. /\ at' = IF finished THEN "ended" ELSE "resume"
        /\ Advance(Len(Unread))
        /\ pc = "idle" /\ UNCHANGED <<pc, finished>>
    BY <1>1 DEF Drain, Advance
  <2>2. Unread' = << >>
    BY <2>1, AdvanceAll
  <2> QED BY <2>1, <2>2 DEF LoopInv, LoopTells, Fits
<1>2. CASE Resume
  <2>1. at' = "check" /\ Feed(0)
    BY <1>2 DEF Resume
  <2>2. pc' # "idle"
    BY <2>1, FeedDrives
  <2> QED BY <2>1, <2>2 DEF LoopInv, LoopTells, Returned, ReturnedWhy, Fits
<1>3. CASE Check
  <2>1. /\ at = "check" /\ pc = "idle" /\ UNCHANGED vars
        /\ at' = IF result = "err" THEN "failed"
                 ELSE IF NoProgress THEN "starved" ELSE "drain"
    BY <1>3 DEF Check
  <2>2. Returned
    BY <2>1 DEF LoopInv, Fits
  <2>3. LoopInv(running)'
    BY <2>1, <2>2, SameDecoder DEF LoopInv, Returned, Fits, NoProgress
  <2>4. ASSUME LoopTells(running)
        PROVE  LoopTells(running)'
    <3>1. CASE at' = "starved"
      <4>1. result = "ok" /\ ~ finished /\ Unread = << >>
        BY <2>1, <2>2, <3>1 DEF NoProgress, Returned
      <4>2. ~ (Len(Unread) >= MAX_INTERNAL_BUFFER)
        <5>1. Len(Unread) = 0 /\ MAX_INTERNAL_BUFFER \in Nat \ {0}
          BY <4>1, DecoderAssumption
        <5> QED BY <5>1
      <4>3. ~ HasWholeStream
        BY <2>1, <2>4, <4>1, <4>2 DEF LoopTells, ReturnedWhy, Fits
      <4> QED BY <2>1, <3>1, <4>3, SameDecoder DEF LoopTells, Fits
    <3>2. CASE at' # "starved"
      BY <2>1, <3>2 DEF LoopTells, Fits
    <3> QED BY <3>1, <3>2
  <2> QED BY <2>3, <2>4
<1> QED BY <1>1, <1>2, <1>3
-----------------------------------------------------------------------------
(* Decompress.                                                             *)
Places == {"fed", "check"}

DecompressInv == /\ LoopInv(Places) /\ LoopTells(Places)
                 /\ at = "start" => ~ finished

(* The reading adapter: where it reports the end it stays.                 *)
ReaderInv ==
  /\ place # "feed" => pc # "drive"
  /\ reply = "end" => place = "idle" /\ finished /\ Unread = << >>

CallersInv ==
  /\ caller = "decompress" => DecompressInv
  /\ caller = "reader" => ReaderInv

LEMMA WantIsNat == want \in Nat /\ [CallersNext]_callervars => (want \in Nat)'
<1> SUFFICES ASSUME want \in Nat, [CallersNext]_callervars
             PROVE  want' \in Nat
  OBVIOUS
<1>1. want' = want \/ want' \in OutSizes
  BY DEF CallersNext, callervars, rvars, Decompressing, Reading, RNext, Read,
         TakeOutput, ReturnEnd, ReturnEof, SourceEnds, SourceFails,
         FeedMore, FeedReturned, FeedStep
<1> QED BY <1>1, IoReaderAssumption

(* The callers do to the decoder what any caller may.                      *)
LEMMA CallersMove ==
  ASSUME IInv, want \in Nat, [CallersNext]_callervars
  PROVE  Moves
<1>1. CASE Decompressing
  <2>1. S.size \in Nat
    BY CurrentReader
  <2>2. \/ Step \/ UNCHANGED vars \/ Feed(0)
        \/ \E n \in 0 .. S.size : Feed(n)
        \/ Advance(Len(Unread))
    BY <1>1 DEF Decompressing, DNext, Decoding, FeedAll, Fed, Drain,
                Resume, Check
  <2>3. Len(Unread) \in 0 .. Len(Unread)
    BY UnreadType
  <2> QED BY <2>1, <2>2, <2>3 DEF Moves
<1>2. CASE Reading
  <2>1. S.size \in Nat /\ fed \in Nat /\ want \in Nat /\ BufferSize \in Nat
    BY CurrentReader, IoReaderAssumption
  <2>2. \/ Step \/ UNCHANGED vars
        \/ \E n \in 1 .. Min2(BufferSize, S.size - fed) : Feed(n)
        \/ Advance(Min2(want, Len(Unread)))
    BY <1>2 DEF Reading, RNext, FeedStep, Read, TakeOutput, ReturnEnd,
                ReturnEof, SourceEnds, SourceFails, Reply, FeedMore,
                FeedReturned
  <2>3. Min2(want, Len(Unread)) \in 0 .. Len(Unread)
    <3>1. Len(Unread) \in Nat
      BY UnreadType
    <3> QED BY <2>1, <3>1 DEF Min2
  <2>4. \A n \in 1 .. Min2(BufferSize, S.size - fed) : n \in Nat
    <3>1. Min2(BufferSize, S.size - fed) \in Int
      BY <2>1 DEF Min2
    <3> QED BY <3>1
  <2> QED BY <2>2, <2>3, <2>4 DEF Moves
<1>3. CASE UNCHANGED callervars
  BY <1>3 DEF callervars, dvars, Moves
<1> QED BY <1>1, <1>2, <1>3 DEF CallersNext

LEMMA DecompressNext ==
  ASSUME IInv, IInv', EndIsRight, DecompressInv, DNext
  PROVE  DecompressInv'
<1>1. LoopInv(Places) /\ LoopTells(Places) /\ Fits(Places)
  BY DEF DecompressInv, Places, Fits
<1>2. CASE Decoding
  <2>1. Step /\ UNCHANGED at
    BY <1>2 DEF Decoding
  <2>2. at # "start"
    BY <1>1, <2>1, StepDrives DEF LoopInv, Places
  <2>3. LoopInv(Places)' /\ LoopTells(Places)'
    BY <1>1, <2>1, LoopSteps
  <2> QED BY <2>1, <2>2, <2>3 DEF DecompressInv
<1>3. CASE FeedAll
  <2>1. PICK n \in 0 .. S.size : Feed(n)
    BY <1>3 DEF FeedAll
  <2>2. ~ finished /\ at' = "fed"
    BY <1>3 DEF FeedAll, DecompressInv
  <2>3. pc' # "idle"
    BY <2>1, <2>2, FeedDrives
  <2> QED BY <2>2, <2>3 DEF DecompressInv, LoopInv, LoopTells, Returned,
                            ReturnedWhy, Places
<1>4. CASE Fed
  <2>1. /\ at = "fed" /\ pc = "idle" /\ UNCHANGED vars
        /\ at' = IF result = "err" THEN "failed" ELSE "drain"
    BY <1>4 DEF Fed
  <2> QED BY <2>1, SameDecoder DEF DecompressInv, LoopInv, LoopTells, Returned,
                                   Places
<1>5. CASE Drain \/ Resume \/ Check
  <2>1. LoopInv(Places)' /\ LoopTells(Places)'
    BY <1>1, <1>5, LoopCalls
  <2>2. at' # "start"
    BY <1>5 DEF Drain, Resume, Check
  <2> QED BY <2>1, <2>2 DEF DecompressInv
<1> QED BY <1>2, <1>3, <1>4, <1>5 DEF DNext

LEMMA ReaderNext ==
  ASSUME IInv, ReaderInv, RNext
  PROVE  ReaderInv'
<1>1. CASE Read
  <2>1. /\ place' = "read" /\ pc # "drive" /\ UNCHANGED vars
        /\ reply' # "end"
    BY <1>1 DEF Read, GoesOn, ReaderInv
  <2> QED BY <2>1, SameDecoder DEF ReaderInv
<1>2. CASE TakeOutput
  <2>1. /\ place' = "idle" /\ reply' = "bytes"
        /\ pc' = "idle"
    BY <1>2 DEF TakeOutput, Reply, Advance
  <2> QED BY <2>1 DEF ReaderInv
<1>3. CASE ReturnEnd
  <2>1. /\ place' = "idle" /\ reply' = "end"
        /\ UNCHANGED vars /\ finished /\ Unread = << >> /\ place = "read"
    BY <1>3 DEF ReturnEnd, Reply, NothingMore
  <2> QED BY <2>1, SameDecoder DEF ReaderInv
<1>4. CASE ReturnEof \/ SourceEnds \/ SourceFails
  <2>1. /\ UNCHANGED vars /\ place = "read"
        /\ \/ reply' \in {"error", "interrupted"}
           \/ reply' = reply /\ place' = place
    BY <1>4 DEF ReturnEof, SourceEnds, SourceFails, TopUp, Reply
  <2> QED BY <2>1, SameDecoder DEF ReaderInv
<1>5. CASE FeedMore
  <2>1. /\ place' = "feed" /\ reply' = reply
        /\ place = "read"
    BY <1>5 DEF FeedMore, TopUp
  <2> QED BY <2>1 DEF ReaderInv
<1>6. CASE FeedReturned
  <2>1. /\ place = "feed" /\ pc = "idle" /\ UNCHANGED vars
        /\ reply' = "error" \/ reply' = reply
    BY <1>6 DEF FeedReturned, Reply
  <2> QED BY <2>1, SameDecoder DEF ReaderInv
<1>7. CASE FeedStep
  <2>1. /\ UNCHANGED <<place, reply>> /\ place = "feed"
    BY <1>7, StepDrives DEF FeedStep, ReaderInv
  <2> QED BY <2>1 DEF ReaderInv
<1> QED BY <1>1, <1>2, <1>3, <1>4, <1>5, <1>6, <1>7 DEF RNext

LEMMA CallersNextInv ==
  IInv /\ IInv' /\ EndIsRight /\ CallersInv /\ [CallersNext]_callervars
    => CallersInv'
<1> SUFFICES ASSUME IInv, IInv', EndIsRight, CallersInv,
                    [CallersNext]_callervars
             PROVE  CallersInv'
  OBVIOUS
<1>1. CASE Decompressing
  <2>1. caller = "decompress" /\ caller' = caller /\ DecompressInv'
    BY <1>1, DecompressNext DEF Decompressing, CallersInv
  <2> QED BY <2>1 DEF CallersInv
<1>2. CASE Reading
  <2>1. caller = "reader" /\ caller' = caller /\ ReaderInv'
    BY <1>2, ReaderNext DEF Reading, CallersInv
  <2> QED BY <2>1 DEF CallersInv
<1>3. CASE UNCHANGED callervars
  <2>1. UNCHANGED <<vars, at, place, reply, caller>>
    BY <1>3 DEF callervars, dvars, rvars
  <2> QED BY <2>1, SameDecoder DEF CallersInv, DecompressInv, LoopInv, LoopTells,
                                    Returned, ReturnedWhy, ReaderInv
<1> QED BY <1>1, <1>2, <1>3 DEF CallersNext

LEMMA CallersInvTells ==
  IInv /\ EndIsRight /\ CallersInv => EndIsTold
BY FinishedIsWhole, FailedIsNotWhole, NothingUnread
   DEF CallersInv, DecompressInv, LoopInv, LoopTells, ReaderInv, EndIsTold,
       TellsTheEnd, EndIsReached, HasWholeStream

(* For every stream, whole, cut off or malformed, and every size of the    *)
(* buffers: decompress succeeds just on the data that holds a whole        *)
(* stream, with what the stream stands for, and the reading adapter says   *)
(* "end" only when the stream has ended and the caller has all of that.    *)
THEOREM EndsAreTold == SizesAreRight => (CallersSpec => []EndIsTold)
<1>1. CallersInit => Init /\ IInv /\ want \in Nat /\ CallersInv
  BY InitInv DEF CallersInit, DInit, RInit, Init, CallersInv, DecompressInv,
                 LoopInv, LoopTells, Places, ReaderInv
<1>2. IInv /\ want \in Nat /\ [CallersNext]_callervars => Moves /\ IInv'
  BY CallersMove, MovesInv
<1>3. CallersSpec => Init /\ [][Moves]_vars
  BY <1>1, <1>2, WantIsNat, PTL DEF CallersSpec
<1>4. CallersSpec => []IInv /\ Abstract!Spec
  BY <1>3, MovesDecode, PTL
<1> QED
  BY <1>1, <1>4, CallersNextInv, CallersInvTells, PTL
     DEF CallersSpec, SizesAreRight
-----------------------------------------------------------------------------
(* The container decoders.  Where a call of feed may be.                   *)
HeaderStages == {"Header", "FixedHeader", "Extra", "ExtraLen", "Name",
                 "Comment", "Hcrc"}
Running      == {"body", "check"}

FileTypes ==
  /\ at \in {"idle", "feed", "body"} \cup LoopPlaces \cup LoopEnds
  /\ got \in 0 .. FileSize
  /\ rest \in 0 .. got
  /\ stage \in HeaderStages \cup {"Body", "Trailer", "Done"}
  /\ trailer \in Seq(TailBytes) /\ Len(trailer) <= TRAILER
  /\ done = (stage = "Done")
  /\ answer \in {"ok", "err"}

(* The DEFLATE decoder runs only while the body is fed, and the loop has   *)
(* not been left while it is finished.                                     *)
CallInv ==
  /\ at = "idle" => rest = 0
  /\ at \notin {"idle", "feed"} => stage = "Body" /\ rest = 0
  /\ at \in {"idle", "feed"} /\ stage = "Body" => ~ finished
  /\ LoopInv(Running)

(* The first n bytes of the header have to be there before it is looked at *)
(* and are not again if they are malformed.                                *)
Filling(n) ==
  /\ filled \in Seq(0 .. 255)
  /\ Len(filled) <= n
  /\ filled = SubSeq(File.head, 1, Len(filled))
  /\ Len(filled) < n => Here = Len(filled)
  /\ Len(filled) = n => ~ HeadIsGood(File)

(* What the bytes of the header h behind the first p are when stage s is   *)
(* entered there.                                                          *)
Expects(h, s, p) ==
  \/ s = "Extra"   /\ p = 10 /\ Len(h) >= 12 /\ BehindExtra(h, ExtraEnd(h))
  \/ s = "Name"    /\ \E q \in 1 .. Len(h) : IsText(h, p, q) /\ BehindName(h, q)
  \/ s = "Comment" /\ \E q \in 1 .. Len(h) : IsText(h, p, q) /\ BehindComment(h, q)
  \/ s = "Hcrc"    /\ Len(h) = p + 2
  \/ s = "Body"    /\ Len(h) = p

(* A stage of which n bytes are done began n bytes ago.                    *)
Ahead ==
  LET h == File.head
      n == extra_len_bytes_filled
  IN
  /\ File.format = "gzip" /\ flags = h[4]
  /\ stage \in {"Extra", "Hcrc"} => n \in 0 .. 1 /\ Expects(h, stage, Here - n)
  /\ stage = "Extra" /\ n = 1 => extra_len[1] = h[11]
  /\ stage = "ExtraLen" => /\ extra_remaining \in Nat
                           /\ BehindExtra(h, Here + extra_remaining)
  /\ stage \in {"Name", "Comment"} => Expects(h, stage, Here)

HeadInv ==
  /\ stage = "Header" => File.format = "zlib" /\ Filling(2)
  /\ stage = "FixedHeader" => File.format = "gzip" /\ Filling(10)
  /\ stage \in {"Extra", "ExtraLen", "Name", "Comment", "Hcrc"} => Ahead
  /\ stage \notin {"Header", "FixedHeader"} => HeadIsGood(File)
  /\ stage \in HeaderStages => fed = 0 /\ Unread = << >> /\ ~ finished
  /\ stage \in HeaderStages \cup {"Body"} => trailer = << >>
  /\ stage \notin HeaderStages => Len(File.head) <= Here
  /\ stage = "Body" => Here = Len(File.head) + fed

ContainerInv == FileTypes /\ CallInv /\ HeadInv

LEMMA FileConstants ==
  ASSUME IInv
  PROVE  /\ id \in StreamIds
         /\ File.format \in {"gzip", "zlib"} /\ File.insists \in BOOLEAN
         /\ File.head \in Seq(0 .. 255) /\ Len(File.head) \in Nat
         /\ File.tail \in Seq(TailBytes) /\ Len(File.tail) \in Nat
         /\ S.size \in Nat /\ Len(File.tail) <= S.size
         /\ FileSize \in Nat /\ FileSize = Len(File.head) + S.size
         /\ File.format = "gzip" => TRAILER = 8
         /\ File.format = "zlib" => TRAILER = 4
         /\ TRAILER \in {4, 8}
<1>1. id \in StreamIds /\ S.size \in Nat
  BY CurrentReader DEF IInv, TypeOK
<1>2. /\ File.format \in {"gzip", "zlib"} /\ File.insists \in BOOLEAN
      /\ File.head \in Seq(0 .. 255) /\ File.tail \in Seq(TailBytes)
      /\ Len(File.tail) <= S.size
  BY <1>1, ContainerAssumption DEF File, S
<1>3. Len(File.head) \in Nat /\ Len(File.tail) \in Nat
  BY <1>2, LenProperties
<1> QED BY <1>1, <1>2, <1>3 DEF FileSize, TRAILER

LEMMA FileNumbers ==
  ASSUME IInv, FileTypes
  PROVE  /\ got \in Nat /\ rest \in Nat /\ rest <= got /\ got <= FileSize
         /\ Here \in Nat /\ Here + rest = got /\ Here <= got
         /\ Len(trailer) \in Nat
BY FileConstants, LenProperties DEF FileTypes, Here

(* Bytes from index k on are bytes of the file.                            *)
LEMMA PieceProperties ==
  ASSUME IInv, NEW k \in Nat, NEW n \in Nat, k + n <= S.size
  PROVE  /\ TailPiece(k, n) \in Seq(TailBytes) /\ Len(TailPiece(k, n)) = n
         /\ \A j \in 1 .. n : TailPiece(k, n)[j] = TailByte(k + j - 1)
<1> DEFINE f == TailPiece(k, n)
<1>1. \A j \in 1 .. n : TailByte(k + j - 1) \in TailBytes
  <2> TAKE j \in 1 .. n
  <2> DEFINE i == k + j - 1
             body == S.size - Len(File.tail)
  <2>1. i \in Nat /\ i < S.size /\ body \in Nat /\ S.size = body + Len(File.tail)
    BY FileConstants
  <2>2. CASE i < body
    <3>1. [of |-> "data", value |-> << >>, k |-> 0] \in TailBytes
      BY DEF TailBytes
    <3> QED BY <2>2, <3>1 DEF TailByte
  <2>3. CASE ~ (i < body)
    <3>1. i - body + 1 \in 1 .. Len(File.tail)
      BY <2>1, <2>3, FileConstants
    <3>2. File.tail[i - body + 1] \in TailBytes
      BY <3>1, FileConstants, ElementOfSeq
    <3> QED BY <2>3, <3>2 DEF TailByte
  <2> QED BY <2>2, <2>3
<1>2. f = [j \in 1 .. n |-> TailByte(k + j - 1)]
  BY DEF TailPiece
<1> HIDE DEF f
<1>3. f \in [1 .. n -> TailBytes]
  BY <1>1, <1>2
<1>4. f \in Seq(TailBytes) /\ Len(f) = n
  BY <1>3, SeqDef, LenProperties
<1> QED BY <1>2, <1>4 DEF f

(* Without a byte more the header is as it was; with some it is longer.    *)
LEMMA FillMore ==
  ASSUME IInv, FileTypes, NEW n \in Nat, n <= Len(File.head), Filling(n)
  PROVE  LET take == Min2(n - Len(filled), rest)
             h    == filled \o SubSeq(File.head, Here + 1, Here + take)
         IN  /\ take \in 0 .. rest
             /\ h \in Seq(0 .. 255) /\ Len(h) = Len(filled) + take /\ Len(h) <= n
             /\ h = SubSeq(File.head, 1, Len(h))
             /\ Len(filled) < n => Here + take = Len(h)
             /\ Len(filled) = n => h = filled
<1> DEFINE take  == Min2(n - Len(filled), rest)
           piece == SubSeq(File.head, Here + 1, Here + take)
           h     == filled \o piece
           goal  == /\ take \in 0 .. rest
                    /\ h \in Seq(0 .. 255) /\ Len(h) = Len(filled) + take /\ Len(h) <= n
                    /\ h = SubSeq(File.head, 1, Len(h))
                    /\ Len(filled) < n => Here + take = Len(h)
                    /\ Len(filled) = n => h = filled
<1>1. /\ filled \in Seq(0 .. 255) /\ Len(filled) \in Nat /\ Len(filled) <= n
      /\ File.head \in Seq(0 .. 255) /\ Len(File.head) \in Nat
      /\ Here \in Nat /\ rest \in Nat
  BY FileConstants, FileNumbers, LenProperties DEF Filling
<1>2. take \in 0 .. rest /\ take <= n - Len(filled) /\ take \in Nat
  BY <1>1 DEF Min2
<1> HIDE DEF take
<1>3. ASSUME Len(filled) < n PROVE goal
  <2>1. Here = Len(filled) /\ filled = SubSeq(File.head, 1, Here)
    BY <1>3 DEF Filling
  <2>2. /\ 1 \in 1 .. Len(File.head) + 1 /\ Here \in 1 - 1 .. Len(File.head)
        /\ Here + take \in Here .. Len(File.head)
    BY <1>1, <1>2, <2>1
  <2>3. h = SubSeq(File.head, 1, Here + take)
    BY <1>1, <2>1, <2>2, ConcatAdjacentSubSeq
  <2>4. Here + take \in 0 .. Len(File.head)
    BY <1>1, <1>2, <2>2
  <2>5. h \in Seq(0 .. 255) /\ Len(h) = Here + take
    <3> DEFINE s == File.head
               k == Here + take
    <3>1. s \in Seq(0 .. 255) /\ k \in 0 .. Len(s)
      BY <1>1, <2>4
    <3> HIDE DEF s, k, h
    <3>2. SubSeq(s, 1, k) \in Seq(0 .. 255) /\ Len(SubSeq(s, 1, k)) = k
      BY ONLY <3>1, TakeProperties, Zenon
    <3> QED BY <2>3, <3>2 DEF s, k
  <2> HIDE DEF h
  <2>6. Len(filled) # n /\ Len(h) = Len(filled) + take /\ Len(h) <= n
    BY <1>1, <1>2, <1>3, <2>1, <2>5
  <2> QED BY <1>2, <2>3, <2>5, <2>6
<1>4. ASSUME Len(filled) = n PROVE goal
  <2>1. take = 0
    BY <1>1, <1>2, <1>4
  <2>2. piece = << >>
    <3>1. Here + 1 \in Int /\ Here + take \in Int
          /\ ~ (Here + 1 <= Here + take)
      BY <1>1, <2>1
    <3>2. \A i \in Here + 1 .. Here + take : File.head[i] \in 0 .. 255
      BY <3>1
    <3>3. piece \in Seq(0 .. 255) /\ Len(piece) = 0
      BY <3>1, <3>2, SubSeqProperties
    <3> QED BY <3>3, EmptySeq
  <2>3. h = filled
    BY <1>1, <2>2, ConcatEmptySeq
  <2>4. filled = SubSeq(File.head, 1, Len(filled))
    BY DEF Filling
  <2> HIDE DEF h
  <2>5. Len(h) = Len(filled) + take /\ Len(h) <= n /\ ~ (Len(filled) < n)
    BY <1>1, <1>4, <2>1, <2>3
  <2> QED BY <1>1, <1>2, <2>3, <2>4, <2>5
<1> HIDE DEF h
<1>5. goal
  <2>1. Len(filled) < n \/ Len(filled) = n
    BY <1>1
  <2> QED BY <1>3, <1>4, <2>1
<1> QED BY <1>5, Zenon DEF take, h

(* What may follow a part is what the stage entered behind it expects.     *)
LEMMA Behind ==
  ASSUME NEW h, NEW p \in Nat
  PROVE  /\ BehindComment(h, p) => Expects(h, past_comment(h[4]), p)
         /\ BehindName(h, p) => Expects(h, past_name(h[4]), p)
         /\ BehindExtra(h, p) => Expects(h, past_extra(h[4]), p)
         /\ p = 10 /\ IsGzipHeader(h) => Expects(h, next_header_state(h[4]), p)
<1>1. BehindComment(h, p) => Expects(h, past_comment(h[4]), p)
  BY DEF BehindComment, past_comment, Expects
<1>2. BehindName(h, p) => Expects(h, past_name(h[4]), p)
  BY <1>1 DEF BehindName, past_name, Expects
<1>3. BehindExtra(h, p) => Expects(h, past_extra(h[4]), p)
  BY <1>2 DEF BehindExtra, past_extra, Expects
<1>4. p = 10 /\ IsGzipHeader(h) => Expects(h, next_header_state(h[4]), p)
  BY <1>3 DEF IsGzipHeader, next_header_state, Expects
<1> QED BY <1>1, <1>2, <1>3, <1>4

(* A step of a call that leaves the DEFLATE decoder alone, consumes k      *)
(* bytes or gives up.                                                      *)
CallStep(k) == /\ at = "feed" /\ UNCHANGED <<vars, before, got>>
               /\ Consume(k) \/ \E a \in {"ok", "err"} : Return(a)

HeaderStep(k) == CallStep(k) /\ UNCHANGED done

LEMMA Consumed ==
  ASSUME IInv, FileTypes, CallInv, NEW k \in 0 .. rest, CallStep(k),
         stage' \in HeaderStages \cup {"Body", "Trailer", "Done"},
         trailer' \in Seq(TailBytes) /\ Len(trailer') <= TRAILER,
         done' = (stage' = "Done"), stage' = "Body" => ~ finished
  PROVE  /\ FileTypes' /\ CallInv'
         /\ Consume(k) => Here' = Here + k
         /\ Here' \in Nat /\ Here' >= Here
<1>1. /\ got \in Nat /\ rest \in Nat /\ got <= FileSize /\ rest <= got
      /\ FileSize \in Nat /\ Here = got - rest
  BY FileConstants, FileNumbers DEF Here
<1>2. /\ UNCHANGED <<id, got, pc, state, finished, Unread, FileSize, TRAILER>>
      /\ at = "feed"
  BY SameDecoder DEF CallStep, vars, FileSize, TRAILER, File, S
<1>3. \/ rest' = rest - k /\ at' = at /\ answer' = answer /\ Consume(k)
      \/ rest' = 0 /\ at' = "idle" /\ answer' \in {"ok", "err"} /\ ~ Consume(k)
      \/ rest' = 0 /\ at' = "idle" /\ answer' \in {"ok", "err"} /\ rest' = rest - k
         /\ at' = at
  BY DEF CallStep, Consume, Return
<1>4. /\ rest' \in 0 .. got' /\ at' \in {"idle", "feed"} /\ answer' \in {"ok", "err"}
      /\ at' = "idle" => rest' = 0
  BY <1>1, <1>2, <1>3 DEF FileTypes
<1>5. FileTypes'
  BY <1>1, <1>2, <1>4 DEF FileTypes
<1>6. CallInv'
  BY <1>2, <1>4 DEF CallInv, LoopInv, Running
<1>7. Consume(k) => Here' = Here + k
  BY <1>1, <1>2 DEF Consume, Here
<1>8. Here' \in Nat /\ Here' >= Here
  BY <1>1, <1>2, <1>3 DEF Here
<1> QED BY <1>5, <1>6, <1>7, <1>8

LEMMA HeaderMoves ==
  ASSUME IInv, ContainerInv, NEW k \in 0 .. rest, HeaderStep(k),
         trailer' = trailer, stage \in HeaderStages,
         stage' \in HeaderStages \cup {"Body"}
  PROVE  /\ FileTypes' /\ CallInv'
         /\ Consume(k) => Here' = Here + k
         /\ UNCHANGED File
         /\ fed' = 0 /\ Unread' = << >> /\ ~ finished' /\ trailer' = << >>
<1>1. /\ fed = 0 /\ Unread = << >> /\ ~ finished /\ trailer = << >>
      /\ FileTypes /\ CallInv
  BY DEF ContainerInv, HeadInv
<1>2. /\ trailer' \in Seq(TailBytes) /\ Len(trailer') <= TRAILER
      /\ done = FALSE
  BY <1>1 DEF FileTypes, HeaderStages
<1>3. CallStep(k) /\ done' = (stage' = "Done")
  BY <1>2 DEF HeaderStages, HeaderStep
<1>4. UNCHANGED <<id, fed, Unread, finished>>
  BY SameDecoder DEF HeaderStep, CallStep
<1> QED BY <1>1, <1>2, <1>3, <1>4, Consumed DEF File

(* A stage is entered with what it expects ahead.                          *)
LEMMA Entered ==
  ASSUME IInv, ContainerInv, NEW k \in 0 .. rest, HeaderStep(k), Consume(k),
         trailer' = trailer, stage \in HeaderStages,
         File.format = "gzip", HeadIsGood(File), flags' = File.head[4],
         stage' \in {"Extra", "Hcrc"} => extra_len_bytes_filled' = 0,
         Expects(File.head, stage', Here + k)
  PROVE  ContainerInv'
<1>1. stage' \in {"Extra", "Name", "Comment", "Hcrc", "Body"}
  BY DEF Expects
<1>2. /\ FileTypes' /\ CallInv' /\ Here' = Here + k /\ UNCHANGED File
      /\ fed' = 0 /\ Unread' = << >> /\ ~ finished' /\ trailer' = << >>
  BY <1>1, HeaderMoves DEF HeaderStages
<1>3. Here' \in Nat /\ Here' - 0 = Here'
  BY <1>2, FileNumbers DEF ContainerInv
<1>4. stage' \in {"Extra", "Name", "Comment", "Hcrc"} => Ahead'
  BY <1>1, <1>2, <1>3 DEF Ahead
<1>5. stage' = "Body" => Here' = Len(File'.head) + fed' /\ Len(File'.head) <= Here'
  <2>1. stage' = "Body" => Here' = Len(File.head)
    BY <1>2 DEF Expects
  <2> QED BY <1>2, <1>3, <2>1
<1> QED BY <1>1, <1>2, <1>4, <1>5 DEF ContainerInv, HeadInv, HeadIsGood, HeaderStages

(* The parts of a header, as the assumption on the files cuts them.        *)
LEMMA HeaderConstants ==
  ASSUME IInv
  PROVE  /\ File.format = "zlib" => Len(File.head) = 2
         /\ File.format = "gzip" => Len(File.head) >= 10
         /\ File.format = "gzip" /\ HeadIsGood(File) => IsGzipHeader(File.head)
         /\ File.format = "zlib" => HeadIsGood(File) = validate_zlib_header(File.head)
         /\ File.format = "gzip" => HeadIsGood(File) = parse_ok(File.head)
         /\ id \in WellFormed <=> /\ HeadIsGood(File) /\ id \in DOMAIN WholeSize
                                  /\ EndsRight(File, WholeData[id])
         /\ id \in DOMAIN WholeSize => WholeSize[id] = S.size - Len(File.tail)
BY FileConstants, FilesAssumption DEF File, S, HeadIsGood

(* The ten bytes are enough to tell.                                       *)
LEMMA ParseFixed ==
  ASSUME NEW h \in Seq(0 .. 255), Len(h) >= 10
  PROVE  parse_ok(SubSeq(h, 1, 10)) <=> parse_ok(h)
<1>1. 10 \in 0 .. Len(h) /\ 3 \in 0 .. Len(h)
  BY LenProperties
<1> DEFINE t == SubSeq(h, 1, 10)
<1>2. t \in Seq(0 .. 255) /\ Len(t) = 10 /\ \A j \in 1 .. 10 : t[j] = h[j]
  BY <1>1, TakeProperties, SMTT(30)
<1> HIDE DEF t
<1>3. /\ SubSeq(t, 1, 3) \in Seq(0 .. 255) /\ Len(SubSeq(t, 1, 3)) = 3
      /\ \A j \in 1 .. 3 : SubSeq(t, 1, 3)[j] = t[j]
  <2>1. t \in Seq(0 .. 255) /\ 3 \in 0 .. Len(t)
    BY <1>2
  <2> QED BY ONLY <2>1, TakeProperties, Zenon
<1>5. /\ SubSeq(h, 1, 3) \in Seq(0 .. 255) /\ Len(SubSeq(h, 1, 3)) = 3
      /\ \A j \in 1 .. 3 : SubSeq(h, 1, 3)[j] = h[j]
  <2>1. h \in Seq(0 .. 255) /\ 3 \in 0 .. Len(h)
    BY <1>1
  <2> QED BY ONLY <2>1, TakeProperties, Zenon
<1>4. SubSeq(t, 1, 3) = SubSeq(h, 1, 3)
  BY <1>2, <1>3, <1>5, SeqEqual
<1> QED BY <1>4 DEF parse_ok, t

LEMMA ReadHeaderInv ==
  ASSUME IInv, ContainerInv, ReadHeader
  PROVE  ContainerInv'
<1> DEFINE take == Min2(2 - Len(filled), rest)
           h    == filled \o SubSeq(File.head, Here + 1, Here + take)
<1>1. /\ File.format = "zlib" /\ Filling(2) /\ stage = "Header"
      /\ Len(File.head) = 2 /\ filled' = h
      /\ trailer' = trailer
      /\ \/ Len(h) < 2 /\ Consume(take) /\ stage' = stage
         \/ Len(h) = 2 /\ validate_zlib_header(h) /\ Consume(take) /\ stage' = "Body"
         \/ Len(h) = 2 /\ ~ validate_zlib_header(h) /\ Return("err") /\ stage' = stage
  BY HeaderConstants DEF ReadHeader, InStage, ContainerInv, HeadInv
<1>2. /\ take \in 0 .. rest
      /\ h \in Seq(0 .. 255) /\ Len(h) = Len(filled) + take /\ Len(h) <= 2
      /\ h = SubSeq(File.head, 1, Len(h))
      /\ Len(filled) < 2 => Here + take = Len(h)
      /\ Len(filled) = 2 => h = filled
  <2>1. FileTypes /\ 2 \in Nat /\ 2 <= Len(File.head)
    BY <1>1 DEF ContainerInv
  <2> QED BY <1>1, <2>1, FillMore
<1> HIDE DEF take, h
<1>3. HeaderStep(take)
  BY <1>1, Zenon DEF ReadHeader, InStage, HeaderStep, CallStep
<1>4. /\ FileTypes' /\ CallInv' /\ UNCHANGED File
      /\ Consume(take) => Here' = Here + take
      /\ fed' = 0 /\ Unread' = << >> /\ ~ finished' /\ trailer' = << >>
  BY <1>1, <1>2, <1>3, HeaderMoves DEF HeaderStages
<1>5. Len(h) = 2 => h = File.head
  BY <1>1, <1>2, SubSeqFull, FileConstants
<1>6. Len(filled) \in Nat /\ Len(filled) <= 2
  BY <1>1, LenProperties DEF Filling
<1>7. CASE Len(h) < 2 /\ Consume(take) /\ stage' = stage
  <2>1. Here' = Len(h)
    BY <1>2, <1>4, <1>6, <1>7
  <2>2. Filling(2)'
    BY <1>1, <1>2, <1>4, <1>7, <2>1 DEF Filling
  <2> QED BY <1>1, <1>4, <1>7, <2>2 DEF ContainerInv, HeadInv, HeaderStages
<1>8. CASE Len(h) = 2 /\ validate_zlib_header(h) /\ Consume(take) /\ stage' = "Body"
  <2>1. HeadIsGood(File)
    BY <1>1, <1>5, <1>8, HeaderConstants
  <2>2. Len(filled) < 2
    BY <1>1, <1>6, <2>1 DEF Filling
  <2>3. Here' = Len(File.head) + fed' /\ Len(File.head) <= Here'
    BY <1>1, <1>2, <1>4, <1>8, <2>2
  <2> QED BY <1>1, <1>4, <1>8, <2>1, <2>3
          DEF ContainerInv, HeadInv, HeaderStages, HeadIsGood
<1>9. CASE Len(h) = 2 /\ ~ validate_zlib_header(h) /\ Return("err") /\ stage' = stage
  <2>1. ~ HeadIsGood(File)
    BY <1>1, <1>5, <1>9, HeaderConstants
  <2>2. Filling(2)'
    BY <1>1, <1>2, <1>4, <1>9, <2>1 DEF Filling, HeadIsGood
  <2> QED BY <1>1, <1>4, <1>9, <2>2 DEF ContainerInv, HeadInv, HeaderStages
<1> QED BY <1>1, <1>7, <1>8, <1>9

LEMMA FixedHeaderInv ==
  ASSUME IInv, ContainerInv, FixedHeader
  PROVE  ContainerInv'
<1> DEFINE take == Min2(10 - Len(filled), rest)
           h    == filled \o HeadPiece(take)
<1>1. /\ File.format = "gzip" /\ Filling(10) /\ stage = "FixedHeader"
      /\ Len(File.head) >= 10 /\ filled' = h
      /\ trailer' = trailer
      /\ \/ Len(h) < 10 /\ Consume(take) /\ stage' = stage
         \/ /\ Len(h) = 10 /\ parse_ok(h) /\ Consume(take)
            /\ flags' = h[4] /\ Enter(next_header_state(h[4]))
         \/ Len(h) = 10 /\ ~ parse_ok(h) /\ Return("err") /\ stage' = stage
  BY HeaderConstants
     DEF FixedHeader, HeaderFrame, InStage, ContainerInv, HeadInv, evars
<1>2. /\ take \in 0 .. rest
      /\ h \in Seq(0 .. 255) /\ Len(h) = Len(filled) + take /\ Len(h) <= 10
      /\ h = SubSeq(File.head, 1, Len(h))
      /\ Len(filled) < 10 => Here + take = Len(h)
      /\ Len(filled) = 10 => h = filled
  <2>1. FileTypes /\ 10 \in Nat /\ 10 <= Len(File.head)
    BY <1>1, FileConstants DEF ContainerInv
  <2> QED BY <1>1, <2>1, FillMore DEF HeadPiece
<1> HIDE DEF take, h
<1>3. HeaderStep(take)
  <2>1. Consume(take) \/ Return("err")
    BY <1>1
  <2> QED BY <2>1, Zenon DEF FixedHeader, HeaderFrame, InStage, HeaderStep, CallStep
<1>4. /\ stage' = stage => /\ FileTypes' /\ CallInv' /\ UNCHANGED File
                           /\ Consume(take) => Here' = Here + take
                           /\ fed' = 0 /\ Unread' = << >> /\ ~ finished'
                           /\ trailer' = << >>
  BY <1>1, <1>2, <1>3, HeaderMoves DEF HeaderStages
<1>5. Len(h) = 10 => /\ parse_ok(h) <=> HeadIsGood(File)
                     /\ h[4] = File.head[4]
  <2> SUFFICES ASSUME Len(h) = 10
               PROVE  (parse_ok(h) <=> HeadIsGood(File)) /\ h[4] = File.head[4]
    OBVIOUS
  <2>1. h = SubSeq(File.head, 1, 10) /\ 10 \in 0 .. Len(File.head)
    BY <1>1, <1>2, FileConstants
  <2>2. h[4] = File.head[4]
    BY <2>1, FileConstants, TakeProperties
  <2> QED BY <1>1, <2>1, <2>2, ParseFixed, FileConstants, HeaderConstants
<1>6. Len(filled) \in Nat /\ Len(filled) <= 10
  BY <1>1, LenProperties DEF Filling
<1>7. CASE Len(h) < 10 /\ Consume(take) /\ stage' = stage
  <2>1. Here' = Len(h)
    BY <1>2, <1>4, <1>6, <1>7
  <2>2. Filling(10)'
    BY <1>1, <1>2, <1>4, <1>7, <2>1 DEF Filling
  <2> QED BY <1>1, <1>4, <1>7, <2>2 DEF ContainerInv, HeadInv, HeaderStages
<1>8. CASE /\ Len(h) = 10 /\ parse_ok(h) /\ Consume(take)
           /\ flags' = h[4] /\ Enter(next_header_state(h[4]))
  <2>1. HeadIsGood(File) /\ h[4] = File.head[4]
    BY <1>5, <1>8
  <2>2. Len(filled) < 10
    BY <1>1, <1>6, <2>1, SMTT(30) DEF Filling
  <2>3. Here + take = 10
    BY <1>2, <1>8, <2>2
  <2>4. Expects(File.head, stage', Here + take)
    <3>1. IsGzipHeader(File.head) /\ 10 \in Nat
      BY <1>1, <2>1, HeaderConstants
    <3> QED BY <1>8, <2>1, <2>3, <3>1, Behind DEF Enter
  <2> QED BY <1>1, <1>2, <1>3, <1>8, <2>1, <2>4, Entered
       DEF Enter, CountIn, HeaderStages
<1>9. CASE Len(h) = 10 /\ ~ parse_ok(h) /\ Return("err") /\ stage' = stage
  <2>1. ~ HeadIsGood(File)
    BY <1>5, <1>9
  <2>2. Filling(10)'
    BY <1>1, <1>2, <1>4, <1>9, <2>1 DEF Filling, HeadIsGood
  <2> QED BY <1>1, <1>4, <1>9, <2>2 DEF ContainerInv, HeadInv, HeaderStages
<1> QED BY <1>1, <1>7, <1>8, <1>9

LEMMA ExtraInv ==
  ASSUME IInv, ContainerInv, Extra
  PROVE  ContainerInv'
<1> DEFINE h    == File.head
           n    == extra_len_bytes_filled
           take == Min2(2 - n, rest)
<1>1. /\ stage = "Extra" /\ Ahead /\ File.format = "gzip" /\ HeadIsGood(File)
      /\ rest > 0 /\ trailer' = trailer /\ flags' = flags
      /\ extra_len_bytes_filled' = n + take
      /\ Consume(take)
      /\ extra_len' = [j \in 1 .. 2 |-> IF j \in n + 1 .. n + take
                                        THEN h[Here + j - n] ELSE extra_len[j]]
  BY DEF Extra, HeaderFrame, InStage, ContainerInv, HeadInv, Ahead
<1>2. /\ IF n + take = 2
           THEN /\ extra_remaining' = extra_len'[1] + 256 * extra_len'[2]
                /\ stage' = "ExtraLen"
           ELSE stage' = stage
      /\ HeaderStep(take)
  BY Zenon DEF Extra, HeaderFrame, InStage, HeaderStep, CallStep
<1>3. /\ n \in 0 .. 1 /\ Here = 10 + n /\ Len(h) >= 12
      /\ BehindExtra(h, ExtraEnd(h)) /\ Here \in Nat /\ rest \in Nat
      /\ n = 1 => extra_len[1] = h[11]
  <2>1. Here \in Nat /\ rest \in Nat
    BY FileNumbers DEF ContainerInv
  <2>2. n \in 0 .. 1 /\ Expects(h, "Extra", Here - n) /\ (n = 1 => extra_len[1] = h[11])
    BY <1>1 DEF Ahead
  <2> QED BY <2>1, <2>2 DEF Expects
<1>4. take \in 1 .. rest /\ take \in 1 .. 2 - n
  BY <1>1, <1>3 DEF Min2
<1> HIDE DEF take
<1>5. /\ FileTypes' /\ CallInv' /\ UNCHANGED File
      /\ Here' = Here + take
      /\ fed' = 0 /\ Unread' = << >> /\ ~ finished' /\ trailer' = << >>
  BY <1>1, <1>2, <1>4, HeaderMoves DEF HeaderStages
<1>6. \A j \in 1 .. n + take : extra_len'[j] = h[10 + j]
  <2> TAKE j \in 1 .. n + take
  <2>1. j \in 1 .. 2 /\ n + take \in 1 .. 2
    BY <1>3, <1>4
  <2>2. CASE j \in n + 1 .. n + take
    <3>1. Here + j - n = 10 + j
      BY <1>3, <2>1
    <3> QED BY <1>1, <2>1, <2>2, <3>1
  <2>3. CASE j \notin n + 1 .. n + take
    <3>1. j = 1 /\ n = 1
      BY <1>3, <1>4, <2>1, <2>3
    <3> QED BY <1>1, <1>3, <2>1, <2>3, <3>1
  <2> QED BY <2>2, <2>3
<1>7. CASE n + take = 2
  <2>1. extra_len'[1] = h[11] /\ extra_len'[2] = h[12]
    BY <1>6, <1>7
  <2>2. h[11] \in Nat /\ h[12] \in Nat
    <3>1. h \in Seq(0 .. 255) /\ 11 \in 1 .. Len(h) /\ 12 \in 1 .. Len(h)
      BY <1>3, FileConstants
    <3>2. h[11] \in 0 .. 255 /\ h[12] \in 0 .. 255
      BY <3>1, ElementOfSeq, Zenon
    <3> QED BY <3>2
  <2> DEFINE r == extra_remaining'
  <2>3. r = h[11] + 256 * h[12] /\ r \in Nat
    BY <1>2, <1>7, <2>1, <2>2
  <2>4. Here' = 12
    BY <1>3, <1>4, <1>5, <1>7
  <2>5. Here' + r = ExtraEnd(h)
    BY <2>2, <2>3, <2>4 DEF ExtraEnd
  <2>6. Ahead'
    BY <1>1, <1>2, <1>3, <1>5, <1>7, <2>3, <2>5 DEF Ahead
  <2> QED BY <1>1, <1>2, <1>5, <1>7, <2>6
          DEF ContainerInv, HeadInv, HeaderStages, HeadIsGood
<1>8. CASE n + take # 2
  <2>1. n = 0 /\ take = 1
    BY <1>3, <1>4, <1>8
  <2>2. Here' = 11 /\ extra_len_bytes_filled' = 1 /\ stage' = "Extra"
    BY <1>1, <1>2, <1>3, <1>5, <1>8, <2>1
  <2>3. extra_len'[1] = h[11]
    BY <1>6, <2>1
  <2>4. Expects(h, "Extra", 10)
    BY <1>3 DEF Expects
  <2>5. Ahead'
    BY <1>1, <1>5, <2>2, <2>3, <2>4 DEF Ahead
  <2> QED BY <1>1, <1>5, <2>2, <2>5
          DEF ContainerInv, HeadInv, HeaderStages, HeadIsGood
<1> QED BY <1>7, <1>8

LEMMA ExtraLenInv ==
  ASSUME IInv, ContainerInv, ExtraLen
  PROVE  ContainerInv'
<1> DEFINE h    == File.head
           left == extra_remaining
           take == Min2(left, rest)
<1>1. /\ stage = "ExtraLen" /\ Ahead /\ File.format = "gzip" /\ HeadIsGood(File)
      /\ trailer' = trailer /\ flags' = flags
      /\ extra_remaining' = left - take /\ Consume(take)
      /\ IF take = left
           THEN Enter(past_extra(flags))
           ELSE UNCHANGED <<stage, extra_len_bytes_filled>>
  BY DEF ExtraLen, HeaderFrame, InStage, ContainerInv, HeadInv, Ahead
<1>2. HeaderStep(take)
  BY Zenon DEF ExtraLen, HeaderFrame, InStage, HeaderStep, CallStep
<1>3. /\ left \in Nat /\ BehindExtra(h, Here + left) /\ flags = h[4]
      /\ Here \in Nat /\ rest \in Nat
  BY <1>1, FileNumbers DEF Ahead, ContainerInv
<1>4. take \in 0 .. rest /\ take \in 0 .. left
  BY <1>3 DEF Min2
<1> HIDE DEF take
<1>5. CASE take = left
  <2>1. Here + left \in Nat
    BY <1>3
  <2>2. Expects(h, stage', Here + take)
    BY <1>1, <1>3, <1>5, <2>1, Behind DEF Enter
  <2> QED BY <1>1, <1>2, <1>3, <1>4, <1>5, <2>2, Entered
          DEF Enter, CountIn, HeaderStages
<1>6. CASE take # left
  <2>1. stage' = "ExtraLen"
    BY <1>1, <1>6
  <2>2. /\ FileTypes' /\ CallInv' /\ UNCHANGED File
        /\ Here' = Here + take
        /\ fed' = 0 /\ Unread' = << >> /\ ~ finished' /\ trailer' = << >>
    BY <1>1, <1>2, <1>4, <2>1, HeaderMoves DEF HeaderStages
  <2> DEFINE r == extra_remaining'
  <2>3. r \in Nat /\ Here' + r = Here + left
    BY <1>1, <1>3, <1>4, <2>2
  <2>4. Ahead'
    BY <1>1, <1>3, <2>1, <2>2, <2>3 DEF Ahead
  <2> QED BY <1>1, <2>1, <2>2, <2>4
          DEF ContainerInv, HeadInv, HeaderStages, HeadIsGood
<1> QED BY <1>5, <1>6

(* A text that ends at byte q is skipped through q, or the call ends in    *)
(* the middle of it.                                                       *)
LEMMA TextSkipped ==
  ASSUME IInv, ContainerInv, NEW past, SkipText(past), rest > 0,
         NEW q \in 1 .. Len(File.head), IsText(File.head, Here, q)
  PROVE  \/ /\ Consume(rest) /\ UNCHANGED stage
            /\ IsText(File.head, Here + rest, q)
         \/ /\ q - Here \in 0 .. rest
            /\ Consume(q - Here) /\ Enter(past)
<1> DEFINE h     == File.head
           zeros == {j \in 1 .. rest : Here + j <= Len(h) /\ h[Here + j] = 0}
<1>1. /\ Here \in Nat /\ rest \in Nat /\ Len(h) \in Nat
      /\ q \in Here + 1 .. Len(h) /\ h[q] = 0
      /\ \A j \in Here + 1 .. q - 1 : h[j] # 0
  BY FileNumbers, FileConstants DEF ContainerInv, IsText
<1>2. \/ zeros = {} /\ Consume(rest) /\ UNCHANGED stage
      \/ \E k \in zeros :
           (\A j \in zeros : k <= j) /\ Consume(k) /\ Enter(past)
  BY DEF SkipText
<1>3. q - Here <= rest => q - Here \in zeros
  <2>1. q - Here \in Nat \ {0} /\ Here + (q - Here) = q
    BY <1>1
  <2> QED BY <1>1, <2>1
<1>4. CASE zeros = {} /\ Consume(rest) /\ UNCHANGED stage
  <2>1. ~ (q - Here <= rest)
    BY <1>3, <1>4
  <2>2. q \in (Here + rest) + 1 .. Len(h)
    BY <1>1, <2>1
  <2>3. \A j \in (Here + rest) + 1 .. q - 1 : h[j] # 0
    BY <1>1
  <2> QED BY <1>1, <1>4, <2>2, <2>3 DEF IsText
<1>5. CASE \E k \in zeros :
             (\A j \in zeros : k <= j) /\ Consume(k) /\ Enter(past)
  <2>1. PICK k \in zeros :
               (\A j \in zeros : k <= j) /\ Consume(k) /\ Enter(past)
    BY <1>5
  <2>2. k \in 1 .. rest /\ Here + k <= Len(h) /\ h[Here + k] = 0
    OBVIOUS
  <2>3. k = q - Here
    <3>1. ~ (Here + k < q)
      <4>1. Here + k < q => Here + k \in Here + 1 .. q - 1
        BY <1>1, <2>2
      <4> QED BY <1>1, <2>2, <4>1
    <3>2. q - Here <= k /\ q - Here <= rest
      BY <1>1, <2>2, <3>1
    <3>3. k <= q - Here
      BY <1>3, <2>1, <3>2
    <3> QED BY <1>1, <2>2, <3>2, <3>3
  <2>4. q - Here \in 0 .. rest
    BY <2>2, <2>3
  <2> QED BY <2>1, <2>3, <2>4
<1> QED BY <1>2, <1>4, <1>5

LEMMA TextInv ==
  ASSUME IInv, ContainerInv, Name \/ Comment
  PROVE  ContainerInv'
<1> DEFINE h    == File.head
           past == IF stage = "Name" THEN past_name(flags)
                                     ELSE past_comment(flags)
<1>1. /\ stage \in {"Name", "Comment"} /\ rest > 0 /\ at = "feed"
      /\ SkipText(past)
  BY DEF Name, Comment, InStage
<1> HIDE DEF past
<1>2. /\ Ahead /\ File.format = "gzip" /\ HeadIsGood(File)
      /\ trailer' = trailer /\ flags' = flags /\ flags = h[4]
      /\ Expects(h, stage, Here)
  BY <1>1 DEF SkipText, HeaderFrame, ContainerInv, HeadInv, Ahead
<1>3. PICK q \in 1 .. Len(h) :
        /\ IsText(h, Here, q)
        /\ IF stage = "Name" THEN BehindName(h, q) ELSE BehindComment(h, q)
  BY <1>1, <1>2 DEF Expects
<1>4. /\ Here \in Nat /\ rest \in Nat /\ Len(h) \in Nat /\ q \in Nat
      /\ rest \in 0 .. rest
  BY FileNumbers, FileConstants DEF ContainerInv
<1>5. CASE /\ Consume(rest) /\ UNCHANGED stage
           /\ IsText(h, Here + rest, q)
  <2>1. HeaderStep(rest)
    BY <1>1, <1>5, Zenon DEF SkipText, HeaderFrame, HeaderStep, CallStep
  <2>2. /\ FileTypes' /\ CallInv' /\ UNCHANGED File
        /\ Here' = Here + rest
        /\ fed' = 0 /\ Unread' = << >> /\ ~ finished' /\ trailer' = << >>
    BY <1>1, <1>2, <1>4, <1>5, <2>1, HeaderMoves DEF HeaderStages
  <2>3. Expects(h, stage', Here')
    BY <1>1, <1>3, <1>5, <2>2 DEF Expects
  <2>4. Ahead'
    BY <1>1, <1>2, <1>5, <2>2, <2>3 DEF Ahead
  <2> QED BY <1>1, <1>2, <1>5, <2>2, <2>4
          DEF ContainerInv, HeadInv, HeaderStages, HeadIsGood
<1>6. CASE q - Here \in 0 .. rest /\ Consume(q - Here) /\ Enter(past)
  <2> DEFINE k == q - Here
  <2>1. Here + k = q /\ k \in 0 .. rest
    BY <1>4, <1>6
  <2> HIDE DEF k
  <2>2. Consume(k)
    BY <1>6 DEF k
  <2>3. HeaderStep(k)
    BY <1>1, <2>2, Zenon DEF SkipText, HeaderFrame, HeaderStep, CallStep
  <2>4. Expects(h, past, q)
    BY <1>1, <1>2, <1>3, <1>4, Behind DEF past
  <2> QED BY <1>1, <1>2, <1>6, <2>1, <2>2, <2>3, <2>4, Entered
          DEF Enter, CountIn, HeaderStages
<1> QED BY <1>1, <1>3, <1>5, <1>6, TextSkipped

LEMMA HcrcInv ==
  ASSUME IInv, ContainerInv, Hcrc
  PROVE  ContainerInv'
<1> DEFINE h    == File.head
           n    == extra_len_bytes_filled
           skip == Min2(2 - n, rest)
<1>1. /\ stage = "Hcrc" /\ Ahead /\ File.format = "gzip" /\ HeadIsGood(File)
      /\ rest > 0 /\ at = "feed" /\ trailer' = trailer /\ flags' = flags
      /\ flags = h[4]
      /\ Consume(skip)
      /\ IF n + skip = 2
           THEN stage' = "Body" /\ extra_len_bytes_filled' = 0
           ELSE extra_len_bytes_filled' = n + skip /\ UNCHANGED stage
  BY DEF Hcrc, HeaderFrame, InStage, ContainerInv, HeadInv, Ahead
<1>2. HeaderStep(skip)
  BY Zenon DEF Hcrc, HeaderFrame, InStage, HeaderStep, CallStep
<1>3. n \in 0 .. 1 /\ Here \in Nat /\ rest \in Nat /\ Len(h) = Here - n + 2
  BY <1>1, FileNumbers DEF Ahead, Expects, ContainerInv
<1>4. skip \in 1 .. rest /\ skip \in 1 .. 2 - n
  BY <1>1, <1>3 DEF Min2
<1> HIDE DEF skip
<1>5. CASE n + skip = 2
  <2>1. Here + skip = Len(h)
    BY <1>3, <1>4, <1>5
  <2>2. Expects(h, stage', Here + skip)
    BY <1>1, <1>5, <2>1 DEF Expects
  <2> QED BY <1>1, <1>2, <1>4, <1>5, <2>2, Entered DEF HeaderStages
<1>6. CASE n + skip # 2
  <2>1. stage' = "Hcrc" /\ extra_len_bytes_filled' = 1 /\ n = 0 /\ skip = 1
    BY <1>1, <1>3, <1>4, <1>6
  <2>2. /\ FileTypes' /\ CallInv' /\ UNCHANGED File
        /\ Here' = Here + skip
        /\ fed' = 0 /\ Unread' = << >> /\ ~ finished' /\ trailer' = << >>
    BY <1>1, <1>2, <1>4, <2>1, HeaderMoves DEF HeaderStages
  <2>3. Len(h) = (Here' - 1) + 2
    BY <1>3, <2>1, <2>2
  <2>4. Expects(h, "Hcrc", Here' - 1)
    BY <2>3 DEF Expects
  <2>5. Ahead'
    BY <1>1, <2>1, <2>2, <2>4 DEF Ahead
  <2> QED BY <1>1, <2>1, <2>2, <2>5
          DEF ContainerInv, HeadInv, HeaderStages, HeadIsGood
<1> QED BY <1>5, <1>6
-----------------------------------------------------------------------------
(* The rest of a call of feed.                                             *)
LEMMA FileNext ==
  ASSUME UNCHANGED id
  PROVE  UNCHANGED <<File, S, FileSize, TRAILER>>
BY DEF File, S, FileSize, TRAILER

(* The header is behind: what HeadInv says of the body and of the trailer. *)
LEMMA HeadBehind ==
  ASSUME IInv, ContainerInv, UNCHANGED id, stage \notin HeaderStages,
         stage' \notin HeaderStages, Here' \in Nat, Here <= Here',
         stage' = "Body" => trailer' = << >> /\ Here' = Len(File.head) + fed'
  PROVE  HeadInv'
<1>1. HeadIsGood(File) /\ UNCHANGED File /\ Len(File.head) <= Here
  BY FileNext DEF ContainerInv, HeadInv, HeaderStages
<1>2. Len(File.head) <= Here'
  BY <1>1, FileConstants, FileNumbers DEF ContainerInv
<1> QED BY <1>1, <1>2 DEF HeadInv, HeaderStages

(* What a call does between two stages leaves the header as it is.         *)
LEMMA HeadKept ==
  ASSUME ContainerInv,
         UNCHANGED <<id, fed, finished, Unread, stage, filled, trailer, evars, Here>>
  PROVE  HeadInv'
<1>1. /\ UNCHANGED <<id, fed, finished, Unread, stage, filled, trailer, Here>>
      /\ UNCHANGED <<flags, extra_len, extra_len_bytes_filled, extra_remaining>>
      /\ UNCHANGED File
  BY FileNext DEF evars
<1> QED BY <1>1 DEF ContainerInv, HeadInv, Filling, Ahead

LEMMA FeedPieceInv ==
  ASSUME IInv, ContainerInv, NEW n \in PieceSizes \cup {FileSize - got},
         FeedPiece(n), UNCHANGED evars
  PROVE  ContainerInv' /\ UNCHANGED Here
<1>1. /\ got \in Nat /\ FileSize \in Nat /\ got <= FileSize /\ rest = 0
      /\ Here = got
  <2>1. /\ got \in Nat /\ FileSize \in Nat /\ got <= FileSize
        /\ Here + rest = got /\ Here \in Nat /\ rest = 0
    BY FileNumbers, FileConstants DEF ContainerInv, CallInv, FeedPiece
  <2> QED BY <2>1
<1>2. n \in Nat
  BY <1>1, ContainerAssumption
<1>3. /\ got' = got + n /\ rest' = n /\ got + n <= FileSize
      /\ at' = "feed"
      /\ UNCHANGED <<vars, stage, filled, trailer, done, answer>>
  BY DEF FeedPiece
<1>4. /\ UNCHANGED <<id, fed, pc, finished, state, Unread, File, FileSize, TRAILER>>
      /\ at = "idle"
  BY <1>3, SameDecoder, FileNext DEF FeedPiece
<1>5. /\ got' \in 0 .. FileSize /\ rest' \in 0 .. got'
  BY <1>1, <1>2, <1>3
<1>6. UNCHANGED Here
  BY <1>1, <1>2, <1>3 DEF Here
<1>7. FileTypes'
  BY <1>3, <1>4, <1>5 DEF FileTypes, ContainerInv
<1>8. CallInv'
  BY <1>3, <1>4 DEF CallInv, LoopInv, Running, ContainerInv
<1> QED BY <1>3, <1>4, <1>6, <1>7, <1>8, HeadKept DEF ContainerInv

LEMMA FeedReturnsInv ==
  ASSUME IInv, ContainerInv, FeedReturns_ok, UNCHANGED evars
  PROVE  ContainerInv'
<1>1. /\ rest = 0 /\ 0 \in 0 .. rest /\ CallStep(0) /\ Return("ok")
      /\ UNCHANGED <<stage, filled, trailer, done>>
  BY DEF FeedReturns_ok, CallStep
<1>2. FileTypes /\ CallInv /\ at = "feed"
  BY DEF ContainerInv, FeedReturns_ok
<1>3. UNCHANGED <<id, fed, finished, Unread, TRAILER>>
  BY <1>1, SameDecoder, FileNext DEF CallStep, vars
<1>4. UNCHANGED Here
  BY <1>1 DEF Return, CallStep, Here
<1>5. FileTypes' /\ CallInv'
  <2>1. stage' = "Body" => ~ finished
    BY <1>1, <1>2 DEF CallInv
  <2> QED BY <1>1, <1>2, <1>3, <2>1, Consumed DEF FileTypes
<1> QED BY <1>1, <1>3, <1>4, <1>5, HeadKept DEF ContainerInv

LEMMA FeedBodyInv ==
  ASSUME IInv, ContainerInv, FeedBody
  PROVE  /\ ContainerInv' /\ Feed(rest) /\ ~ finished /\ stage' = "Body"
         /\ fed' = fed + rest /\ at' = "body"
<1>1. /\ at = "feed" /\ stage = "Body" /\ Feed(rest) /\ rest' = 0
      /\ at' = "body" /\ UNCHANGED <<got, stage, filled, trailer, done, answer>>
  BY DEF FeedBody, InStage
<1>2. ~ finished /\ trailer = << >> /\ Here = Len(File.head) + fed
  BY <1>1 DEF ContainerInv, CallInv, HeadInv
<1>3. /\ fed' = fed + rest /\ pc' # "idle" /\ UNCHANGED id
  BY <1>1, <1>2 DEF Feed
<1>4. /\ got \in Nat /\ rest \in Nat /\ fed \in Nat /\ Len(File.head) \in Nat
      /\ Here = got - rest
  BY FileNumbers, FileConstants, CurrentReader DEF ContainerInv, Here
<1>5. Here' = Len(File.head) + fed' /\ Here' \in Nat /\ Here <= Here'
  <2> DEFINE c  == Len(File.head)
             fd == fed'
             hr == Here'
  <2>1. c \in Nat /\ fed \in Nat /\ got \in Nat /\ rest \in Nat
        /\ got - rest = c + fed /\ fd = fed + rest /\ Here = got - rest
    BY <1>2, <1>3, <1>4
  <2>2. hr = got
    BY <1>1, <1>4 DEF Here
  <2> HIDE DEF c, fd, hr
  <2>3. hr = c + fd /\ hr \in Nat /\ Here <= hr
    BY <2>1, <2>2
  <2> QED BY <2>3 DEF c, fd, hr
<1>6. FileTypes'
  BY <1>1, <1>3, <1>4, FileNext DEF ContainerInv, FileTypes
<1>7. CallInv'
  BY <1>1, <1>3 DEF CallInv, LoopInv, Running, Returned
<1>8. HeadInv'
  BY <1>1, <1>2, <1>3, <1>5, HeadBehind DEF HeaderStages
<1> QED BY <1>1, <1>2, <1>3, <1>6, <1>7, <1>8 DEF ContainerInv

(* A step of the body that takes no byte and does not move the decoder.    *)
LEMMA BodyKept ==
  ASSUME IInv, ContainerInv, stage = "Body", rest = 0, rest' = 0,
         UNCHANGED <<id, fed, got, stage, trailer, done>>,
         at' \in {"idle", "feed", "body"} \cup LoopPlaces \cup LoopEnds,
         answer' \in {"ok", "err"},
         at' \in {"idle", "feed"} => ~ finished',
         LoopInv(Running)'
  PROVE  ContainerInv'
<1>1. FileTypes' /\ UNCHANGED Here
  BY FileNext DEF ContainerInv, FileTypes, Here
<1>2. CallInv'
  BY DEF CallInv
<1>3. HeadInv'
  BY <1>1, FileNumbers, HeadBehind DEF ContainerInv, HeadInv, HeaderStages
<1> QED BY <1>1, <1>2, <1>3 DEF ContainerInv

(* The decoder runs, or the loop goes on.                                  *)
LEMMA BodyRuns ==
  ASSUME IInv, ContainerInv
  PROVE  /\ Fits(Running) /\ LoopInv(Running)
         /\ at \notin {"idle", "feed"} => stage = "Body" /\ rest = 0
BY DEF ContainerInv, CallInv, Fits, Running

LEMMA BodyFedInv ==
  ASSUME IInv, ContainerInv, BodyFed
  PROVE  ContainerInv'
<1>1. /\ at = "body" /\ pc = "idle"
      /\ at' = IF result = "err" THEN "failed" ELSE "drain"
      /\ UNCHANGED <<vars, got, rest, stage, trailer, done, answer>>
  BY DEF BodyFed
<1>2. stage = "Body" /\ rest = 0 /\ Returned
  BY <1>1, BodyRuns DEF LoopInv, Running
<1>3. LoopInv(Running)'
  BY <1>1, <1>2, SameDecoder DEF LoopInv, Running, Returned
<1> QED BY <1>1, <1>2, <1>3, SameDecoder, BodyKept
        DEF ContainerInv, FileTypes, LoopPlaces, LoopEnds

LEMMA LoopLeftInv ==
  ASSUME IInv, ContainerInv, LoopFailed \/ LoopStarved
  PROVE  ContainerInv'
<1>1. /\ at \in {"failed", "starved"} /\ at' \in {"idle", "feed"}
      /\ answer' \in {"ok", "err"}
      /\ stage = "Body" /\ rest = 0 /\ rest' = 0
      /\ UNCHANGED <<vars, got, stage, trailer, done>>
  BY BodyRuns DEF LoopFailed, LoopStarved, Return, ContainerInv, FileTypes
<1>2. ~ finished /\ pc # "drive"
  BY <1>1, BodyRuns DEF LoopInv, IInv, BitsOK, Running
<1>3. LoopInv(Running)'
  BY <1>1, <1>2, SameDecoder DEF LoopInv, Running
<1> QED BY <1>1, <1>2, <1>3, SameDecoder, BodyKept

LEMMA DecoderStepInv ==
  ASSUME IInv, ContainerInv, DecoderStep
  PROVE  ContainerInv' /\ Step /\ at \in Running
<1>1. /\ Step /\ UNCHANGED <<at, got, rest, stage, trailer, done, answer>>
      /\ UNCHANGED <<id, fed>>
  BY StepDrives DEF DecoderStep, Step
<1>2. at \in Running
  BY <1>1, StepDrives, BodyRuns DEF LoopInv
<1>3. LoopInv(Running)'
  BY <1>1, BodyRuns, LoopSteps
<1>4. at' \notin {"idle", "feed"}
  BY <1>1, <1>2 DEF Running
<1> QED BY <1>1, <1>2, <1>3, <1>4, BodyRuns, BodyKept DEF ContainerInv, FileTypes

LEMMA LoopCallInv ==
  ASSUME IInv, ContainerInv, LoopFrame, Drain \/ Resume \/ Check
  PROVE  ContainerInv' /\ UNCHANGED <<id, fed>>
<1>1. /\ at \in LoopPlaces /\ at' \in LoopPlaces \cup LoopEnds
      /\ UNCHANGED <<got, rest, stage, trailer, done, answer>>
  BY DEF Drain, Resume, Check, LoopFrame, LoopPlaces, LoopEnds
<1>2. UNCHANGED <<id, fed>>
  <2>1. Drain => UNCHANGED <<id, fed>>
    BY DEF Drain, Advance
  <2>2. Resume => UNCHANGED <<id, fed>>
    <3>1. Feed(0) => UNCHANGED <<id, fed>>
      BY CurrentReader DEF Feed
    <3> QED BY <3>1 DEF Resume
  <2>3. Check => UNCHANGED <<id, fed>>
    BY DEF Check, vars
  <2> QED BY <2>1, <2>2, <2>3
<1>3. LoopInv(Running)'
  BY BodyRuns, LoopCalls
<1>4. stage = "Body" /\ rest = 0 /\ at' \notin {"idle", "feed"}
  BY <1>1, BodyRuns DEF LoopPlaces, LoopEnds
<1> QED BY <1>1, <1>2, <1>3, <1>4, BodyKept DEF ContainerInv, FileTypes
-----------------------------------------------------------------------------
(* Behind the body.                                                        *)
LEMMA LeftOverPiece ==
  ASSUME IInv
  PROVE  /\ LeftOver \in Seq(TailBytes) /\ Len(LeftOver) = Min2(input, TRAILER)
         /\ Min2(input, TRAILER) \in 0 .. TRAILER /\ Min2(input, TRAILER) <= input
<1> DEFINE n == Min2(input, TRAILER)
           k == fed - input
<1>1. /\ fed \in Nat /\ input \in Nat /\ input <= fed /\ fed <= S.size
      /\ S.size \in Nat /\ TRAILER \in Nat
  BY CurrentReader, FileConstants
<1>2. n \in 0 .. TRAILER /\ n <= input /\ n \in Nat
  BY <1>1 DEF Min2
<1> HIDE DEF n
<1>3. k \in Nat /\ k + n <= S.size
  BY <1>1, <1>2
<1> HIDE DEF k
<1>4. TailPiece(k, n) \in Seq(TailBytes) /\ Len(TailPiece(k, n)) = n
  BY <1>2, <1>3, PieceProperties
<1> QED BY <1>2, <1>4 DEF LeftOver, n, k

(* With the decoder's tail looked at, the call ends with an error or goes  *)
(* on without a byte.                                                      *)
LEMMA TailTaken ==
  ASSUME IInv, ContainerInv, NEW m \in BOOLEAN, consume_deflate_tail(m)
  PROVE  /\ ContainerInv' /\ UNCHANGED <<vars, Here>>
         /\ finished /\ Unread = << >> /\ trailer' = LeftOver
         /\ stage = "Body" /\ at = "ended"
         /\ stage' = IF Len(LeftOver) = TRAILER /\ m THEN "Done" ELSE "Trailer"
         /\ IF Len(LeftOver) = TRAILER /\ (~ m \/ input > TRAILER)
              THEN at' = "idle" /\ answer' = "err"
              ELSE at' = "feed" /\ answer' = answer
<1>1. /\ at = "ended" /\ trailer' = LeftOver
      /\ done' = (Len(LeftOver) = TRAILER /\ m)
      /\ stage' = IF Len(LeftOver) = TRAILER /\ m THEN "Done" ELSE "Trailer"
      /\ IF Len(LeftOver) = TRAILER /\ (~ m \/ input > TRAILER)
           THEN at' = "idle" /\ answer' = "err" /\ rest' = 0
           ELSE at' = "feed" /\ answer' = answer /\ rest' = rest
      /\ UNCHANGED <<vars, got>>
  BY DEF consume_deflate_tail, Return
<1>2. /\ stage = "Body" /\ rest = 0 /\ finished /\ Unread = << >>
      /\ pc # "drive"
  BY <1>1, BodyRuns DEF LoopInv, Running
<1>3. /\ UNCHANGED <<id, pc, state, finished, Unread, File, FileSize, TRAILER, Here>>
      /\ rest' = 0 /\ stage' \in {"Trailer", "Done"}
  BY <1>1, <1>2, SameDecoder, FileNext DEF Here
<1>4. /\ LeftOver \in Seq(TailBytes) /\ Len(LeftOver) <= TRAILER
  BY LeftOverPiece, FileConstants
<1>5. FileTypes'
  BY <1>1, <1>2, <1>3, <1>4 DEF ContainerInv, FileTypes
<1>6. CallInv'
  BY <1>1, <1>2, <1>3 DEF CallInv, LoopInv, Running
<1>7. HeadInv'
  BY <1>2, <1>3, HeadBehind, FileNumbers DEF ContainerInv, HeaderStages
<1> QED BY <1>1, <1>2, <1>3, <1>5, <1>6, <1>7 DEF ContainerInv

(* A call goes on in the trailer with t, which is full or not.             *)
LEMMA TrailerGrows ==
  ASSUME IInv, ContainerInv, stage = "Trailer",
         NEW take, take = Min2(TRAILER - Len(trailer), rest)
  PROVE  /\ take \in 0 .. rest
         /\ Filled(take) \in Seq(TailBytes)
         /\ Len(Filled(take)) = Len(trailer) + take
         /\ Len(Filled(take)) <= TRAILER
<1> DEFINE k == Here - Len(File.head)
<1>1. /\ Here \in Nat /\ rest \in Nat /\ got \in Nat
      /\ Here + rest = got /\ got <= FileSize
      /\ FileSize = Len(File.head) + S.size /\ S.size \in Nat
      /\ Len(File.head) \in Nat /\ Len(File.head) <= Here
      /\ trailer \in Seq(TailBytes) /\ Len(trailer) \in Nat
      /\ Len(trailer) <= TRAILER /\ TRAILER \in Nat
  BY FileNumbers, FileConstants
     DEF ContainerInv, HeadInv, HeaderStages, FileTypes
<1>2. /\ take \in 0 .. rest /\ take \in Nat
      /\ Len(trailer) + take <= TRAILER
  BY <1>1 DEF Min2
<1>3. k \in Nat /\ k + take <= S.size
  BY <1>1, <1>2, SMTT(30)
<1> HIDE DEF k
<1>4. TailPiece(k, take) \in Seq(TailBytes) /\ Len(TailPiece(k, take)) = take
  BY <1>2, <1>3, PieceProperties
<1>5. /\ trailer \o TailPiece(k, take) \in Seq(TailBytes)
      /\ Len(trailer \o TailPiece(k, take)) = Len(trailer) + take
  <2> DEFINE piece == TailPiece(k, take)
  <2>1. piece \in Seq(TailBytes) /\ trailer \in Seq(TailBytes) /\ Len(piece) = take
    BY <1>1, <1>4
  <2> HIDE DEF piece
  <2>2. /\ trailer \o piece \in Seq(TailBytes)
        /\ Len(trailer \o piece) = Len(trailer) + Len(piece)
    BY ONLY <2>1, ConcatProperties, Zenon
  <2> QED BY <2>1, <2>2 DEF piece
<1> QED BY <1>1, <1>2, <1>5 DEF Filled, k

LEMMA TrailerStep ==
  ASSUME IInv, ContainerInv, NEW take, take = Min2(TRAILER - Len(trailer), rest),
         InStage("Trailer"), trailer' = Filled(take), UNCHANGED <<vars, before, got>>,
         NEW m, EndTrailer(take, m) \/ (Consume(take) /\ UNCHANGED <<stage, done>>)
  PROVE  /\ ContainerInv' /\ Here' \in Nat /\ Here <= Here'
         /\ Consume(take) => Here' = Here + take
<1>1. /\ take \in 0 .. rest /\ trailer' \in Seq(TailBytes)
      /\ Len(trailer') <= TRAILER /\ stage = "Trailer" /\ at = "feed"
  BY TrailerGrows DEF InStage
<1>2. CallStep(take)
  BY <1>1 DEF EndTrailer, CallStep
<1>3. stage' \in {"Trailer", "Done"} /\ done' = (stage' = "Done")
  <2>1. done = FALSE
    BY <1>1 DEF ContainerInv, FileTypes
  <2> QED BY <1>1, <2>1 DEF EndTrailer
<1>4. /\ FileTypes' /\ CallInv' /\ Here' \in Nat /\ Here' >= Here
      /\ Consume(take) => Here' = Here + take
  BY <1>1, <1>2, <1>3, Consumed DEF ContainerInv
<1>5. Here \in Nat
  BY FileNumbers DEF ContainerInv
<1>6. HeadInv'
  BY <1>1, <1>3, <1>4, <1>5, HeadBehind DEF HeaderStages, vars
<1> QED BY <1>4, <1>5, <1>6 DEF ContainerInv

LEMMA FeedDoneInv ==
  ASSUME IInv, ContainerInv, FeedDone
  PROVE  ContainerInv' /\ Here' = got /\ Here <= Here'
<1>1. /\ stage = "Done" /\ at = "feed" /\ rest' = 0 /\ Return("err")
      /\ UNCHANGED <<vars, before, got, stage, trailer, done>>
  BY DEF FeedDone, InStage, Return
<1>2. /\ 0 \in 0 .. rest /\ CallStep(0)
      /\ UNCHANGED <<id, TRAILER>>
  BY <1>1, FileNumbers, FileNext DEF ContainerInv, CallStep, vars
<1>3. /\ FileTypes' /\ CallInv' /\ Here' \in Nat /\ Here' >= Here
  BY <1>1, <1>2, Consumed DEF ContainerInv, FileTypes
<1>4. Here \in Nat /\ got \in Nat
  BY FileNumbers DEF ContainerInv
<1>5. HeadInv'
  BY <1>1, <1>2, <1>3, <1>4, HeadBehind DEF HeaderStages
<1>6. Here' = got
  BY <1>1, <1>4 DEF Here
<1> QED BY <1>3, <1>4, <1>5, <1>6 DEF ContainerInv
-----------------------------------------------------------------------------
(* A file being decoded.                                                   *)
LEMMA CommonInv ==
  ASSUME IInv, ContainerInv, CommonNext, UNCHANGED evars
  PROVE  ContainerInv'
<1>1. CASE \E n \in PieceSizes \cup {FileSize - got} : FeedPiece(n)
  BY <1>1, FeedPieceInv
<1>2. CASE FeedReturns_ok
  BY <1>2, FeedReturnsInv
<1>3. CASE FeedBody \/ BodyFed \/ LoopFailed \/ LoopStarved
  BY <1>3, FeedBodyInv, BodyFedInv, LoopLeftInv
<1>4. CASE FeedDone \/ DecoderStep
  BY <1>4, FeedDoneInv, DecoderStepInv
<1>5. CASE (Resume \/ Check) /\ LoopFrame
  BY <1>5, LoopCallInv
<1> QED BY <1>1, <1>2, <1>3, <1>4, <1>5 DEF CommonNext

LEMMA GzipTrailerStep ==
  ASSUME IInv, ContainerInv, GzipTrailer
  PROVE  LET take == Min2(TRAILER - Len(trailer), rest)
             t    == Filled(take)
         IN  /\ ContainerInv' /\ Here' \in Nat /\ Here <= Here'
             /\ Consume(take) => Here' = Here + take
<1> DEFINE take == Min2(TRAILER - Len(trailer), rest)
<1>1. /\ InStage("Trailer") /\ trailer' = Filled(take)
      /\ UNCHANGED <<vars, before, got>>
      /\ \/ EndTrailer(take, GzipMatches(Filled(take)))
         \/ Consume(take) /\ UNCHANGED <<stage, done>>
  BY DEF GzipTrailer
<1> HIDE DEF take
<1>2. take = Min2(TRAILER - Len(trailer), rest)
  BY DEF take
<1>3. /\ ContainerInv' /\ Here' \in Nat /\ Here <= Here'
      /\ Consume(take) => Here' = Here + take
  BY <1>1, <1>2, TrailerStep
<1> QED BY <1>3, Zenon DEF take

LEMMA ZlibTrailerStep ==
  ASSUME IInv, ContainerInv, ZlibTrailer
  PROVE  LET take == Min2(TRAILER - Len(trailer), rest)
         IN  /\ ContainerInv' /\ Here' \in Nat /\ Here <= Here'
             /\ Consume(take) => Here' = Here + take
<1> DEFINE take == Min2(TRAILER - Len(trailer), rest)
<1>1. /\ InStage("Trailer") /\ trailer' = Filled(take)
      /\ UNCHANGED <<vars, before, got>>
      /\ \/ EndTrailer(take, ZlibMatches(Filled(take)))
         \/ Consume(take) /\ UNCHANGED <<stage, done>>
  BY DEF ZlibTrailer
<1> HIDE DEF take
<1>2. take = Min2(TRAILER - Len(trailer), rest)
  BY DEF take
<1>3. /\ ContainerInv' /\ Here' \in Nat /\ Here <= Here'
      /\ Consume(take) => Here' = Here + take
  BY <1>1, <1>2, TrailerStep
<1> QED BY <1>3, Zenon DEF take

LEMMA FilesNextInv ==
  IInv /\ ContainerInv /\ [FilesNext]_gvars => ContainerInv'
<1> SUFFICES ASSUME IInv, ContainerInv, [FilesNext]_gvars
             PROVE  ContainerInv'
  OBVIOUS
<1>1. CASE GNext
  <2>1. CASE FixedHeader \/ Extra \/ ExtraLen \/ Name \/ Comment \/ Hcrc
    BY <2>1, FixedHeaderInv, ExtraInv, ExtraLenInv, TextInv, HcrcInv
  <2>2. CASE GzipDrain
    BY <2>2, LoopCallInv DEF GzipDrain
  <2>3. CASE GzipTail
    BY <2>3, TailTaken DEF GzipTail, GzipMatches
  <2>4. CASE GzipTrailer
    BY <2>4, GzipTrailerStep
  <2>5. CASE CommonNext /\ UNCHANGED evars
    BY <2>5, CommonInv
  <2> QED BY <1>1, <2>1, <2>2, <2>3, <2>4, <2>5 DEF GNext
<1>2. CASE ZNext /\ UNCHANGED <<evars, isize>>
  <2>1. CASE ReadHeader
    BY <2>1, ReadHeaderInv
  <2>2. CASE ZlibDrain
    BY <2>2, LoopCallInv DEF ZlibDrain
  <2>3. CASE ZlibTail
    BY <2>3, TailTaken DEF ZlibTail, ZlibMatches
  <2>4. CASE ZlibTrailer
    BY <2>4, ZlibTrailerStep
  <2>5. CASE CommonNext
    BY <1>2, <2>5, CommonInv
  <2> QED BY <1>2, <2>1, <2>2, <2>3, <2>4, <2>5 DEF ZNext
<1>3. CASE UNCHANGED gvars
  <2>1. UNCHANGED <<vars, at, before, got, rest, stage, filled, trailer, done,
                    answer, evars>>
    BY <1>3 DEF gvars, cvars
  <2>2. UNCHANGED <<id, fed, state, finished, pc, result, Unread, Here, File,
                    FileSize, TRAILER>>
    BY <2>1, SameDecoder, FileNext DEF Here
  <2>3. FileTypes' /\ CallInv'
    BY <2>1, <2>2
       DEF ContainerInv, FileTypes, CallInv, LoopInv, Returned
  <2> QED BY <2>1, <2>2, <2>3, HeadKept DEF ContainerInv
<1> QED BY <1>1, <1>2, <1>3 DEF FilesNext

LEMMA FilesStart == FilesInit => Init /\ IInv /\ ContainerInv
<1> SUFFICES ASSUME FilesInit PROVE Init /\ IInv /\ ContainerInv
  OBVIOUS
<1>1. /\ Init /\ at = "idle" /\ got = 0 /\ rest = 0 /\ filled = << >>
      /\ trailer = << >> /\ done = FALSE /\ answer = "ok"
      /\ \/ File.format = "gzip" /\ stage = "FixedHeader"
         \/ File.format = "zlib" /\ stage = "Header"
  BY DEF FilesInit, GInit, ZInit, CInit
<1>2. IInv /\ fed = 0 /\ ~ finished /\ pc = "idle" /\ output = << >> /\ drained = 0
  BY <1>1, InitInv DEF Init
<1>3. Unread = << >>
  BY <1>2 DEF Unread
<1>4. Here = 0 /\ FileSize \in Nat /\ TRAILER \in Nat
  BY <1>1, <1>2, FileConstants DEF Here
<1>5. FileTypes
  <2>1. trailer \in Seq(TailBytes) /\ Len(trailer) = 0
    BY <1>1, EmptySeq
  <2>2. got \in 0 .. FileSize /\ rest \in 0 .. got /\ Len(trailer) <= TRAILER
    BY <1>1, <1>4, <2>1
  <2> QED BY <1>1, <2>1, <2>2 DEF FileTypes, HeaderStages
<1>6. CallInv
  BY <1>1, <1>2 DEF CallInv, LoopInv, Running
<1>7. Filling(2) /\ Filling(10)
  <2>1. << >> = SubSeq(File.head, 1, 0)
    BY SubSeqEmpty
  <2> QED BY <1>1, <1>4, <2>1 DEF Filling
<1>8. HeadInv
  BY <1>1, <1>2, <1>3, <1>7 DEF HeadInv, HeaderStages
<1> QED BY <1>1, <1>2, <1>5, <1>6, <1>8 DEF ContainerInv

LEMMA FilesMove ==
  IInv /\ ContainerInv /\ [FilesNext]_gvars => Moves
<1> SUFFICES ASSUME IInv, ContainerInv, [FilesNext]_gvars
             PROVE  Moves
  OBVIOUS
<1>1. rest \in Nat /\ Len(Unread) \in 0 .. Len(Unread)
  BY FileNumbers, UnreadType DEF ContainerInv
<1>2. CommonNext => Moves
  BY <1>1 DEF CommonNext, FeedPiece, FeedReturns_ok, FeedBody, BodyFed,
              LoopFailed, LoopStarved, FeedDone, DecoderStep, Resume, Check, Moves
<1>3. Drain => Moves
  BY <1>1 DEF Drain, Moves
<1>4. \A m : consume_deflate_tail(m) => Moves
  BY DEF consume_deflate_tail, Moves
<1>5. GNext => Moves
  BY <1>2, <1>3, <1>4
     DEF GNext, FixedHeader, Extra, ExtraLen, Name, Comment, SkipText, Hcrc,
         HeaderFrame, GzipDrain, GzipTail, GzipTrailer, Moves
<1>6. ZNext => Moves
  BY <1>2, <1>3, <1>4
     DEF ZNext, ReadHeader, ZlibDrain, ZlibTail, ZlibTrailer, Moves
<1>7. UNCHANGED gvars => Moves
  BY DEF gvars, cvars, Moves
<1> QED BY <1>5, <1>6, <1>7 DEF FilesNext

(* Wherever a header is cut, and whatever is in it: the DEFLATE decoder is *)
(* given all the bytes behind it and none of its own.                      *)
THEOREM BodiesAreCutRight == FilesSpec => []BodyAfterHeader
<1>1. IInv /\ ContainerInv => BodyAfterHeader
  <2> SUFFICES ASSUME IInv, ContainerInv, stage = "Body"
               PROVE  fed = Here - Len(File.head) /\ fed >= 0
    BY DEF BodyAfterHeader
  <2>1. Here = Len(File.head) + fed /\ Len(File.head) \in Nat /\ fed \in Nat
    BY FileConstants, CurrentReader DEF ContainerInv, HeadInv
  <2> QED BY <2>1
<1> QED
  BY <1>1, FilesStart, FilesMove, FilesNextInv, MovesInv, PTL DEF FilesSpec
-----------------------------------------------------------------------------
(* Behind the body: the trailer is that of the file, and it is complete    *)
(* just when it has been found right or wrong.                             *)
BodyEnd == Len(File.head) + (S.size - Len(File.tail))

TailInv ==
  /\ stage \in {"Trailer", "Done"} =>
       /\ finished /\ Unread = << >>
       /\ Len(trailer) <= Len(File.tail)
       /\ trailer = SubSeq(File.tail, 1, Len(trailer))
  /\ stage = "Trailer" =>
       \/ Len(trailer) < TRAILER /\ Here = BodyEnd + Len(trailer)
       \/ Len(trailer) = TRAILER /\ trailer # TrailerOf(File, delivered)
  /\ stage = "Done" => /\ Len(trailer) = TRAILER
                       /\ trailer = TrailerOf(File, delivered)
                       /\ Here >= FileEnd
  /\ File.format = "gzip" => isize = Len(delivered) % SIZE_MOD

(* What a caller has been told that gives up after an error.               *)
AnswerInv ==
  ~ File.insists =>
    /\ at # "idle" => answer = "ok"
    /\ answer = "err" => \/ ~ HeadIsGood(File)
                         \/ state.kind = "Transient"
                         \/ stage = "Trailer" /\ Len(trailer) = TRAILER
                         \/ stage = "Done" /\ Here > FileEnd
    /\ answer = "ok" /\ at \in {"idle", "feed"} =>
         /\ stage = "Body" => Unread = << >> /\ (fed > 0 => ~ HasWholeStream)
         /\ stage = "Done" => Here = FileEnd

LEMMA Ends ==
  ASSUME IInv
  PROVE  /\ BodyEnd \in Nat /\ FileEnd = BodyEnd + TRAILER /\ FileEnd \in Nat
         /\ BodyEnd + Len(File.tail) = FileSize
         /\ Len(File.head) <= BodyEnd
         /\ TRAILER \in Nat \ {0}
<1> DEFINE h == Len(File.head)
           t == Len(File.tail)
           z == S.size
<1>1. /\ h \in Nat /\ t \in Nat /\ z \in Nat /\ t <= z
      /\ TRAILER \in Nat \ {0} /\ FileSize = h + z
      /\ BodyEnd = h + (z - t) /\ FileEnd = h + (z - t) + TRAILER
  BY FileConstants DEF BodyEnd, FileEnd
<1> HIDE DEF h, t, z
<1>2. /\ BodyEnd \in Nat /\ FileEnd = BodyEnd + TRAILER /\ FileEnd \in Nat
      /\ BodyEnd + t = FileSize /\ h <= BodyEnd
  BY <1>1
<1> QED BY <1>1, <1>2 DEF h, t

LEMMA SameEnds ==
  ASSUME UNCHANGED id
  PROVE  UNCHANGED <<File, TRAILER, BodyEnd, FileEnd>>
BY FileNext DEF BodyEnd, FileEnd

(* The bytes behind the body are those of the tail.                        *)
LEMMA PieceOfTail ==
  ASSUME IInv, NEW i \in Nat, NEW n \in Nat, i + n <= Len(File.tail)
  PROVE  LET k == S.size - Len(File.tail) + i IN
         /\ TailPiece(k, n) \in Seq(TailBytes) /\ Len(TailPiece(k, n)) = n
         /\ \A j \in 1 .. n : TailPiece(k, n)[j] = File.tail[i + j]
<1> DEFINE body == S.size - Len(File.tail)
           k    == body + i
<1>1. /\ body \in Nat /\ k \in Nat /\ k + n <= S.size
      /\ Len(File.tail) \in Nat
  BY FileConstants, SMTT(30)
<1>2. \A j \in 1 .. n : TailByte(k + j - 1) = File.tail[i + j]
  <2> TAKE j \in 1 .. n
  <2> DEFINE x == k + j - 1
  <2>1. ~ (x < body) /\ x - body + 1 = i + j
    BY <1>1
  <2> HIDE DEF x
  <2>2. TailByte(x) = File.tail[x - body + 1]
    BY <2>1 DEF TailByte
  <2> QED BY <2>1, <2>2 DEF x
<1> HIDE DEF k
<1>3. /\ TailPiece(k, n) \in Seq(TailBytes) /\ Len(TailPiece(k, n)) = n
      /\ \A j \in 1 .. n : TailPiece(k, n)[j] = File.tail[i + j]
  BY <1>1, <1>2, PieceProperties
<1> QED BY <1>3, Zenon DEF k, body

(* A sequence that agrees with the beginning of the tail is it.            *)
LEMMA TailPrefix ==
  ASSUME IInv, NEW t \in Seq(TailBytes), Len(t) <= Len(File.tail),
         \A j \in 1 .. Len(t) : t[j] = File.tail[j]
  PROVE  t = SubSeq(File.tail, 1, Len(t))
<1> DEFINE s == File.tail
           k == Len(t)
           u == SubSeq(s, 1, k)
<1>1. s \in Seq(TailBytes) /\ k \in 0 .. Len(s)
  BY FileConstants, LenProperties
<1> HIDE DEF s
<1>2. u \in Seq(TailBytes) /\ Len(u) = k /\ \A j \in 1 .. k : u[j] = s[j]
  BY <1>1, TakeProperties, Zenon
<1> HIDE DEF u
<1>3. t = u
  <2>1. Len(t) = Len(u) /\ \A j \in 1 .. Len(t) : t[j] = u[j]
    BY <1>2 DEF s
  <2> QED BY <1>2, <2>1, SeqEqual
<1> QED BY <1>3 DEF u, s

LEMMA LeftOverIsTail ==
  ASSUME IInv, EndIsRight, finished
  PROVE  /\ input <= Len(File.tail) /\ fed + Len(File.head) = BodyEnd + input
         /\ Len(LeftOver) = Min2(input, TRAILER)
         /\ LeftOver = SubSeq(File.tail, 1, Len(LeftOver))
<1> DEFINE n    == Min2(input, TRAILER)
           body == S.size - Len(File.tail)
<1>1. id \in DOMAIN WholeSize /\ WholeSize[id] = (Pos + 7) \div 8
  BY FinishedIsWhole DEF HasWholeStream
<1>2. fed - input = body
  <2>1. TrailerKept
    BY InvTrailer
  <2> QED BY <1>1, <2>1, HeaderConstants DEF TrailerKept
<1>3. /\ fed \in Nat /\ input \in Nat /\ input <= fed /\ fed <= S.size
      /\ S.size \in Nat /\ TRAILER \in Nat /\ Len(File.tail) \in Nat
      /\ Len(File.head) \in Nat
  BY CurrentReader, FileConstants
<1>4. input <= Len(File.tail) /\ fed + Len(File.head) = BodyEnd + input
  BY <1>2, <1>3 DEF BodyEnd
<1>5. n \in Nat /\ n <= input /\ 0 + n <= Len(File.tail) /\ body + 0 = fed - input
  BY <1>2, <1>3, <1>4 DEF Min2
<1>6. /\ LeftOver \in Seq(TailBytes) /\ Len(LeftOver) = n
      /\ \A j \in 1 .. n : LeftOver[j] = File.tail[0 + j]
  <2> HIDE DEF n
  <2>1. /\ TailPiece(body + 0, n) \in Seq(TailBytes)
        /\ Len(TailPiece(body + 0, n)) = n
        /\ \A j \in 1 .. n : TailPiece(body + 0, n)[j] = File.tail[0 + j]
    BY <1>5, PieceOfTail
  <2>2. LeftOver = TailPiece(body + 0, n)
    BY <1>5 DEF LeftOver, n
  <2> QED BY <2>1, <2>2
<1>7. \A j \in 1 .. Len(LeftOver) : LeftOver[j] = File.tail[j]
  BY <1>5, <1>6
<1>8. LeftOver = SubSeq(File.tail, 1, Len(LeftOver))
  BY <1>3, <1>5, <1>6, <1>7, TailPrefix
<1> QED BY <1>4, <1>6, <1>8

TellsInv == TailInv /\ AnswerInv /\ LoopTells(Running)

(* Up to the tail nothing is known of it but the size so far.              *)
LEMMA BeforeTail ==
  ASSUME TailInv, UNCHANGED <<id, delivered, isize>>,
         stage' \notin {"Trailer", "Done"}
  PROVE  TailInv'
BY SameEnds DEF TailInv

LEMMA HeaderTells ==
  ASSUME IInv, ContainerInv, ContainerInv', TellsInv,
         at = "feed", UNCHANGED <<vars, isize>>,
         stage \in HeaderStages, stage' \in HeaderStages \cup {"Body"},
         \/ at' = "feed" /\ answer' = answer
         \/ at' = "idle" /\ answer' = "err" /\ ~ HeadIsGood(File)'
  PROVE  TellsInv'
<1>1. /\ UNCHANGED <<id, fed, delivered, isize, Unread, File>>
      /\ stage' \notin {"Trailer", "Done"}
  BY SameDecoder, FileNext DEF HeaderStages
<1>2. TailInv'
  BY <1>1, BeforeTail DEF TellsInv
<1>3. Unread = << >> /\ fed = 0
  BY DEF ContainerInv, HeadInv
<1>4. AnswerInv'
  BY <1>1, <1>3 DEF AnswerInv, TellsInv
<1>5. LoopTells(Running)'
  BY DEF LoopTells, Running
<1> QED BY <1>2, <1>4, <1>5 DEF TellsInv

LEMMA GzipHeaderTells ==
  ASSUME IInv, ContainerInv, ContainerInv', TellsInv,
         FixedHeader \/ Extra \/ ExtraLen \/ Name \/ Comment \/ Hcrc
  PROVE  TellsInv'
<1>1. /\ at = "feed" /\ UNCHANGED <<vars, isize>> /\ stage \in HeaderStages
  BY DEF FixedHeader, Extra, ExtraLen, Name, Comment, Hcrc, SkipText,
         HeaderFrame, InStage, HeaderStages
<1>2. CASE FixedHeader
  <2>1. \/ /\ at' = "feed" /\ answer' = answer
           /\ stage' = stage \/ \E f : stage' = next_header_state(f)
        \/ at' = "idle" /\ answer' = "err" /\ stage' = stage /\ Len(filled') = 10
    BY <1>1, <1>2 DEF FixedHeader, Consume, Return, Enter, InStage
  <2>2. stage = "FixedHeader"
    BY <1>2 DEF FixedHeader, InStage
  <2>3. stage' \in HeaderStages \cup {"Body"}
    BY <2>1, <2>2 DEF HeaderStages, next_header_state, past_extra, past_name,
                      past_comment
  <2>4. stage' = stage /\ Len(filled') = 10 => ~ HeadIsGood(File)'
    BY <2>2 DEF ContainerInv, HeadInv, Filling, HeadIsGood
  <2> QED BY <1>1, <2>1, <2>3, <2>4, HeaderTells
<1>3. CASE Extra \/ ExtraLen \/ Name \/ Comment \/ Hcrc
  <2>1. at' = "feed" /\ answer' = answer
    BY <1>1, <1>3 DEF Extra, ExtraLen, Name, Comment, Hcrc, SkipText, Consume
  <2>2. stage' \in HeaderStages \cup {"Body"}
    BY <1>1, <1>3 DEF Extra, ExtraLen, Name, Comment, Hcrc, SkipText, Enter,
         HeaderStages, past_extra, past_name, past_comment
  <2> QED BY <1>1, <2>1, <2>2, HeaderTells
<1> QED BY <1>2, <1>3

LEMMA ZlibHeaderTells ==
  ASSUME IInv, ContainerInv, ContainerInv', TellsInv, ReadHeader,
         UNCHANGED isize
  PROVE  TellsInv'
<1>1. /\ at = "feed" /\ UNCHANGED <<vars, isize>> /\ stage = "Header"
      /\ \/ at' = "feed" /\ answer' = answer /\ stage' \in {stage, "Body"}
         \/ at' = "idle" /\ answer' = "err" /\ stage' = stage /\ Len(filled') = 2
  BY DEF ReadHeader, InStage, Consume, Return
<1>2. stage' = stage /\ Len(filled') = 2 => ~ HeadIsGood(File)'
  BY <1>1 DEF ContainerInv, HeadInv, Filling, HeadIsGood
<1> QED BY <1>1, <1>2, HeaderTells DEF HeaderStages

(* A call begins or ends where it was left.                                *)
LEMMA CallTells ==
  ASSUME IInv, ContainerInv, TellsInv, UNCHANGED isize,
         \/ \E n \in PieceSizes \cup {FileSize - got} :
              FeedPiece(n) /\ UNCHANGED evars
         \/ FeedReturns_ok
  PROVE  TellsInv'
<1>1. /\ at \in {"idle", "feed"} /\ at' \in {"idle", "feed"}
      /\ UNCHANGED <<vars, stage, trailer, isize>>
      /\ answer' = answer \/ (answer' = "ok" /\ at = "feed")
  BY DEF FeedPiece, FeedReturns_ok, Return
<1>2. UNCHANGED Here
  <2>1. FeedReturns_ok => UNCHANGED Here
    BY DEF FeedReturns_ok, Return, Here
  <2> QED BY <2>1, FeedPieceInv
<1>3. /\ UNCHANGED <<id, fed, delivered, state, finished, Unread, HasWholeStream,
                     File, TRAILER, BodyEnd, FileEnd>>
  BY <1>1, SameDecoder, SameEnds
<1>4. TailInv'
  BY <1>1, <1>2, <1>3 DEF TellsInv, TailInv
<1>5. AnswerInv'
  <2>1. CASE FeedReturns_ok
    <3>1. at = "feed" /\ answer' = "ok" /\ at' = "idle"
      BY <2>1 DEF FeedReturns_ok, Return
    <3> QED BY <1>1, <1>2, <1>3, <3>1 DEF TellsInv, AnswerInv
  <2>2. CASE \E n \in PieceSizes \cup {FileSize - got} : FeedPiece(n)
    <3>1. /\ at = "idle" /\ answer' = answer
          /\ answer = "ok" \/ File.insists
      BY <2>2 DEF FeedPiece
    <3> QED BY <1>1, <1>2, <1>3, <3>1 DEF TellsInv, AnswerInv
  <2> QED BY <2>1, <2>2
<1>6. LoopTells(Running)'
  BY <1>1 DEF LoopTells, Running
<1> QED BY <1>4, <1>5, <1>6 DEF TellsInv

LEMMA FeedBodyTells ==
  ASSUME IInv, ContainerInv, TellsInv, UNCHANGED isize, FeedBody
  PROVE  TellsInv'
<1>1. /\ UNCHANGED <<id, delivered, isize, answer>> /\ at = "feed"
      /\ stage' = "Body" /\ at' = "body" /\ pc' # "idle"
  <2>1. Feed(rest) /\ ~ finished
    BY FeedBodyInv
  <2> QED BY <2>1, FeedDrives DEF FeedBody, Feed, InStage
<1>2. TailInv'
  BY <1>1, BeforeTail DEF TellsInv
<1>3. AnswerInv'
  BY <1>1, SameEnds DEF TellsInv, AnswerInv
<1>4. LoopTells(Running)'
  BY <1>1 DEF LoopTells, ReturnedWhy
<1> QED BY <1>2, <1>3, <1>4 DEF TellsInv

(* A step between the feed of the body and the end of the loop.            *)
LEMMA LoopStepTells ==
  ASSUME IInv, ContainerInv, TellsInv, UNCHANGED <<id, stage, answer>>,
         at \notin {"idle", "feed"}, at' \notin {"idle", "feed"},
         LoopTells(Running)',
         File.format = "gzip" => isize' = Len(delivered') % SIZE_MOD
  PROVE  TellsInv'
<1>1. stage = "Body" /\ UNCHANGED File
  BY BodyRuns, SameEnds
<1>2. TailInv'
  BY <1>1 DEF TailInv
<1>3. AnswerInv'
  BY <1>1 DEF TellsInv, AnswerInv
<1> QED BY <1>2, <1>3 DEF TellsInv

LEMMA SizeSoFar ==
  ASSUME TellsInv, UNCHANGED <<delivered, isize>>
  PROVE  File.format = "gzip" => isize' = Len(delivered') % SIZE_MOD
BY DEF TellsInv, TailInv

LEMMA BodyTells ==
  ASSUME IInv, IInv', EndIsRight, ContainerInv, TellsInv, UNCHANGED isize,
         \/ BodyFed \/ DecoderStep
         \/ (Resume \/ Check) /\ LoopFrame
  PROVE  TellsInv'
<1>1. CASE BodyFed
  <2>1. /\ at = "body" /\ pc = "idle" /\ UNCHANGED <<vars, stage, answer>>
        /\ at' \in {"failed", "drain"}
    BY <1>1 DEF BodyFed
  <2>2. UNCHANGED <<id, delivered>>
    BY <2>1, SameDecoder
  <2>3. LoopTells(Running)'
    BY <2>1 DEF LoopTells, Running
  <2> QED BY <2>1, <2>2, <2>3, SizeSoFar, LoopStepTells
<1>2. CASE DecoderStep
  <2>1. Step /\ at \in Running /\ UNCHANGED <<at, stage, answer>>
    BY <1>2, DecoderStepInv DEF DecoderStep
  <2>2. UNCHANGED <<id, delivered>>
    BY <2>1 DEF Step
  <2>3. LoopTells(Running)'
    BY <2>1, BodyRuns, LoopSteps
  <2> QED BY <2>1, <2>2, <2>3, SizeSoFar, LoopStepTells DEF Running
<1>3. CASE (Resume \/ Check) /\ LoopFrame
  <2>1. /\ UNCHANGED <<id, stage, answer, delivered>>
        /\ at \notin {"idle", "feed"} /\ at' \notin {"idle", "feed"}
    BY <1>3 DEF Resume, Check, LoopFrame, Feed, vars
  <2>2. LoopTells(Running)'
    BY <1>3, BodyRuns, LoopCalls DEF TellsInv
  <2> QED BY <2>1, <2>2, SizeSoFar, LoopStepTells
<1> QED BY <1>1, <1>2, <1>3

(* Taking the output counts it.                                            *)
LEMMA DrainTells ==
  ASSUME IInv, ContainerInv, TellsInv, Drain, LoopFrame,
         File.format = "gzip" => isize' = AddSize(Len(Unread))
  PROVE  TellsInv'
<1>1. /\ UNCHANGED <<id, stage, answer>> /\ Advance(Len(Unread))
      /\ at \notin {"idle", "feed"} /\ at' \notin {"idle", "feed"}
  BY DEF Drain, LoopFrame, Advance
<1>2. LoopTells(Running)'
  BY BodyRuns, LoopCalls DEF TellsInv
<1>3. delivered' = delivered \o Unread
  BY <1>1, AdvanceAll
<1>4. File.format = "gzip" => isize' = Len(delivered') % SIZE_MOD
  <2> SUFFICES ASSUME File.format = "gzip"
               PROVE  isize' = Len(delivered') % SIZE_MOD
    OBVIOUS
  <2> DEFINE x == Len(delivered)
             y == Len(Unread)
  <2>1. /\ delivered \in Seq(Byte) /\ Unread \in Seq(Byte)
        /\ x \in Nat /\ y \in Nat
    BY OutputTypes, UnreadType, LenProperties
  <2>2. Len(delivered \o Unread) = x + y
    BY <2>1, ConcatProperties
  <2>3. isize = x % SIZE_MOD /\ isize' = (isize + y) % SIZE_MOD
    BY DEF TellsInv, TailInv, AddSize
  <2> HIDE DEF x, y
  <2>4. ((x % SIZE_MOD) + y) % SIZE_MOD = (x + y) % SIZE_MOD
    BY <2>1, GzipAssumption, RemainderOfSum
  <2> QED BY <1>3, <2>2, <2>3, <2>4
<1> QED BY <1>1, <1>2, <1>4, LoopStepTells

LEMMA LoopLeftTells ==
  ASSUME IInv, ContainerInv, TellsInv, UNCHANGED isize,
         LoopFailed \/ LoopStarved
  PROVE  TellsInv'
<1>1. /\ stage = "Body" /\ UNCHANGED <<vars, stage, isize>>
      /\ \/ /\ at = "failed" /\ at' = "idle" /\ answer' = "err"
            /\ state.kind = "Transient"
         \/ /\ at = "starved" /\ at' = "feed" /\ answer' = answer
            /\ Unread = << >> /\ ~ HasWholeStream
  <2>1. LoopFailed \/ LoopStarved => stage = "Body"
    BY BodyRuns DEF LoopFailed, LoopStarved
  <2>2. LoopInv(Running) /\ LoopTells(Running)
    BY BodyRuns DEF TellsInv
  <2> QED BY <2>1, <2>2 DEF LoopFailed, LoopStarved, Return, LoopInv, LoopTells
<1>2. UNCHANGED <<id, fed, delivered, state, Unread, HasWholeStream, File>>
  BY <1>1, SameDecoder, SameEnds
<1>3. TailInv'
  BY <1>1, <1>2, BeforeTail DEF TellsInv
<1>4. AnswerInv'
  BY <1>1, <1>2 DEF TellsInv, AnswerInv
<1>5. LoopTells(Running)'
  BY <1>1 DEF LoopTells, Running
<1> QED BY <1>3, <1>4, <1>5 DEF TellsInv

LEMMA FeedDoneTells ==
  ASSUME IInv, ContainerInv, TellsInv, UNCHANGED isize, FeedDone
  PROVE  TellsInv'
<1>1. /\ stage = "Done" /\ at = "feed" /\ rest > 0
      /\ at' = "idle" /\ answer' = "err"
      /\ UNCHANGED <<vars, stage, trailer, isize>>
  BY DEF FeedDone, InStage, Return
<1>2. /\ UNCHANGED <<id, delivered, finished, Unread, File, TRAILER, FileEnd>>
  BY <1>1, SameDecoder, SameEnds
<1>3. /\ Here \in Nat /\ rest \in Nat /\ Here + rest = got /\ Here' = got
      /\ FileEnd \in Nat
  BY FileNumbers, FeedDoneInv, Ends DEF ContainerInv
<1>4. Here >= FileEnd /\ Here' > FileEnd /\ Here' >= FileEnd
  <2>1. Here >= FileEnd
    BY <1>1 DEF TellsInv, TailInv
  <2> DEFINE h == Here'
  <2>2. h = got
    BY <1>3
  <2> HIDE DEF h
  <2>3. h > FileEnd /\ h >= FileEnd
    BY <1>1, <1>3, <2>1, <2>2
  <2> QED BY <2>1, <2>3 DEF h
<1>5. TailInv'
  BY <1>1, <1>2, <1>4 DEF TellsInv, TailInv
<1>6. AnswerInv'
  BY <1>1, <1>2, <1>4 DEF AnswerInv
<1>7. LoopTells(Running)'
  BY <1>1 DEF LoopTells, Running
<1> QED BY <1>5, <1>6, <1>7 DEF TellsInv

LEMMA TailTells ==
  ASSUME IInv, EndIsRight, ContainerInv, TellsInv, UNCHANGED isize,
         NEW m \in BOOLEAN, consume_deflate_tail(m),
         m <=> LeftOver = TrailerOf(File, delivered)
  PROVE  TellsInv'
<1> DEFINE n == Len(LeftOver)
<1>1. /\ UNCHANGED <<vars, Here>> /\ finished /\ Unread = << >>
      /\ trailer' = LeftOver /\ stage = "Body" /\ at = "ended"
      /\ stage' = IF n = TRAILER /\ m THEN "Done" ELSE "Trailer"
      /\ IF n = TRAILER /\ (~ m \/ input > TRAILER)
           THEN at' = "idle" /\ answer' = "err"
           ELSE at' = "feed" /\ answer' = answer
  BY TailTaken
<1>2. /\ UNCHANGED <<id, delivered, finished, Unread, File, TRAILER, FileEnd,
                     BodyEnd>>
  BY <1>1, SameDecoder, SameEnds
<1>3. /\ input <= Len(File.tail) /\ fed + Len(File.head) = BodyEnd + input
      /\ n = Min2(input, TRAILER) /\ LeftOver = SubSeq(File.tail, 1, n)
  BY <1>1, LeftOverIsTail
<1> HIDE DEF n
<1>4. /\ Here = Len(File.head) + fed /\ Len(File.head) \in Nat /\ fed \in Nat
      /\ input \in Nat /\ TRAILER \in Nat /\ BodyEnd \in Nat
      /\ FileEnd = BodyEnd + TRAILER /\ Len(File.tail) \in Nat
  BY <1>1, FileConstants, CurrentReader, Ends DEF ContainerInv, HeadInv
<1>5. /\ Here = BodyEnd + input /\ n <= Len(File.tail) /\ n \in Nat
      /\ n < TRAILER => n = input
      /\ n = TRAILER => Here >= FileEnd
      /\ n <= TRAILER
      /\ n = TRAILER /\ ~ (input > TRAILER) => Here = FileEnd
      /\ input > TRAILER => Here > FileEnd
  BY <1>3, <1>4 DEF Min2
<1>6. TailInv'
  <2>1. /\ Len(trailer') = n /\ trailer' = SubSeq(File.tail, 1, n)
        /\ n <= Len(File.tail)
    BY <1>1, <1>3, <1>5 DEF n
  <2>2. stage' = "Trailer" =>
          \/ n < TRAILER /\ Here = BodyEnd + n
          \/ n = TRAILER /\ trailer' # TrailerOf(File, delivered)
    BY <1>1, <1>4, <1>5
  <2>3. stage' = "Done" => /\ n = TRAILER /\ Here >= FileEnd
                           /\ trailer' = TrailerOf(File, delivered)
    BY <1>1, <1>5
  <2>4. File.format = "gzip" => isize' = Len(delivered') % SIZE_MOD
    BY <1>2, SizeSoFar
  <2> QED BY <1>1, <1>2, <2>1, <2>2, <2>3, <2>4 DEF TailInv
<1>7. AnswerInv'
  <2>1. ~ File.insists => answer = "ok"
    BY <1>1 DEF TellsInv, AnswerInv
  <2>2. Len(trailer') = n
    BY <1>1 DEF n
  <2> QED BY <1>1, <1>2, <1>5, <2>1, <2>2 DEF AnswerInv
<1>8. LoopTells(Running)'
  BY <1>1 DEF LoopTells, Running
<1> QED BY <1>6, <1>7, <1>8 DEF TellsInv

(* A trailer that is not full is filled with the bytes of the tail.        *)
LEMMA FilledIsTail ==
  ASSUME IInv, ContainerInv, TailInv, stage = "Trailer",
         NEW take, take = Min2(TRAILER - Len(trailer), rest)
  PROVE  /\ Filled(take) = SubSeq(File.tail, 1, Len(Filled(take)))
         /\ Len(Filled(take)) <= Len(File.tail)
         /\ Len(trailer) = TRAILER => take = 0 /\ Filled(take) = trailer
         /\ Len(trailer) < TRAILER => Here + take = BodyEnd + Len(Filled(take))
<1> DEFINE n     == Len(trailer)
           t     == Filled(take)
           piece == TailPiece(Here - Len(File.head), take)
<1>1. /\ take \in 0 .. rest /\ t \in Seq(TailBytes)
      /\ Len(t) = n + take /\ Len(t) <= TRAILER
  BY TrailerGrows
<1>2. /\ Here \in Nat /\ rest \in Nat /\ got \in Nat /\ Here + rest = got
      /\ got <= FileSize /\ BodyEnd + Len(File.tail) = FileSize
      /\ BodyEnd = Len(File.head) + (S.size - Len(File.tail))
      /\ trailer \in Seq(TailBytes) /\ n \in Nat /\ TRAILER \in Nat
      /\ FileSize \in Nat /\ BodyEnd \in Nat /\ Len(File.tail) \in Nat
      /\ Len(File.head) \in Nat /\ S.size \in Nat /\ take \in Nat
  BY <1>1, FileNumbers, FileConstants, Ends DEF ContainerInv, FileTypes, BodyEnd
<1>3. n <= Len(File.tail) /\ trailer = SubSeq(File.tail, 1, n)
  BY DEF TailInv
<1>4. t = trailer \o piece
  BY DEF Filled
<1>5. ASSUME n = TRAILER
      PROVE  /\ take = 0 /\ t = trailer
             /\ t = SubSeq(File.tail, 1, Len(t)) /\ Len(t) <= Len(File.tail)
  <2>1. take = 0
    BY <1>2, <1>5 DEF Min2
  <2>2. piece = << >>
    BY <2>1 DEF TailPiece
  <2>3. t = trailer
    BY <1>2, <1>4, <2>2, ConcatEmptySeq
  <2> QED BY <1>3, <2>1, <2>3
<1>6. ASSUME n < TRAILER
      PROVE  /\ Here + take = BodyEnd + Len(t)
             /\ t = SubSeq(File.tail, 1, Len(t)) /\ Len(t) <= Len(File.tail)
  <2>1. Here = BodyEnd + n
    <3>1. (n < TRAILER /\ Here = BodyEnd + n) \/ n = TRAILER
      BY DEF TailInv
    <3> HIDE DEF n
    <3> QED BY <1>2, <1>6, <3>1
  <2> DEFINE b == S.size - Len(File.tail)
  <2>2. /\ Here - Len(File.head) = b + n
        /\ n + take <= Len(File.tail)
        /\ Here + take = BodyEnd + (n + take)
    <3> DEFINE c == Len(File.head)
               e == Len(File.tail)
               z == S.size
    <3>1. /\ Here \in Nat /\ rest \in Nat /\ Here + rest = got /\ got \in Nat
          /\ got <= FileSize /\ BodyEnd + e = FileSize /\ FileSize \in Nat
          /\ BodyEnd = c + (z - e) /\ BodyEnd \in Nat /\ take <= rest
          /\ c \in Nat /\ e \in Nat /\ z \in Nat /\ n \in Nat /\ take \in Nat
          /\ Here = BodyEnd + n
      BY <1>1, <1>2, <2>1
    <3> HIDE DEF c, e, z, n
    <3>2. /\ Here - c = (z - e) + n /\ n + take <= e
          /\ Here + take = BodyEnd + (n + take)
      BY <3>1
    <3> QED BY <3>2 DEF c, e, z
  <2>3. piece = TailPiece(b + n, take)
    BY <2>2
  <2> HIDE DEF piece
  <2>4. /\ piece \in Seq(TailBytes) /\ Len(piece) = take
        /\ \A j \in 1 .. take : piece[j] = File.tail[n + j]
    <3>1. n \in Nat /\ take \in Nat /\ n + take <= Len(File.tail)
      BY <1>2, <2>2
    <3>2. piece = TailPiece(S.size - Len(File.tail) + n, take)
      BY <2>3
    <3> HIDE DEF n
    <3> QED BY <3>1, <3>2, PieceOfTail
  <2>5. \A j \in 1 .. Len(t) : t[j] = File.tail[j]
    <3> TAKE j \in 1 .. Len(t)
    <3>1. j \in 1 .. n + take
      BY <1>1
    <3>2. (trailer \o piece)[j] = IF j <= n THEN trailer[j] ELSE piece[j - n]
      BY <1>2, <2>4, <3>1, ConcatProperties
    <3>3. CASE j <= n
      <4>1. j \in 1 .. n /\ n \in 0 .. Len(File.tail)
            /\ File.tail \in Seq(TailBytes)
        BY <1>2, <1>3, <3>1, <3>3, FileConstants
      <4>2. SubSeq(File.tail, 1, n)[j] = File.tail[j]
        BY <4>1, TakeProperties, Zenon
      <4> QED BY <1>3, <1>4, <3>2, <3>3, <4>2
    <3>4. CASE ~ (j <= n)
      <4>1. j - n \in 1 .. take /\ n + (j - n) = j
        BY <1>2, <3>1, <3>4, SMTT(30)
      <4>2. piece[j - n] = File.tail[j]
        BY <2>4, <4>1
      <4> QED BY <1>4, <3>2, <3>4, <4>2
    <3> QED BY <3>3, <3>4
  <2>6. Len(t) <= Len(File.tail)
    BY <1>1, <2>2
  <2>7. t = SubSeq(File.tail, 1, Len(t))
    <3> HIDE DEF t
    <3> QED BY <1>1, <2>5, <2>6, TailPrefix
  <2> QED BY <1>1, <2>2, <2>6, <2>7
<1>7. n = TRAILER \/ n < TRAILER
  BY <1>2 DEF ContainerInv, FileTypes
<1> QED BY <1>2, <1>5, <1>6, <1>7

(* The trailer is looked at when its last byte has come.                   *)
LEMMA TrailerTells ==
  ASSUME IInv, ContainerInv, TellsInv, UNCHANGED isize, UNCHANGED vars,
         NEW take, take = Min2(TRAILER - Len(trailer), rest),
         InStage("Trailer"), trailer' = Filled(take),
         Here' \in Nat, Consume(take) => Here' = Here + take,
         NEW m, m <=> Filled(take) = TrailerOf(File, delivered),
         \/ /\ Len(Filled(take)) = TRAILER
            /\ EndTrailer(take, m)
         \/ /\ Len(Filled(take)) < TRAILER \/ Len(trailer) = TRAILER
            /\ Consume(take) /\ UNCHANGED stage
  PROVE  TellsInv'
<1> DEFINE t == Filled(take)
           n == Len(t)
<1>1. stage = "Trailer" /\ at = "feed"
  BY DEF InStage
<1>2. /\ t = SubSeq(File.tail, 1, n) /\ n <= Len(File.tail)
      /\ Len(trailer) = TRAILER => take = 0 /\ t = trailer
      /\ Len(trailer) < TRAILER => Here + take = BodyEnd + n
  BY <1>1, FilledIsTail DEF TellsInv
<1>3. n <= TRAILER /\ Len(trailer) <= TRAILER /\ Len(trailer) \in Nat
      /\ TRAILER \in Nat /\ FileEnd = BodyEnd + TRAILER /\ BodyEnd \in Nat
      /\ Here \in Nat
  BY <1>1, TrailerGrows, FileNumbers, Ends DEF ContainerInv, FileTypes
<1>4. /\ UNCHANGED <<id, delivered, finished, Unread, File, TRAILER, FileEnd,
                     BodyEnd>>
  BY SameDecoder, SameEnds
<1>5. trailer' = t
  OBVIOUS
<1>6. Len(trailer) = TRAILER => trailer # TrailerOf(File, delivered)
  BY <1>1, <1>3 DEF TellsInv, TailInv
<1> HIDE DEF t
<1>7. \/ /\ n = TRAILER /\ t = TrailerOf(File, delivered) /\ stage' = "Done"
         /\ Here' = FileEnd /\ at' = "feed" /\ answer' = answer
      \/ /\ n = TRAILER /\ t # TrailerOf(File, delivered) /\ stage' = "Trailer"
         /\ at' = "idle" /\ answer' = "err"
      \/ /\ n < TRAILER /\ stage' = "Trailer" /\ Here' = BodyEnd + n
         /\ at' = "feed" /\ answer' = answer
      \/ /\ n = TRAILER /\ t # TrailerOf(File, delivered) /\ stage' = "Trailer"
         /\ at' = "feed" /\ answer' = answer
  <2>1. CASE n = TRAILER /\ EndTrailer(take, m)
    <3>1. CASE m /\ stage' = "Done" /\ Consume(take)
      <4>1. t = TrailerOf(File, delivered)
        BY <3>1 DEF t
      <4>2. Len(trailer) < TRAILER
        BY <1>2, <1>3, <1>6, <4>1
      <4>3. Here' = FileEnd
        BY <1>2, <1>3, <2>1, <3>1, <4>2
      <4> QED BY <1>1, <2>1, <3>1, <4>1, <4>3 DEF Consume
    <3>2. CASE ~ m /\ Return("err") /\ UNCHANGED stage
      BY <1>1, <2>1, <3>2 DEF Return, t
    <3> QED BY <2>1, <3>1, <3>2 DEF EndTrailer
  <2>2. CASE n < TRAILER /\ Consume(take) /\ UNCHANGED stage
    <3>1. Len(trailer) < TRAILER
      <4>1. Len(trailer) = TRAILER => n = TRAILER
        BY <1>2
      <4> QED BY <1>3, <2>2, <4>1
    <3> QED BY <1>1, <1>2, <2>2, <3>1 DEF Consume
  <2>3. CASE Len(trailer) = TRAILER /\ Consume(take) /\ UNCHANGED stage
    BY <1>1, <1>2, <1>6, <2>3 DEF Consume
  <2> QED BY <2>1, <2>2, <2>3 DEF t
<1>8. TailInv'
  <2>1. /\ Len(trailer') = n /\ trailer' = SubSeq(File.tail, 1, n)
        /\ n <= Len(File.tail) /\ finished /\ Unread = << >>
    BY <1>1, <1>2, <1>5 DEF TellsInv, TailInv
  <2>2. File.format = "gzip" => isize' = Len(delivered') % SIZE_MOD
    BY <1>4, SizeSoFar
  <2>3. Here' = FileEnd => Here' >= FileEnd
    BY <1>3
  <2> QED BY <1>4, <1>5, <1>7, <2>1, <2>2, <2>3 DEF TailInv
<1>9. AnswerInv'
  <2>1. ~ File.insists => answer = "ok"
    BY <1>1 DEF TellsInv, AnswerInv
  <2> QED BY <1>4, <1>5, <1>7, <2>1 DEF AnswerInv
<1>10. LoopTells(Running)'
  BY <1>7 DEF LoopTells, Running
<1> QED BY <1>8, <1>9, <1>10 DEF TellsInv

LEMMA FilesTell ==
  IInv /\ IInv' /\ EndIsRight /\ ContainerInv /\ TellsInv /\ [FilesNext]_gvars
    => TellsInv'
<1> SUFFICES ASSUME IInv, IInv', EndIsRight, ContainerInv, TellsInv,
                    [FilesNext]_gvars
             PROVE  TellsInv'
  OBVIOUS
<1>1. ContainerInv'
  BY FilesNextInv
<1>2. ASSUME CommonNext, UNCHANGED <<evars, isize>>
      PROVE  TellsInv'
  <2>1. CASE \E n \in PieceSizes \cup {FileSize - got} : FeedPiece(n)
    BY <1>2, <2>1, CallTells
  <2>2. CASE FeedReturns_ok
    BY <1>2, <2>2, CallTells
  <2>3. CASE FeedBody
    BY <1>2, <2>3, FeedBodyTells
  <2>4. CASE LoopFailed \/ LoopStarved
    BY <1>2, <2>4, LoopLeftTells
  <2>5. CASE FeedDone
    BY <1>2, <2>5, FeedDoneTells
  <2>6. CASE BodyFed \/ DecoderStep \/ ((Resume \/ Check) /\ LoopFrame)
    BY <1>2, <2>6, BodyTells
  <2> QED BY <1>2, <2>1, <2>2, <2>3, <2>4, <2>5, <2>6 DEF CommonNext
<1>3. CASE File.format = "gzip" /\ GNext
  <2>1. CASE FixedHeader \/ Extra \/ ExtraLen \/ Name \/ Comment \/ Hcrc
    BY <1>1, <2>1, GzipHeaderTells
  <2>2. CASE GzipDrain
    BY <2>2, DrainTells DEF GzipDrain
  <2>3. TellsInv => \A t : GzipMatches(t) <=> t = TrailerOf(File, delivered)
    BY <1>3 DEF GzipMatches, TrailerOf, TellsInv, TailInv
  <2>4. CASE GzipTail
    <3>1. /\ consume_deflate_tail(GzipMatches(LeftOver)) /\ UNCHANGED isize
          /\ GzipMatches(LeftOver) \in BOOLEAN
      BY <2>4 DEF GzipTail, GzipMatches
    <3>2. GzipMatches(LeftOver) <=> LeftOver = TrailerOf(File, delivered)
      BY <2>3
    <3> QED BY <3>1, <3>2, TailTells
  <2>5. CASE GzipTrailer
    <3> DEFINE take == Min2(TRAILER - Len(trailer), rest)
               t    == Filled(take)
    <3>1. /\ InStage("Trailer") /\ trailer' = t /\ UNCHANGED <<vars, isize>>
          /\ \/ Len(t) = TRAILER /\ EndTrailer(take, GzipMatches(t))
             \/ ~ (take > 0 /\ Len(t) = TRAILER) /\ Consume(take) /\ UNCHANGED stage
      BY <2>5 DEF GzipTrailer
    <3>2. Here' \in Nat /\ (Consume(take) => Here' = Here + take)
      BY <2>5, GzipTrailerStep
    <3>3. GzipMatches(t) <=> t = TrailerOf(File, delivered)
      BY <2>3
    <3>4. ~ (take > 0 /\ Len(t) = TRAILER)
            => Len(t) < TRAILER \/ Len(trailer) = TRAILER
      <4> HIDE DEF take
      <4>1. take = Min2(TRAILER - Len(trailer), rest) /\ stage = "Trailer"
        BY <3>1 DEF take, InStage
      <4>2. /\ take \in 0 .. rest /\ Len(t) = Len(trailer) + take
            /\ Len(t) <= TRAILER /\ Len(trailer) \in Nat /\ rest \in Nat
            /\ TRAILER \in Nat
        BY <4>1, TrailerGrows, FileNumbers, Ends DEF ContainerInv
      <4> QED BY <4>2
    <3>5. take = Min2(TRAILER - Len(trailer), rest)
      OBVIOUS
    <3> HIDE DEF take
    <3> QED BY <3>1, <3>2, <3>3, <3>4, <3>5, TrailerTells
  <2>6. CASE CommonNext /\ UNCHANGED <<evars, isize>>
    BY <1>2, <2>6
  <2> QED BY <1>3, <2>1, <2>2, <2>4, <2>5, <2>6 DEF GNext
<1>4. CASE File.format = "zlib" /\ ZNext /\ UNCHANGED <<evars, isize>>
  <2>1. CASE ReadHeader
    BY <1>1, <1>4, <2>1, ZlibHeaderTells
  <2>2. CASE ZlibDrain
    BY <1>4, <2>2, DrainTells DEF ZlibDrain
  <2>3. \A t : ZlibMatches(t) <=> t = TrailerOf(File, delivered)
    BY <1>4 DEF ZlibMatches, TrailerOf
  <2>4. CASE ZlibTail
    <3>1. /\ consume_deflate_tail(ZlibMatches(LeftOver))
          /\ ZlibMatches(LeftOver) \in BOOLEAN
      BY <2>4 DEF ZlibTail, ZlibMatches
    <3>2. ZlibMatches(LeftOver) <=> LeftOver = TrailerOf(File, delivered)
      BY <2>3
    <3> QED BY <1>4, <3>1, <3>2, TailTells
  <2>5. CASE ZlibTrailer
    <3> DEFINE take == Min2(TRAILER - Len(trailer), rest)
               t    == Filled(take)
    <3>1. /\ InStage("Trailer") /\ trailer' = t /\ UNCHANGED vars
          /\ \/ Len(t) = TRAILER /\ EndTrailer(take, ZlibMatches(t))
             \/ Len(t) < TRAILER /\ Consume(take) /\ UNCHANGED stage
      BY <2>5 DEF ZlibTrailer
    <3>2. Here' \in Nat /\ (Consume(take) => Here' = Here + take)
      BY <2>5, ZlibTrailerStep
    <3>3. ZlibMatches(t) <=> t = TrailerOf(File, delivered)
      BY <2>3
    <3>4. take = Min2(TRAILER - Len(trailer), rest)
      OBVIOUS
    <3> HIDE DEF take
    <3> QED BY <1>4, <3>1, <3>2, <3>3, <3>4, TrailerTells, SMTT(30)
  <2>6. CASE CommonNext
    BY <1>2, <1>4, <2>6
  <2> QED BY <1>4, <2>1, <2>2, <2>4, <2>5, <2>6 DEF ZNext
<1>5. CASE UNCHANGED gvars
  <2>1. UNCHANGED <<vars, at, got, rest, stage, trailer, answer, isize>>
    BY <1>5 DEF gvars, cvars
  <2>2. UNCHANGED <<id, fed, delivered, state, finished, pc, result, Unread,
                    HasWholeStream, Here, File, TRAILER, BodyEnd, FileEnd>>
    BY <2>1, SameDecoder, SameEnds DEF Here
  <2> QED BY <2>1, <2>2
          DEF TellsInv, TailInv, AnswerInv, LoopTells, ReturnedWhy
<1> QED BY <1>3, <1>4, <1>5 DEF FilesNext

LEMMA FilesTellStart == FilesInit => TellsInv
<1> SUFFICES ASSUME FilesInit PROVE TellsInv
  OBVIOUS
<1>1. /\ Init /\ at = "idle" /\ answer = "ok"
      /\ stage \in {"FixedHeader", "Header"} /\ isize = 0
  BY DEF FilesInit, GInit, ZInit, CInit, FieldsInit
<1>2. delivered = << >> /\ Len(delivered) = 0
  BY <1>1 DEF Init
<1>3. 0 % SIZE_MOD = 0
  <2>1. 0 \in 0 .. SIZE_MOD - 1 /\ (0 + SIZE_MOD * 0) = 0
    BY GzipAssumption
  <2> QED BY <2>1, GzipAssumption, Remainder
<1> QED BY <1>1, <1>2, <1>3 DEF TellsInv, TailInv, AnswerInv, LoopTells, Running
-----------------------------------------------------------------------------
(* What the caller of a container decoder may conclude.                    *)
LEMMA BehindEnd ==
  ASSUME NEW h \in Seq(0 .. 255), NEW p \in Nat, BehindExtra(h, p)
  PROVE  p <= Len(h)
<1>1. Len(h) \in Nat
  BY LenProperties
<1>2. \A q \in Nat : BehindComment(h, q) => q <= Len(h)
  BY <1>1 DEF BehindComment
<1>3. \A q \in 1 .. Len(h) : IsText(h, p, q) => p <= Len(h)
  BY <1>1 DEF IsText
<1>4. BehindName(h, p) => p <= Len(h)
  BY <1>2, <1>3 DEF BehindName
<1> QED BY <1>3, <1>4 DEF BehindExtra

(* In a header that is good there is still a byte to come, or none.        *)
LEMMA HeaderBound ==
  ASSUME IInv, ContainerInv, stage \in HeaderStages, HeadIsGood(File)
  PROVE  Here <= Len(File.head)
<1> DEFINE h == File.head
<1>1. h \in Seq(0 .. 255) /\ Len(h) \in Nat /\ Here \in Nat
  BY FileConstants, FileNumbers DEF ContainerInv
<1>2. HeadInv
  BY DEF ContainerInv
<1>3. ASSUME NEW n \in {2, 10}, Filling(n), n <= Len(h)
      PROVE  Here <= Len(h)
  <2>1. Len(filled) < n /\ Here = Len(filled) /\ Len(filled) \in Nat
    <3>1. /\ filled \in Seq(0 .. 255) /\ Len(filled) <= n /\ Len(filled) # n
          /\ Len(filled) < n => Here = Len(filled)
      BY <1>3 DEF Filling
    <3>2. Len(filled) \in Nat /\ n \in Nat
      BY <3>1, LenProperties
    <3> QED BY <3>1, <3>2
  <2> QED BY <1>1, <1>3, <2>1
<1>4. CASE stage = "Header"
  BY <1>2, <1>3, <1>4, HeaderConstants DEF HeadInv
<1>5. CASE stage = "FixedHeader"
  BY <1>2, <1>3, <1>5, HeaderConstants DEF HeadInv
<1>6. CASE stage = "Extra"
  <2>1. extra_len_bytes_filled \in 0 .. 1 /\ Here - extra_len_bytes_filled = 10
        /\ Len(h) >= 12
    BY <1>2, <1>6 DEF HeadInv, Ahead, Expects
  <2> QED BY <1>1, <2>1
<1>7. CASE stage = "ExtraLen"
  <2>1. extra_remaining \in Nat /\ BehindExtra(h, Here + extra_remaining)
    BY <1>2, <1>7 DEF HeadInv, Ahead
  <2>2. Here + extra_remaining \in Nat
    BY <1>1, <2>1
  <2>3. Here + extra_remaining <= Len(h)
    BY <1>1, <2>1, <2>2, BehindEnd
  <2> QED BY <1>1, <2>1, <2>3
<1>8. CASE stage \in {"Name", "Comment"}
  <2>1. PICK q \in 1 .. Len(h) : IsText(h, Here, q)
    BY <1>2, <1>8 DEF HeadInv, Ahead, Expects
  <2> QED BY <1>1, <2>1 DEF IsText
<1>9. CASE stage = "Hcrc"
  <2>1. /\ extra_len_bytes_filled \in 0 .. 1
        /\ Len(h) = Here - extra_len_bytes_filled + 2
    BY <1>2, <1>9 DEF HeadInv, Ahead, Expects
  <2> QED BY <1>1, <2>1
<1> QED BY <1>4, <1>5, <1>6, <1>7, <1>8, <1>9 DEF HeaderStages

LEMMA TrailerSize ==
  ASSUME IInv, NEW data
  PROVE  Len(TrailerOf(File, data)) = TRAILER
<1> DEFINE c == Checksum(data)
           z == SizeBytes(Len(data) % SIZE_MOD)
           B == {c[k] : k \in 1 .. 4} \cup {z[k] : k \in 1 .. 4}
<1>1. c \in [1 .. 4 -> B] /\ z \in [1 .. 4 -> B]
  <2>1. /\ c = [k \in 1 .. 4 |-> c[k]] /\ z = [k \in 1 .. 4 |-> z[k]]
    BY DEF Checksum, SizeBytes
  <2>2. \A k \in 1 .. 4 : c[k] \in B /\ z[k] \in B
    OBVIOUS
  <2> HIDE DEF c, z, B
  <2> QED BY <2>1, <2>2
<1>2. TrailerOf(File, data) = IF File.format = "gzip" THEN c \o z ELSE c
  BY DEF TrailerOf
<1> HIDE DEF c, z, B
<1>3. c \in Seq(B) /\ z \in Seq(B) /\ Len(c) = 4 /\ Len(z) = 4
  <2>1. [1 .. 4 -> B] \subseteq Seq(B)
    BY SeqDef
  <2>2. c \in Seq(B) /\ z \in Seq(B)
    BY <1>1, <2>1
  <2> QED BY <1>1, <2>1, <2>2, LenProperties
<1>4. Len(c \o z) = 8
  <2>1. Len(c \o z) = Len(c) + Len(z)
    BY <1>3, ConcatProperties, Zenon
  <2> QED BY <1>3, <2>1
<1> QED BY <1>2, <1>3, <1>4, FileConstants

(* A file is accepted only if it is right.                                 *)
LEMMA AcceptedIsRight ==
  ASSUME IInv, EndIsRight, ContainerInv, TellsInv
  PROVE  FinishedIsRight
<1> SUFFICES ASSUME done
             PROVE  /\ id \in WellFormed /\ delivered = WholeData[id]
                    /\ got >= FileEnd
                    /\ trailer = SubSeq(File.tail, 1, TRAILER)
  BY DEF FinishedIsRight
<1>1. stage = "Done" /\ HeadIsGood(File)
  BY DEF ContainerInv, FileTypes, HeadInv
<1>2. /\ finished /\ Unread = << >> /\ Len(trailer) = TRAILER
      /\ trailer = TrailerOf(File, delivered) /\ Here >= FileEnd
      /\ trailer = SubSeq(File.tail, 1, TRAILER) /\ TRAILER <= Len(File.tail)
  BY <1>1 DEF TellsInv, TailInv
<1>3. delivered = WholeData[id] /\ id \in DOMAIN WholeSize
  BY <1>2, FinishedIsWhole, NothingUnread DEF HasWholeStream
<1>4. EndsRight(File, WholeData[id])
  BY <1>2, <1>3, FileConstants, TrailerSize DEF EndsRight
<1>5. id \in WellFormed
  BY <1>1, <1>3, <1>4, HeaderConstants
<1>6. got >= FileEnd
  BY <1>2, FileNumbers, Ends DEF ContainerInv
<1> QED BY <1>2, <1>3, <1>5, <1>6

(* A file that is right has no trailer that is wrong, and at its end there *)
(* is no stage but the last to be in.                                      *)
LEMMA RightIsAccepted ==
  ASSUME IInv, EndIsRight, ContainerInv, TellsInv, id \in WellFormed
  PROVE  /\ ~ (stage = "Trailer" /\ Len(trailer) = TRAILER)
         /\ /\ at = "idle" /\ answer = "ok" /\ ~ File.insists /\ got >= FileEnd
            => stage = "Done"
<1>1. /\ HeadIsGood(File) /\ id \in DOMAIN WholeSize
      /\ EndsRight(File, WholeData[id])
      /\ WholeSize[id] = S.size - Len(File.tail)
  BY HeaderConstants
<1>2. ~ (stage = "Trailer" /\ Len(trailer) = TRAILER)
  <2> SUFFICES ASSUME stage = "Trailer", Len(trailer) = TRAILER
               PROVE  FALSE
    OBVIOUS
  <2>1. /\ finished /\ Unread = << >>
        /\ trailer = SubSeq(File.tail, 1, TRAILER)
        /\ trailer # TrailerOf(File, delivered)
    BY Ends DEF TellsInv, TailInv
  <2>2. delivered = WholeData[id]
    BY <2>1, FinishedIsWhole, NothingUnread
  <2>3. trailer = TrailerOf(File, delivered)
    BY <1>1, <2>1, <2>2, TrailerSize DEF EndsRight
  <2> QED BY <2>1, <2>3
<1>3. ASSUME at = "idle", answer = "ok", ~ File.insists, got >= FileEnd
      PROVE  stage = "Done"
  <2>1. /\ Here = got /\ Here \in Nat /\ FileEnd = BodyEnd + TRAILER
        /\ Len(File.head) <= BodyEnd /\ TRAILER \in Nat \ {0} /\ BodyEnd \in Nat
        /\ Len(File.head) \in Nat /\ fed \in Nat
    <3>1. rest = 0 /\ Here + rest = got /\ Here \in Nat
      BY <1>3, FileNumbers DEF ContainerInv, CallInv
    <3> QED BY <3>1, Ends, FileConstants, CurrentReader
  <2>2. stage \notin HeaderStages
    BY <1>1, <1>3, <2>1, HeaderBound
  <2>3. stage # "Body"
    <3> SUFFICES ASSUME stage = "Body" PROVE FALSE
      OBVIOUS
    <3>1. Here = Len(File.head) + fed
      BY DEF ContainerInv, HeadInv
    <3>2. fed > 0 /\ fed >= S.size - Len(File.tail)
      <4>1. BodyEnd - Len(File.head) = S.size - Len(File.tail)
        BY FileConstants DEF BodyEnd
      <4> QED BY <1>3, <2>1, <3>1, <4>1
    <3>3. HasWholeStream
      BY <1>1, <3>2 DEF HasWholeStream
    <3>4. fed > 0 => ~ HasWholeStream
      BY <1>3 DEF TellsInv, AnswerInv
    <3> QED BY <3>2, <3>3, <3>4
  <2>4. stage # "Trailer"
    <3> SUFFICES ASSUME stage = "Trailer" PROVE FALSE
      OBVIOUS
    <3>1. Len(trailer) < TRAILER /\ Here = BodyEnd + Len(trailer)
      BY <1>2 DEF TellsInv, TailInv
    <3>2. Len(trailer) \in Nat
      BY FileNumbers DEF ContainerInv
    <3> QED BY <1>3, <2>1, <3>1, <3>2
  <2> QED BY <2>2, <2>3, <2>4 DEF ContainerInv, FileTypes
<1> QED BY <1>2, <1>3

LEMMA NothingIsHeld ==
  ASSUME IInv, EndIsRight, ContainerInv, TellsInv
  PROVE  NothingHeldBack
<1> SUFFICES ASSUME at = "idle", answer = "ok", ~ File.insists
             PROVE  /\ Unread = << >>
                    /\ id \in WellFormed /\ got = FileEnd => done
  BY DEF NothingHeldBack
<1>1. Unread = << >>
  <2>1. stage \in HeaderStages => Unread = << >>
    BY DEF ContainerInv, HeadInv
  <2>2. stage = "Body" => Unread = << >>
    BY DEF TellsInv, AnswerInv
  <2>3. stage \in {"Trailer", "Done"} => Unread = << >>
    BY DEF TellsInv, TailInv
  <2> QED BY <2>1, <2>2, <2>3 DEF ContainerInv, FileTypes
<1>2. ASSUME id \in WellFormed, got = FileEnd
      PROVE  done
  <2>1. got >= FileEnd
    BY <1>2, Ends
  <2>2. stage = "Done"
    BY <1>2, <2>1, RightIsAccepted
  <2> QED BY <2>2 DEF ContainerInv, FileTypes
<1> QED BY <1>1, <1>2

LEMMA RefusedIsWrong ==
  ASSUME IInv, EndIsRight, ContainerInv, TellsInv
  PROVE  Refusal
<1> SUFFICES ASSUME at = "idle", id \in WellFormed, ~ File.insists
             PROVE  answer = "err" <=> got > FileEnd
  BY DEF Refusal
<1>1. Here = got /\ Here \in Nat /\ FileEnd \in Nat
  <2>1. rest = 0 /\ Here + rest = got /\ Here \in Nat /\ FileEnd \in Nat
    BY FileNumbers, Ends DEF ContainerInv, CallInv
  <2> QED BY <2>1
<1>2. ASSUME answer = "err"
      PROVE  got > FileEnd
  <2>1. HeadIsGood(File) /\ id \in DOMAIN WholeSize
    BY HeaderConstants
  <2>2. state.kind # "Transient"
    BY <2>1, FailedIsNotWhole
  <2>3. stage = "Done" /\ Here > FileEnd
    BY <1>2, <2>1, <2>2, RightIsAccepted DEF TellsInv, AnswerInv
  <2> QED BY <1>1, <2>3
<1>3. ASSUME answer = "ok", got > FileEnd
      PROVE  FALSE
  <2>1. got >= FileEnd
    BY <1>1, <1>3
  <2>2. stage = "Done"
    BY <1>3, <2>1, RightIsAccepted
  <2>3. Here = FileEnd
    BY <1>3, <2>2 DEF TellsInv, AnswerInv
  <2> QED BY <1>1, <1>3, <2>3
<1>4. answer \in {"ok", "err"}
  BY DEF ContainerInv, FileTypes
<1> QED BY <1>2, <1>3, <1>4

(* A gzip or zlib file that is well-formed, however it is cut into pieces, *)
(* is accepted as soon as its last byte is there, with all its data and    *)
(* nothing held back before; no other file is accepted, and bytes behind a *)
(* file are refused.                                                       *)
THEOREM FilesAreJudgedRight ==
  SizesAreRight =>
    (FilesSpec => [](FinishedIsRight /\ NothingHeldBack /\ Refusal))
<1>1. FilesSpec => Init /\ [][Moves]_vars
  BY FilesStart, FilesMove, FilesNextInv, MovesInv, PTL DEF FilesSpec
<1>2. FilesSpec => []IInv /\ Abstract!Spec
  BY <1>1, MovesDecode, PTL
<1>3. IInv /\ EndIsRight /\ ContainerInv /\ TellsInv
        => FinishedIsRight /\ NothingHeldBack /\ Refusal
  BY AcceptedIsRight, NothingIsHeld, RefusedIsWrong
<1> QED
  BY <1>2, <1>3, FilesStart, FilesTellStart, FilesNextInv, FilesTell, PTL
     DEF FilesSpec, SizesAreRight
=============================================================================
