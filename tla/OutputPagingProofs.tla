------------------------- MODULE OutputPagingProofs -------------------------
(* Proofs about OutputPaging, for every limit, buffer and page size, either   *)
(* output mode and every encoding: what a client that follows next_offset     *)
(* gets while the readers write.                                              *)

EXTENDS OutputPaging, OutputCaptureProofs

-----------------------------------------------------------------------------
(* The inductive invariant.                                                   *)

PageTypes ==
    /\ stream \in Readers
    /\ encoding \in Encodings
    /\ stage \in {"ask", "size", "read"}
    /\ sawFinished \in BOOLEAN
    /\ fileSize \in 0..Limit
    /\ cursor \in 0..file[stream]
    /\ eof \in BOOLEAN

\* The size taken lies between the client's offset and the end of the file, and
\* is the end of the file when the snapshot read before it was of a task that
\* ended by joining its readers.
SizeTaken ==
    stage = "read" =>
        /\ cursor <= fileSize /\ fileSize <= file[stream]
        /\ sawFinished /\ finished = "joined" => fileSize = file[stream]

\* A snapshot once seen as finished, and so eof, stays true.
SeenStays ==
    /\ stage \in {"size", "read"} /\ sawFinished => finished # "no"
    /\ eof => finished # "no"

PageInv == IInv /\ Ended /\ PageTypes /\ SizeTaken /\ SeenStays /\ EofIsTheEnd /\ UnitsNeverSplit

-----------------------------------------------------------------------------
(* The capture below the client.                                              *)

\* A client changes nothing of the capture: every behaviour of OutputPaging is
\* one of OutputCapture, so what is proved of the readers holds here too.
THEOREM PagingIsCapture == PagingSpec => Spec
<1>1. PagingInit => Init
  BY DEF PagingInit
<1>2. [PagingNext]_pagingVars => [Next]_vars
  BY DEF PagingNext, Capturing, ClientStep, ReadSnapshot, TakeSize, ReadPage, pagingVars, vars
<1> QED
  BY <1>1, <1>2, PTL DEF PagingSpec, Spec

\* A file only grows, a task that has ended stays ended, and the files of one
\* that joined its readers stay as they are.
LEMMA CaptureGrows ==
    ASSUME IInv, Ended, [Next]_vars, NEW s \in Readers
    PROVE  /\ file[s] \in Nat /\ file'[s] \in Nat /\ file[s] <= file'[s]
           /\ finished # "no" => finished' = finished
           /\ finished = "joined" => file' = file
<1>1. IInv'
  BY InvStep
<1>2. file[s] \in Nat /\ file'[s] \in Nat
  BY <1>1, ReadersAreStreams DEF IInv, TypeOK
<1>3. finished = "joined" => file' = file
  BY EndedStep
<1>4. finished # "no" => finished' = finished
  BY DEF Next, ReaderStep, ReadChunk, WriteChunk, WriteFails, CountChunk, FlagChunk, ReadEof, ReadFails,
         Publish, PublishError, Terminate, Quiescent, vars
<1>5. file[s] <= file'[s]
  <2>1. ASSUME NEW u \in Readers, NEW part \in Nat, file' = [file EXCEPT ![u] = @ + part]
        PROVE  file[s] <= file'[s]
    BY <1>2, <2>1, ReadersAreStreams DEF IInv, TypeOK
  <2>2. ASSUME NEW u \in Readers, WriteChunk(u)
        PROVE  file[s] <= file'[s]
    <3>1. allowed[u] \in Nat
      BY ReadersAreStreams, LimitsAssumption DEF IInv, TypeOK
    <3> QED
      BY <2>1, <2>2, <3>1 DEF WriteChunk
  <2>3. ASSUME NEW u \in Readers, WriteFails(u)
        PROVE  file[s] <= file'[s]
    <3>1. PICK part \in 0..BufferSize : file' = [file EXCEPT ![u] = @ + part]
      BY <2>3 DEF WriteFails
    <3>2. part \in Nat
      BY LimitsAssumption
    <3> QED
      BY <2>1, <3>1, <3>2
  <2>4. CASE UNCHANGED file
    BY <1>2, <2>4
  <2>5. CASE \E u \in Readers : ReaderStep(u) /\ ~WriteChunk(u) /\ ~WriteFails(u)
    BY <2>4, <2>5 DEF ReaderStep, ReadChunk, CountChunk, FlagChunk, ReadEof, ReadFails
  <2>6. CASE Publish \/ PublishError \/ Quiescent \/ UNCHANGED vars
    BY <2>4, <2>6 DEF Publish, PublishError, Terminate, Quiescent, vars
  <2> QED
    BY <2>2, <2>3, <2>5, <2>6 DEF Next
<1> QED
  BY <1>2, <1>3, <1>4, <1>5

\* The file of one stream is within the limit.
LEMMA FileWithinLimit ==
    ASSUME IInv, NEW s \in Readers
    PROVE  file[s] \in 0..Limit
<1>1. PendingTotal >= 0 /\ PendingTotal \in Int
  BY DEF IInv, TypeOK, PendingTotal, Pending, AllStreams
<1>2. Least(Limit, captured) <= Limit /\ Least(Limit, captured) \in Int
  BY LimitsAssumption DEF IInv, TypeOK, Least
<1>3. Total(file) <= Limit
  <2>1. Total(file) \in Int
    BY DEF IInv, TypeOK, Total, AllStreams
  <2> QED
    BY <1>1, <1>2, <2>1, LimitsAssumption DEF IInv, Budget
<1>4. file["stdout"] \in Nat /\ file["stderr"] \in Nat /\ file["combined"] \in Nat
  BY DEF IInv, TypeOK, AllStreams
<1>5. s \in {"stdout", "stderr", "combined"}
  BY DEF Readers
<1> QED
  BY <1>3, <1>4, <1>5, LimitsAssumption DEF Total

-----------------------------------------------------------------------------
(* The arithmetic of a page.                                                  *)

\* Cutting to whole code units.
LEMMA EvenPart ==
    ASSUME NEW b \in Nat
    PROVE  /\ b - (b % 2) \in 0..b
           /\ (b - (b % 2)) % 2 = 0
OBVIOUS

\* Offset and page are both even, and so is the offset after the page.
LEMMA EvenSum ==
    ASSUME NEW a \in Nat, NEW b \in Nat, a % 2 = 0, b % 2 = 0
    PROVE  (a + b) % 2 = 0
OBVIOUS

\* A page never leads past the size that was taken, and at UTF-16LE it is an
\* even number of bytes.
LEMMA PageBounds ==
    ASSUME PageTypes, NEW limit \in 1..MaxLimit, file[stream] \in Nat, cursor <= fileSize
    PROVE  /\ PageBytes(limit) \in Nat
           /\ After(limit) \in Nat
           /\ cursor <= After(limit) /\ After(limit) <= fileSize
           /\ encoding = "utf-16le" => PageBytes(limit) % 2 = 0
<1> DEFINE bytes == Least(limit, fileSize - cursor)
<1>1. cursor \in Nat /\ fileSize \in Nat /\ limit \in Nat
  BY LimitsAssumption, PagingAssumption DEF PageTypes
<1>2. bytes \in Nat /\ bytes <= fileSize - cursor
  BY <1>1 DEF Least
<1>3. PageBytes(limit) = IF encoding = "utf-16le" THEN bytes - (bytes % 2) ELSE bytes
  BY DEF PageBytes
<1> HIDE DEF bytes
<1>4. /\ PageBytes(limit) \in 0..bytes
      /\ encoding = "utf-16le" => PageBytes(limit) % 2 = 0
  BY <1>2, <1>3, EvenPart
<1> QED
  BY <1>1, <1>2, <1>4 DEF After

-----------------------------------------------------------------------------
(* Each step preserves the invariant.                                         *)

\* The initial state of client and capture.
LEMMA PageInit == PagingInit => PageInv
<1> SUFFICES ASSUME PagingInit PROVE PageInv
  OBVIOUS
<1>1. IInv /\ Init
  BY InvInit DEF PagingInit
<1>2. Ended
  BY <1>1 DEF Init, Ended
<1>3. file[stream] = 0
  BY <1>1, ReadersAreStreams DEF PagingInit, Init
<1>4. PageTypes
  <2>1. fileSize \in 0..Limit /\ cursor \in 0..file[stream]
    BY <1>3, LimitsAssumption DEF PagingInit
  <2> QED
    BY <2>1, Zenon DEF PagingInit, PageTypes
<1> QED
  BY <1>1, <1>2, <1>4 DEF PagingInit, PageInv, SizeTaken, SeenStays, EofIsTheEnd, UnitsNeverSplit

\* Readers append and the task ends while the client is anywhere in a page.
LEMMA CapturingStep ==
    ASSUME PageInv, [Next]_vars, UNCHANGED pageVars
    PROVE  PageInv'
<1>1. IInv' /\ Ended'
  BY InvStep, EndedStep DEF PageInv
<1>2. stream \in Readers
  BY DEF PageInv, PageTypes
<1>3. /\ file[stream] \in Nat /\ file'[stream] \in Nat /\ file[stream] <= file'[stream]
      /\ finished # "no" => finished' = finished
      /\ finished = "joined" => file' = file
  BY <1>2, CaptureGrows DEF PageInv
<1>4. cursor \in Nat /\ fileSize \in Nat /\ cursor <= file[stream]
  BY <1>3, LimitsAssumption DEF PageInv, PageTypes
<1>5. PageTypes'
  BY <1>3, <1>4 DEF PageInv, PageTypes, pageVars
<1>6. SeenStays'
  BY <1>3 DEF PageInv, SeenStays, pageVars
<1>7. SizeTaken'
  BY <1>3, <1>4 DEF PageInv, SizeTaken, SeenStays, pageVars
<1>8. EofIsTheEnd' /\ UnitsNeverSplit'
  BY <1>3 DEF PageInv, EofIsTheEnd, UnitsNeverSplit, SeenStays, pageVars
<1> QED
  BY <1>1, <1>5, <1>6, <1>7, <1>8 DEF PageInv

\* A step of the client leaves what is known of the capture.
LEMMA CaptureKept ==
    ASSUME IInv, Ended, UNCHANGED vars
    PROVE  IInv' /\ Ended'
BY InvStep, EndedStep

\* The three steps of output_chunk.
LEMMA ClientStepInv ==
    ASSUME PageInv, ClientStep
    PROVE  PageInv'
<1>1. UNCHANGED vars
  BY DEF ClientStep, ReadSnapshot, TakeSize, ReadPage
<1>2. IInv' /\ Ended' /\ UNCHANGED <<file, finished>>
  BY <1>1, CaptureKept DEF PageInv, vars
<1>3. stream \in Readers /\ stream' = stream /\ encoding' = encoding
  BY DEF PageInv, PageTypes, ClientStep, ReadSnapshot, TakeSize, ReadPage
<1>4. file[stream] \in Nat /\ file[stream] \in 0..Limit
  BY <1>3, FileWithinLimit, LimitsAssumption DEF PageInv
<1>5. cursor \in Nat /\ cursor <= file[stream]
  BY <1>4 DEF PageInv, PageTypes
<1>6. CASE ReadSnapshot
  <2>1. PageTypes'
    BY <1>2, <1>3, <1>6 DEF ReadSnapshot, PageInv, PageTypes
  <2> QED
    BY <1>2, <1>3, <1>6, <2>1
       DEF ReadSnapshot, PageInv, SizeTaken, SeenStays, EofIsTheEnd, UnitsNeverSplit
<1>7. CASE TakeSize
  <2>1. PageTypes'
    BY <1>2, <1>3, <1>4, <1>7 DEF TakeSize, PageInv, PageTypes
  <2> QED
    BY <1>2, <1>3, <1>4, <1>5, <1>7, <2>1
       DEF TakeSize, PageInv, SizeTaken, SeenStays, EofIsTheEnd, UnitsNeverSplit
<1>8. ASSUME NEW limit \in 1..MaxLimit, ReadPage(limit)
      PROVE  PageInv'
  <2>1. /\ stage = "read" /\ stage' = "ask" /\ sawFinished' = sawFinished /\ fileSize' = 0
        /\ cursor' = After(limit) /\ eof' = PageEof(limit)
    BY <1>8 DEF ReadPage
  <2>2. /\ cursor <= fileSize /\ fileSize <= file[stream]
        /\ sawFinished /\ finished = "joined" => fileSize = file[stream]
    BY <2>1 DEF PageInv, SizeTaken
  <2>3. /\ PageBytes(limit) \in Nat /\ After(limit) \in Nat
        /\ cursor <= After(limit) /\ After(limit) <= fileSize
        /\ encoding = "utf-16le" => PageBytes(limit) % 2 = 0
    BY <1>4, <2>2, PageBounds DEF PageInv
  <2>4. fileSize \in Nat
    BY LimitsAssumption DEF PageInv, PageTypes
  <2>5. PageTypes'
    <3>1. cursor' \in 0..file'[stream']
      BY <1>2, <1>3, <1>4, <2>1, <2>2, <2>3, <2>4
    <3>2. eof' \in BOOLEAN
      BY <2>1 DEF PageEof
    <3> QED
      BY <1>3, <2>1, <3>1, <3>2, LimitsAssumption DEF PageInv, PageTypes
  <2>6. EofIsTheEnd'
    <3>1. sawFinished /\ finished = "joined" /\ After(limit) >= fileSize => After(limit) = file[stream]
      BY <2>2, <2>3, <2>4
    <3>2. eof' => sawFinished /\ After(limit) >= fileSize
      BY <2>1 DEF PageEof
    <3> QED
      BY <1>2, <1>3, <2>1, <3>1, <3>2 DEF EofIsTheEnd
  <2>7. UnitsNeverSplit'
    BY <1>3, <1>5, <2>1, <2>3, EvenSum DEF PageInv, UnitsNeverSplit, After
  <2>8. SizeTaken' /\ SeenStays'
    BY <1>2, <2>1 DEF PageInv, SizeTaken, SeenStays, PageEof
  <2> QED
    BY <1>2, <2>5, <2>6, <2>7, <2>8 DEF PageInv
<1> QED
  BY <1>6, <1>7, <1>8 DEF ClientStep

\* Client and capture agree in every reachable state: the offset, the size
\* taken and eof stay within what the file holds.
THEOREM PagingInvariant == PagingSpec => []PageInv
<1>1. ASSUME PageInv, [PagingNext]_pagingVars
      PROVE  PageInv'
  <2>1. CASE Capturing
    BY <1>1, <2>1, CapturingStep DEF Capturing
  <2>2. CASE UNCHANGED pagingVars
    BY <1>1, <2>2, CapturingStep DEF pagingVars, pageVars, vars
  <2> QED
    BY <1>1, <2>1, <2>2, ClientStepInv DEF PagingNext
<1> QED
  BY PageInit, <1>1, PTL DEF PagingSpec

-----------------------------------------------------------------------------
(* What a client may rely on.                                                 *)

\* Types of client and capture; the offset a client was given is always one
\* that output_chunk accepts.
THEOREM PagingTypeCorrect == PagingSpec => []PagingTypeOK
<1>1. PageInv => PagingTypeOK
  BY DEF PageInv, PageTypes, IInv, PagingTypeOK
<1> QED
  BY <1>1, PagingInvariant, PTL

\* A page with eof of a task that joined its readers is the last one, although
\* the status is read before the size and both may change in between.
THEOREM EofIsTheEndHolds == PagingSpec => []EofIsTheEnd
<1>1. PageInv => EofIsTheEnd
  BY DEF PageInv
<1> QED
  BY <1>1, PagingInvariant, PTL

\* No page of UTF-16LE output ends inside a code unit.
THEOREM UnitsNeverSplitHolds == PagingSpec => []UnitsNeverSplit
<1>1. PageInv => UnitsNeverSplit
  BY DEF PageInv
<1> QED
  BY <1>1, PagingInvariant, PTL
=============================================================================
