------------------------ MODULE OutputCaptureProofs ------------------------
(* Proofs about OutputCapture, for every limit, buffer size and amount of     *)
(* output, in both modes, with and without failures.                          *)

EXTENDS OutputCapture, TLAPS

-----------------------------------------------------------------------------
(* The inductive invariant.                                                   *)

\* Bytes reserved by a reader and not yet in its file.
Pending(s) == IF at[s] = "write" THEN allowed[s] ELSE 0

PendingTotal == Pending("stdout") + Pending("stderr") + Pending("combined")

\* What is in the files and what is about to be written never exceed the
\* budget used so far, and equal it while no reader has failed.
Budget ==
    /\ Total(file) + PendingTotal <= Least(Limit, captured)
    /\ (\A s \in AllStreams : at[s] # "failed") => Total(file) + PendingTotal = Least(Limit, captured)

\* Bytes of the buffer are dropped only when the budget is exceeded.
Dropping(s) == at[s] \in {"write", "count", "flag"} /\ allowed[s] < chunk[s]

ReaderShape(s) ==
    /\ allowed[s] <= chunk[s]
    /\ at[s] \in {"idle", "read", "eof"} => chunk[s] = 0 /\ allowed[s] = 0
    /\ Dropping(s) => captured > Limit
    /\ at[s] \in {"read", "eof"} => counter[s] = file[s] /\ (file[s] = offset[s] \/ captured >= Limit)
    /\ at[s] = "write" => counter[s] = file[s] /\ file[s] = offset[s] /\ allowed[s] > 0
    /\ at[s] = "count" => counter[s] + allowed[s] = file[s] /\ file[s] = offset[s] + allowed[s]
    /\ at[s] = "flag" => counter[s] = file[s] /\ (file[s] = offset[s] + chunk[s] \/ captured >= Limit)
    /\ counter[s] <= file[s]

\* The flag is raised only beyond the limit, and beyond the limit it has been
\* raised, is about to be, or a reader has failed.
Flag ==
    /\ truncated => captured > Limit
    /\ captured > Limit => truncated \/ \E s \in AllStreams : Dropping(s) \/ at[s] = "failed"

IInv ==
    /\ TypeOK
    /\ \A s \in AllStreams : ReaderShape(s)
    /\ \A s \in AllStreams : at[s] = "idle" <=> s \notin Readers
    /\ Budget
    /\ Flag

-----------------------------------------------------------------------------
(* Initial states and lemmas on the budget.                                   *)

\* The initial state satisfies the invariant.
LEMMA InvInit == Init => IInv
<1> SUFFICES ASSUME Init PROVE IInv
  OBVIOUS
<1>1. TypeOK
  <2>1. 0 \in 0..BufferSize
    BY LimitsAssumption
  <2>2. at \in [AllStreams -> {"idle", "read", "write", "count", "flag", "eof", "failed"}]
    BY DEF Init
  <2> QED
    BY <2>1, <2>2 DEF Init, TypeOK
<1>2. \A s \in AllStreams : ReaderShape(s)
  BY DEF Init, ReaderShape, Dropping, AllStreams
<1>3. \A s \in AllStreams : at[s] = "idle" <=> s \notin Readers
  BY DEF Init, Readers, AllStreams
<1>4. Budget
  BY LimitsAssumption DEF Init, Budget, PendingTotal, Pending, Total, Least, AllStreams
<1>5. Flag
  BY LimitsAssumption DEF Init, Flag
<1> QED
  BY <1>1, <1>2, <1>3, <1>4, <1>5 DEF IInv

\* Readers are among the three streams.
LEMMA ReadersAreStreams == Readers \subseteq AllStreams
BY DEF Readers, AllStreams

\* A reservation is between nothing and the buffer, and is what the buffer
\* adds to the part of the budget that can be used.
LEMMA AllowedBounds ==
    ASSUME NEW already \in Nat, NEW n \in 1..BufferSize
    PROVE  /\ Allowed(already, n) \in 0..BufferSize
           /\ Allowed(already, n) <= n
           /\ Least(Limit, already + n) = Least(Limit, already) + Allowed(already, n)
           /\ Allowed(already, n) < n => already + n > Limit
           /\ Allowed(already, n) > 0 => already < Limit
BY LimitsAssumption DEF Allowed, Least

-----------------------------------------------------------------------------
(* Each step of a reader preserves the invariant.                             *)

\* Reserving a buffer in the shared budget preserves the invariant.
LEMMA ReadChunkStep ==
    ASSUME IInv, NEW s \in Readers, NEW n \in 1..BufferSize, ReadChunk(s, n)
    PROVE  IInv'
<1> USE DEF IInv, TypeOK
<1>0. s \in AllStreams /\ captured \in Nat /\ n \in Nat /\ n > 0
  BY ReadersAreStreams, LimitsAssumption
<1> DEFINE k == Allowed(captured, n)
<1>1. /\ k \in 0..BufferSize /\ k \in Nat /\ k <= n
      /\ Least(Limit, captured + n) = Least(Limit, captured) + k
      /\ k < n => captured + n > Limit
      /\ k > 0 => captured < Limit
  <2>1. /\ Allowed(captured, n) \in 0..BufferSize
        /\ Allowed(captured, n) <= n
        /\ Least(Limit, captured + n) = Least(Limit, captured) + Allowed(captured, n)
        /\ Allowed(captured, n) < n => captured + n > Limit
        /\ Allowed(captured, n) > 0 => captured < Limit
    BY <1>0, AllowedBounds
  <2> HIDE DEF IInv, TypeOK
  <2> QED
    BY <2>1, LimitsAssumption
<1> HIDE DEF k
<1>2. /\ chunk' = [chunk EXCEPT ![s] = n] /\ allowed' = [allowed EXCEPT ![s] = k]
      /\ captured' = captured + n
      /\ at' = [at EXCEPT ![s] = IF k > 0 THEN "write" ELSE "flag"]
      /\ at[s] = "read"
      /\ UNCHANGED <<offset, file, counter, truncated, finished, recorded>>
  BY <1>0 DEF ReadChunk, k
<1>3. TypeOK'
  BY <1>0, <1>1, <1>2
<1>4. ASSUME NEW u \in AllStreams
      PROVE  ReaderShape(u)'
  BY <1>0, <1>1, <1>2, <1>4, LimitsAssumption DEF ReaderShape, Dropping
<1>5. \A u \in AllStreams : at'[u] = "idle" <=> u \notin Readers
  BY <1>0, <1>2
<1>6. Budget'
  <2>1. PendingTotal' = PendingTotal + k
    BY <1>0, <1>1, <1>2 DEF PendingTotal, Pending, AllStreams
  <2>2. Total(file') = Total(file) /\ Total(file) \in Int /\ PendingTotal \in Int
    BY <1>2 DEF Total, PendingTotal, Pending, AllStreams
  <2>3. Least(Limit, captured') = Least(Limit, captured) + k
    BY <1>1, <1>2
  <2>4. Least(Limit, captured) \in Int
    BY <1>0, LimitsAssumption DEF Least
  <2>5. \A u \in AllStreams : at'[u] = "failed" <=> at[u] = "failed"
    BY <1>0, <1>2
  <2> QED
    BY <1>1, <1>2, <2>1, <2>2, <2>3, <2>4, <2>5 DEF Budget
<1>7. Flag'
  <2>1. CASE captured' > Limit /\ k = n
    <3>1. captured > Limit
      BY <1>0, <1>1, <1>2, <2>1, LimitsAssumption DEF Least
    <3> QED
      BY <1>0, <1>1, <1>2, <2>1, <3>1, LimitsAssumption DEF Flag, Dropping
  <2>2. CASE k # n
    BY <1>0, <1>1, <1>2, <2>2, LimitsAssumption DEF Flag, Dropping
  <2>3. CASE ~(captured' > Limit)
    BY <1>0, <1>1, <1>2, <2>3, LimitsAssumption DEF Flag
  <2> QED
    BY <2>1, <2>2, <2>3
<1> QED
  BY <1>3, <1>4, <1>5, <1>6, <1>7

\* A write moves what is pending into the file, completely or, if it fails,
\* in part.
LEMMA WriteStep ==
    ASSUME IInv, NEW s \in Readers, NEW part \in Nat, part <= allowed[s], at[s] = "write",
           file' = [file EXCEPT ![s] = @ + part],
           \/ part = allowed[s] /\ at' = [at EXCEPT ![s] = "count"]
           \/ at' = [at EXCEPT ![s] = "failed"],
           UNCHANGED <<chunk, allowed, offset, counter, captured, truncated, finished, recorded>>
    PROVE  IInv'
<1> USE DEF IInv, TypeOK
<1>0. s \in AllStreams
  BY ReadersAreStreams
<1>1. TypeOK'
  BY <1>0
<1>2. ASSUME NEW u \in AllStreams
      PROVE  ReaderShape(u)'
  BY <1>0, <1>2, LimitsAssumption DEF ReaderShape, Dropping
<1>3. \A u \in AllStreams : at'[u] = "idle" <=> u \notin Readers
  BY <1>0
<1>4. Budget'
  <2>1. PendingTotal' = PendingTotal - allowed[s]
    BY <1>0 DEF PendingTotal, Pending, AllStreams
  <2>2. Total(file') = Total(file) + part
    BY <1>0 DEF Total, AllStreams
  <2>3. Total(file) \in Int /\ PendingTotal \in Int /\ allowed[s] \in Int
    BY <1>0 DEF Total, PendingTotal, Pending, AllStreams
  <2>4. Least(Limit, captured) \in Int
    BY LimitsAssumption DEF Least
  <2>5. CASE part = allowed[s] /\ at' = [at EXCEPT ![s] = "count"]
    <3>1. \A u \in AllStreams : at'[u] = "failed" <=> at[u] = "failed"
      BY <1>0, <2>5
    <3> QED
      BY <2>1, <2>2, <2>3, <2>4, <2>5, <3>1 DEF Budget
  <2>6. CASE at' = [at EXCEPT ![s] = "failed"]
    <3>1. ~(\A u \in AllStreams : at'[u] # "failed")
      BY <1>0, <2>6
    <3> QED
      BY <2>1, <2>2, <2>3, <2>4, <3>1 DEF Budget
  <2> QED
    BY <2>5, <2>6
<1>5. Flag'
  <2>1. ASSUME NEW u \in AllStreams, Dropping(u) \/ at[u] = "failed"
        PROVE  Dropping(u)' \/ at'[u] = "failed"
    BY <1>0, <2>1 DEF Dropping
  <2> QED
    BY <2>1 DEF Flag
<1> QED
  BY <1>1, <1>2, <1>3, <1>4, <1>5

\* The other steps of a reader move no bytes between budget and file.
LEMMA QuietBudget ==
    ASSUME IInv, NEW s \in AllStreams, NEW p, p # "write", at[s] # "write",
           at' = [at EXCEPT ![s] = p],
           \A u \in AllStreams : u # s => allowed'[u] = allowed[u],
           UNCHANGED <<file, captured>>, at[s] # "failed"
    PROVE  Budget'
<1>1. PendingTotal' = PendingTotal
  BY DEF IInv, TypeOK, PendingTotal, Pending, AllStreams
<1>2. (\A u \in AllStreams : at'[u] # "failed") => (\A u \in AllStreams : at[u] # "failed")
  BY DEF IInv, TypeOK
<1> QED
  BY <1>1, <1>2 DEF IInv, Budget, Total

\* Adding written bytes to the size shown to clients preserves the invariant.
LEMMA CountStep ==
    ASSUME IInv, NEW s \in Readers, CountChunk(s)
    PROVE  IInv'
<1> USE DEF CountChunk
<1>0. s \in AllStreams
  BY ReadersAreStreams
<1>1. TypeOK'
  BY <1>0 DEF IInv, TypeOK
<1>2. ASSUME NEW u \in AllStreams
      PROVE  ReaderShape(u)'
  BY <1>0, <1>2, LimitsAssumption DEF IInv, TypeOK, ReaderShape, Dropping
<1>3. \A u \in AllStreams : at'[u] = "idle" <=> u \notin Readers
  BY <1>0 DEF IInv, TypeOK
<1>4. Budget'
  BY <1>0, QuietBudget
<1>5. Flag'
  <2>1. \A u \in AllStreams : Dropping(u) \/ at[u] = "failed" => Dropping(u)' \/ at'[u] = "failed"
    BY <1>0 DEF IInv, TypeOK, Dropping
  <2> QED
    BY <2>1 DEF IInv, Flag
<1> QED
  BY <1>1, <1>2, <1>3, <1>4, <1>5 DEF IInv

\* Setting output_truncated preserves the invariant.
LEMMA FlagStep ==
    ASSUME IInv, NEW s \in Readers, FlagChunk(s)
    PROVE  IInv'
<1> USE DEF FlagChunk
<1>0. s \in AllStreams
  BY ReadersAreStreams
<1>1. TypeOK'
  BY <1>0, LimitsAssumption DEF IInv, TypeOK
<1>2. ASSUME NEW u \in AllStreams
      PROVE  ReaderShape(u)'
  BY <1>0, <1>2, LimitsAssumption DEF IInv, TypeOK, ReaderShape, Dropping
<1>3. \A u \in AllStreams : at'[u] = "idle" <=> u \notin Readers
  BY <1>0 DEF IInv, TypeOK
<1>4. Budget'
  BY <1>0, QuietBudget DEF IInv, TypeOK
<1>5. Flag'
  <2>1. Cut(s) => captured > Limit
    BY <1>0 DEF IInv, ReaderShape, Dropping, Cut
  <2>2. Dropping(s) => Cut(s)
    BY DEF Dropping, Cut
  <2>3. \A u \in AllStreams : u # s /\ (Dropping(u) \/ at[u] = "failed") => Dropping(u)' \/ at'[u] = "failed"
    BY <1>0 DEF IInv, TypeOK, Dropping
  <2> QED
    BY <1>0, <2>1, <2>2, <2>3 DEF IInv, Flag
<1> QED
  BY <1>1, <1>2, <1>3, <1>4, <1>5 DEF IInv

\* The end of a pipe, or an error on it, preserves the invariant.
LEMMA EndStep ==
    ASSUME IInv, NEW s \in Readers, ReadEof(s) \/ ReadFails(s)
    PROVE  IInv'
<1> USE DEF ReadEof, ReadFails
<1>0. s \in AllStreams
  BY ReadersAreStreams
<1>1. TypeOK'
  BY <1>0 DEF IInv, TypeOK
<1>2. ASSUME NEW u \in AllStreams
      PROVE  ReaderShape(u)'
  BY <1>0, <1>2, LimitsAssumption DEF IInv, TypeOK, ReaderShape, Dropping
<1>3. \A u \in AllStreams : at'[u] = "idle" <=> u \notin Readers
  BY <1>0 DEF IInv, TypeOK
<1>4. Budget'
  BY <1>0, QuietBudget
<1>5. Flag'
  <2>1. \A u \in AllStreams : Dropping(u) \/ at[u] = "failed" => Dropping(u)' \/ at'[u] = "failed"
    BY <1>0 DEF IInv, TypeOK, Dropping
  <2> QED
    BY <2>1 DEF IInv, Flag
<1> QED
  BY <1>1, <1>2, <1>3, <1>4, <1>5 DEF IInv

\* Publishing and stuttering touch no byte and no flag.
LEMMA StillStep ==
    ASSUME IInv, UNCHANGED <<at, chunk, allowed, offset, file, counter, captured, truncated>>,
           finished' \in {"no", "joined", "error"}, recorded' \in BOOLEAN
    PROVE  IInv'
<1>1. TypeOK'
  BY DEF IInv, TypeOK
<1>2. \A u \in AllStreams : ReaderShape(u)'
  BY DEF IInv, ReaderShape, Dropping
<1>3. Budget' /\ Flag'
  BY DEF IInv, Budget, PendingTotal, Pending, Total, Flag, Dropping
<1> QED
  BY <1>1, <1>2, <1>3 DEF IInv

\* Every step preserves the invariant.
LEMMA InvStep ==
    ASSUME IInv, [Next]_vars
    PROVE  IInv'
<1>1. ASSUME NEW s \in Readers, ReaderStep(s)
      PROVE  IInv'
  <2>1. CASE WriteChunk(s)
    <3>1. allowed[s] \in Nat /\ allowed[s] <= allowed[s]
      BY ReadersAreStreams, LimitsAssumption DEF IInv, TypeOK
    <3> QED
      BY <2>1, <3>1, WriteStep DEF WriteChunk
  <2>2. CASE WriteFails(s)
    <3>1. PICK part \in 0..BufferSize : part <= allowed[s] /\ file' = [file EXCEPT ![s] = @ + part]
      BY <2>2 DEF WriteFails
    <3>2. part \in Nat
      BY LimitsAssumption
    <3> QED
      BY <2>2, <3>1, <3>2, WriteStep DEF WriteFails
  <2> QED
    BY <1>1, <2>1, <2>2, ReadChunkStep, CountStep, FlagStep, EndStep DEF ReaderStep
<1>2. CASE Publish \/ PublishError
  BY <1>2, StillStep DEF Publish, PublishError, Terminate, IInv, TypeOK
<1>3. CASE Quiescent \/ UNCHANGED vars
  BY <1>3, StillStep DEF Quiescent, vars, IInv, TypeOK
<1> QED
  BY <1>1, <1>2, <1>3 DEF Next

\* Files, reservations, counters and the truncation flag of copy_output agree
\* with the shared budget in every reachable state.
THEOREM InductiveInvariant == Spec => []IInv
<1>1. IInv /\ [Next]_vars => IInv'
  BY InvStep
<1> QED
  BY InvInit, <1>1, PTL DEF Spec

-----------------------------------------------------------------------------
(* What the invariant gives.                                                  *)

\* The files of a task never hold more than max_output_bytes_per_task bytes,
\* however the two readers interleave and wherever a write fails.
THEOREM WithinLimitHolds == Spec => []WithinLimit
<1>1. IInv => WithinLimit
  <2> SUFFICES ASSUME IInv PROVE WithinLimit
    OBVIOUS
  <2>1. PendingTotal >= 0 /\ PendingTotal \in Int /\ Total(file) \in Int
    BY DEF IInv, TypeOK, PendingTotal, Pending, Total, AllStreams
  <2>2. Least(Limit, captured) <= Limit /\ Least(Limit, captured) \in Int
    BY LimitsAssumption DEF IInv, TypeOK, Least
  <2> QED
    BY <2>1, <2>2, LimitsAssumption DEF IInv, Budget, WithinLimit
<1> QED
  BY <1>1, InductiveInvariant, PTL

\* Every log file is a prefix of its stream.
THEOREM FilesArePrefixesHolds == Spec => []FilesArePrefixes
<1>1. IInv => FilesArePrefixes
  BY ReadersAreStreams DEF IInv, ReaderShape, FilesArePrefixes
<1> QED
  BY <1>1, InductiveInvariant, PTL

\* Sizes shown to clients can be served, and are exact at the end.
THEOREM SizesAreServableHolds == Spec => []SizesAreServable
<1>1. IInv => SizesAreServable
  BY ReadersAreStreams DEF IInv, ReaderShape, SizesAreServable
<1> QED
  BY <1>1, InductiveInvariant, PTL

\* Below the limit nothing is lost, and above it exactly the limit is kept.
THEOREM NothingLostHolds == Spec => []NothingLostBelowLimit
<1>1. IInv => NothingLostBelowLimit
  <2> SUFFICES ASSUME IInv, \A s \in Readers : at[s] = "eof"
               PROVE  Total(file) = Least(Limit, captured)
    BY DEF NothingLostBelowLimit
  <2>1. \A s \in AllStreams : at[s] \in {"idle", "eof"}
    BY DEF IInv
  <2>2. PendingTotal = 0
    BY <2>1 DEF PendingTotal, Pending, AllStreams
  <2>3. Total(file) \in Int
    BY DEF IInv, TypeOK, Total, AllStreams
  <2> QED
    BY <2>1, <2>2, <2>3 DEF IInv, Budget
<1> QED
  BY <1>1, InductiveInvariant, PTL

\* A task whose readers were all joined reports truncation exactly when bytes
\* were dropped.
THEOREM TruncationReportedHolds == Spec => []TruncationReported
<1>1. IInv => TruncationReported
  <2> SUFFICES ASSUME IInv, \A s \in Readers : at[s] = "eof"
               PROVE  truncated <=> captured > Limit
    BY DEF TruncationReported
  <2>1. \A s \in AllStreams : at[s] \in {"idle", "eof"}
    BY DEF IInv
  <2>2. \A s \in AllStreams : ~Dropping(s) /\ at[s] # "failed"
    BY <2>1 DEF Dropping
  <2> QED
    BY <2>2 DEF IInv, Flag
<1> QED
  BY <1>1, InductiveInvariant, PTL

-----------------------------------------------------------------------------
(* The end of the output.                                                     *)

\* A task that ended regularly has joined its readers and recorded the flag.
Ended ==
    finished = "joined" =>
        /\ \A s \in Readers : at[s] = "eof"
        /\ recorded = truncated

\* Every step preserves it, and none changes a file or the flag afterwards.
LEMMA EndedStep ==
    ASSUME Ended, [Next]_vars
    PROVE  /\ Ended'
           /\ finished = "joined" => UNCHANGED <<file, truncated>> /\ recorded = truncated
<1>1. ASSUME NEW s \in Readers, ReaderStep(s)
      PROVE  finished # "joined" /\ finished' = finished
  <2>1. at[s] # "eof"
    BY <1>1 DEF ReaderStep, ReadChunk, WriteChunk, WriteFails, CountChunk, FlagChunk, ReadEof, ReadFails
  <2>2. finished' = finished
    BY <1>1 DEF ReaderStep, ReadChunk, WriteChunk, WriteFails, CountChunk, FlagChunk, ReadEof, ReadFails
  <2> QED
    BY <2>1, <2>2 DEF Ended
<1>2. CASE \E s \in Readers : ReaderStep(s)
  BY <1>1, <1>2 DEF Ended
<1>3. CASE Publish
  BY <1>3 DEF Publish, Terminate, Ended
<1>4. CASE PublishError
  BY <1>4 DEF PublishError, Terminate, Ended
<1>5. CASE Quiescent \/ UNCHANGED vars
  BY <1>5 DEF Quiescent, vars, Ended
<1> QED
  BY <1>2, <1>3, <1>4, <1>5 DEF Next

\* After a task has ended by joining its readers, its files and its truncation
\* flag no longer change and the terminal snapshot has that flag.
THEOREM FinishedOutputFrozenHolds == Spec => FinishedOutputFrozen
<1>1. Init => Ended
  BY DEF Init, Ended
<1>2. Ended /\ [Next]_vars => Ended'
  BY EndedStep
<1>3. Ended /\ [Next]_vars =>
          [finished = "joined" => UNCHANGED <<file, truncated>> /\ recorded = truncated]_vars
  BY EndedStep
<1> QED
  BY <1>1, <1>2, <1>3, PTL DEF Spec, FinishedOutputFrozen
=============================================================================
