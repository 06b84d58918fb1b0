---------------------------- MODULE OutputCapture ----------------------------
(* The blocking readers of a task's output pipes.  In separate mode two       *)
(* threads run copy_output at the same time and share one byte budget through *)
(* an atomic counter; in combined mode there is one.  Bytes are counted, not  *)
(* represented: a file is the number of bytes appended to it.                 *)

EXTENDS Integers

CONSTANTS
    Mode,           \* OutputMode: "separate" or "combined"
    Limit,          \* logging.max_output_bytes_per_task
    BufferSize,     \* bytes one read may return (8192 in the code)
    MaxBytes,       \* bound on the bytes a script writes to one stream
    Failures        \* TRUE if reads, writes or the executor may fail

ASSUME ModeAssumption == Mode \in {"separate", "combined"}

ASSUME LimitsAssumption ==
    /\ Limit \in Nat \ {0}
    /\ BufferSize \in Nat \ {0}
    /\ MaxBytes \in Nat

ASSUME FailuresAssumption == Failures \in BOOLEAN

VARIABLES
    at,             \* where each reader is in its loop
    chunk,          \* bytes in its buffer
    allowed,        \* bytes of the buffer it may write
    offset,         \* bytes of the stream before the buffer
    file,           \* bytes in the log file of the stream
    counter,        \* stdout_bytes, stderr_bytes, combined_bytes
    captured,       \* captured_bytes
    truncated,      \* output_truncated
    finished,       \* "no", or how run_task ended: "joined" the readers or "error"
    recorded        \* output_truncated in the terminal snapshot

vars == <<at, chunk, allowed, offset, file, counter, captured, truncated, finished, recorded>>

-----------------------------------------------------------------------------
AllStreams == {"stdout", "stderr", "combined"}

\* Capture::new: one pipe and one reader for each stream of the mode.
Readers == IF Mode = "separate" THEN {"stdout", "stderr"} ELSE {"combined"}

Total(f) == f["stdout"] + f["stderr"] + f["combined"]

Least(a, b) == IF a < b THEN a ELSE b

\* Faulty variant: the budget is compared before the buffer is added to it.
AllowedIgnoringRead(already, read) == IF already < Limit THEN read ELSE 0

\* Faulty variant: a buffer is written entirely or not at all.
AllowedWholeBuffers(already, read) == IF already + read <= Limit THEN read ELSE 0

\* limit.saturating_sub(already).min(read)
Allowed(already, read) == IF already >= Limit THEN 0 ELSE Least(Limit - already, read)

TypeOK ==
    /\ at \in [AllStreams -> {"idle", "read", "write", "count", "flag", "eof", "failed"}]
    /\ chunk \in [AllStreams -> 0..BufferSize]
    /\ allowed \in [AllStreams -> 0..BufferSize]
    /\ offset \in [AllStreams -> Nat]
    /\ file \in [AllStreams -> Nat]
    /\ counter \in [AllStreams -> Nat]
    /\ captured \in Nat
    /\ truncated \in BOOLEAN
    /\ finished \in {"no", "joined", "error"}
    /\ recorded \in BOOLEAN

Init ==
    /\ at = [s \in AllStreams |-> IF s \in Readers THEN "read" ELSE "idle"]
    /\ chunk = [s \in AllStreams |-> 0]
    /\ allowed = [s \in AllStreams |-> 0]
    /\ offset = [s \in AllStreams |-> 0]
    /\ file = [s \in AllStreams |-> 0]
    /\ counter = [s \in AllStreams |-> 0]
    /\ captured = 0
    /\ truncated = FALSE
    /\ finished = "no"
    /\ recorded = FALSE

-----------------------------------------------------------------------------
\* read returns n bytes and fetch_add reserves them in the shared budget.
ReadChunk(s, n) ==
    /\ at[s] = "read"
    /\ offset[s] + n <= MaxBytes
    /\ chunk' = [chunk EXCEPT ![s] = n]
    /\ captured' = captured + n
    /\ allowed' = [allowed EXCEPT ![s] = Allowed(captured, n)]
    /\ at' = [at EXCEPT ![s] = IF allowed'[s] > 0 THEN "write" ELSE "flag"]
    /\ UNCHANGED <<offset, file, counter, truncated, finished, recorded>>

\* write_all and flush of the allowed part.
WriteChunk(s) ==
    /\ at[s] = "write"
    /\ file' = [file EXCEPT ![s] = @ + allowed[s]]
    /\ at' = [at EXCEPT ![s] = "count"]
    /\ UNCHANGED <<chunk, allowed, offset, counter, captured, truncated, finished, recorded>>

\* write_all fails after part of the buffer reached the file.
WriteFails(s) ==
    /\ Failures
    /\ at[s] = "write"
    /\ \E part \in 0..BufferSize :
          /\ part <= allowed[s]
          /\ file' = [file EXCEPT ![s] = @ + part]
    /\ at' = [at EXCEPT ![s] = "failed"]
    /\ UNCHANGED <<chunk, allowed, offset, counter, captured, truncated, finished, recorded>>

\* Faulty variant: the size shown to clients counts what was read.
CountChunkRead(s) ==
    /\ at[s] = "count"
    /\ counter' = [counter EXCEPT ![s] = @ + chunk[s]]
    /\ at' = [at EXCEPT ![s] = "flag"]
    /\ UNCHANGED <<chunk, allowed, offset, file, captured, truncated, finished, recorded>>

CountChunk(s) ==
    /\ at[s] = "count"
    /\ counter' = [counter EXCEPT ![s] = @ + allowed[s]]
    /\ at' = [at EXCEPT ![s] = "flag"]
    /\ UNCHANGED <<chunk, allowed, offset, file, captured, truncated, finished, recorded>>

\* Faulty variant: only a buffer that is dropped entirely counts as truncation.
CutWhole(s) == allowed[s] = 0

\* The condition under which output_truncated is set.
Cut(s) == allowed[s] < chunk[s]

\* The truncation flag, and the next turn of the loop.
FlagChunk(s) ==
    /\ at[s] = "flag"
    /\ truncated' = (truncated \/ Cut(s))
    /\ offset' = [offset EXCEPT ![s] = @ + chunk[s]]
    /\ chunk' = [chunk EXCEPT ![s] = 0]
    /\ allowed' = [allowed EXCEPT ![s] = 0]
    /\ at' = [at EXCEPT ![s] = "read"]
    /\ UNCHANGED <<file, counter, captured, finished, recorded>>

ReadEof(s) ==
    /\ at[s] = "read"
    /\ at' = [at EXCEPT ![s] = "eof"]
    /\ UNCHANGED <<chunk, allowed, offset, file, counter, captured, truncated, finished, recorded>>

ReadFails(s) ==
    /\ Failures
    /\ at[s] = "read"
    /\ at' = [at EXCEPT ![s] = "failed"]
    /\ UNCHANGED <<chunk, allowed, offset, file, counter, captured, truncated, finished, recorded>>

\* The terminal transition copies the flag into the snapshot.
Terminate(how) ==
    /\ finished = "no"
    /\ finished' = how
    /\ recorded' = truncated
    /\ UNCHANGED <<at, chunk, allowed, offset, file, counter, captured, truncated>>

\* Faulty variant: the terminal status is published without joining the readers.
PublishUnjoined == Terminate("joined")

\* run_task joins every reader before it publishes.
Publish ==
    /\ \A s \in Readers : at[s] = "eof"
    /\ Terminate("joined")

\* The executor fails, because of a reader or for a reason of its own: the
\* terminal status is published while readers may still be running.
PublishError ==
    /\ Failures
    /\ Terminate("error")

\* The readers have ended and the task is over.
Quiescent ==
    /\ finished # "no"
    /\ \A s \in Readers : at[s] \in {"eof", "failed"}
    /\ UNCHANGED vars

ReaderStep(s) ==
    \/ \E n \in 1..BufferSize : ReadChunk(s, n)
    \/ WriteChunk(s) \/ WriteFails(s) \/ CountChunk(s) \/ FlagChunk(s)
    \/ ReadEof(s) \/ ReadFails(s)

Next ==
    \/ \E s \in Readers : ReaderStep(s)
    \/ Publish
    \/ PublishError
    \/ Quiescent

Spec == Init /\ [][Next]_vars

-----------------------------------------------------------------------------
(* Properties.                                                                *)

\* max_output_bytes_per_task bounds the files of a task together, however the
\* readers interleave between their reservation and their write.
WithinLimit == Total(file) <= Limit

\* Each log file is a prefix of its stream: once bytes of a stream have been
\* dropped, no later bytes of it are appended.
FilesArePrefixes ==
    \A s \in Readers : at[s] = "write" => file[s] = offset[s]

\* The sizes a client reads never exceed what the output endpoint can serve,
\* and they are exact once the reader has ended.
SizesAreServable ==
    \A s \in Readers :
        /\ counter[s] <= file[s]
        /\ at[s] = "eof" => counter[s] = file[s]

\* Nothing is lost below the limit: when every reader has seen the end of its
\* pipe, the files hold exactly the first Limit bytes that were captured.
NothingLostBelowLimit ==
    (\A s \in Readers : at[s] = "eof") => Total(file) = Least(Limit, captured)

\* When every reader has seen the end of its pipe, output_truncated tells
\* exactly whether bytes were dropped, whichever reader dropped them.
TruncationReported ==
    (\A s \in Readers : at[s] = "eof") => (truncated <=> captured > Limit)

\* Once a task has ended by joining its readers its files no longer change and
\* its snapshot has the final flag: eof in an output page is really the end.
FinishedOutputFrozen ==
    [][finished = "joined" => UNCHANGED <<file, truncated>> /\ recorded = truncated]_vars
=============================================================================
