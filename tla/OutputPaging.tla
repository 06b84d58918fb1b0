---------------------------- MODULE OutputPaging ----------------------------
(* A client that follows one stream of a task through the output endpoint,    *)
(* page after page, while the readers of OutputCapture still write and the    *)
(* executor publishes the end.  output_chunk reads the snapshot first and the *)
(* file afterwards.  A request refused for its limit, offset or stream, or    *)
(* for an unknown task, changes nothing and is left out.                      *)

EXTENDS OutputCapture

CONSTANTS
    MaxLimit,       \* MAX_LIMIT: most bytes one page may hold
    Encodings       \* output_encoding of the route; only utf-16le is treated apart

ASSUME PagingAssumption ==
    /\ MaxLimit \in Nat /\ MaxLimit >= 2
    /\ Encodings \subseteq {"utf-8", "gbk", "utf-16le"}

VARIABLES
    stream,         \* the stream the client asks for
    encoding,       \* output_encoding in the snapshot
    stage,          \* "ask", then "size" with the snapshot, then "read" with the size
    sawFinished,    \* is_finished of the snapshot that was read
    fileSize,       \* file_size
    cursor,         \* next_offset of the last page, and offset of the next
    eof             \* eof of the last page

pageVars == <<stream, encoding, stage, sawFinished, fileSize, cursor, eof>>
pagingVars == <<at, chunk, allowed, offset, file, counter, captured, truncated, finished, recorded,
                stream, encoding, stage, sawFinished, fileSize, cursor, eof>>

\* The types, among them that the client's offset is always one the endpoint
\* accepts: next_offset never passes the end of the file.
PagingTypeOK ==
    /\ TypeOK
    /\ stream \in Readers
    /\ encoding \in Encodings
    /\ stage \in {"ask", "size", "read"}
    /\ sawFinished \in BOOLEAN
    /\ fileSize \in 0..Limit
    /\ cursor \in 0..file[stream]
    /\ eof \in BOOLEAN

PagingInit ==
    /\ Init
    /\ stream \in Readers /\ encoding \in Encodings
    /\ stage = "ask" /\ sawFinished = FALSE /\ fileSize = 0
    /\ cursor = 0 /\ eof = FALSE

-----------------------------------------------------------------------------
\* output_chunk clones the snapshot.
ReadSnapshot ==
    /\ stage = "ask" /\ ~eof
    /\ stage' = "size"
    /\ sawFinished' = (finished # "no")
    /\ UNCHANGED <<vars, stream, encoding, fileSize, cursor, eof>>

\* The file is opened and its size taken; a larger offset is refused.
TakeSize ==
    /\ stage = "size"
    /\ cursor <= file[stream]
    /\ fileSize' = file[stream]
    /\ stage' = "read"
    /\ UNCHANGED <<vars, stream, encoding, sawFinished, cursor, eof>>

\* Faulty variant: a page is not cut to whole code units.
PageBytesUncut(limit) == Least(limit, fileSize - cursor)

\* read_limit: what was there, cut to an even number for UTF-16LE.
PageBytes(limit) ==
    LET bytes == Least(limit, fileSize - cursor) IN
    IF encoding = "utf-16le" THEN bytes - (bytes % 2) ELSE bytes

\* Faulty variant: the next offset is reckoned from the limit.
AfterLimit(limit) == cursor + limit

\* next_offset
After(limit) == cursor + PageBytes(limit)

\* Faulty variant: the status is looked at after the file.
PageEofLate(limit) == finished # "no" /\ After(limit) >= fileSize

\* Faulty variant: eof needs a page that is not full.
PageEofShort(limit) == sawFinished /\ After(limit) > fileSize

\* eof
PageEof(limit) == sawFinished /\ After(limit) >= fileSize

\* The page is read up to the size taken before; a file only grows.
ReadPage(limit) ==
    /\ stage = "read"
    /\ cursor' = After(limit)
    /\ eof' = PageEof(limit)
    /\ stage' = "ask"
    /\ fileSize' = 0
    /\ UNCHANGED <<vars, stream, encoding, sawFinished>>

ClientStep ==
    \/ ReadSnapshot \/ TakeSize
    \/ \E limit \in 1..MaxLimit : ReadPage(limit)

Capturing == Next /\ UNCHANGED pageVars

PagingNext == Capturing \/ ClientStep

\* The client goes on asking, again and again with room for a code unit.
PagingSpec ==
    /\ PagingInit /\ [][PagingNext]_pagingVars
    /\ WF_pagingVars(ClientStep)
    /\ SF_pagingVars(\E limit \in 2..MaxLimit : ReadPage(limit))

-----------------------------------------------------------------------------
(* Properties.                                                                *)

\* eof is the end: after a page with eof of a task that ended by joining its
\* readers, the client has every byte its log file will ever hold, although
\* the status was read before the size and the end may fall between the two.
EofIsTheEnd == eof /\ finished = "joined" => cursor = file[stream]

\* From offset 0 no page of UTF-16LE output ends inside a code unit, whatever
\* limits are asked for and however the file grows.
UnitsNeverSplit == encoding = "utf-16le" => cursor % 2 = 0

\* The client of a task that ended by joining its readers comes to a page with
\* eof; at an odd end of UTF-16LE output it never does.
FollowerReachesEof ==
    finished = "joined" ~> eof \/ (encoding = "utf-16le" /\ file[stream] % 2 = 1)
=============================================================================
