------------------------------ MODULE TaskStore ------------------------------
(* The durable side of store.rs: one directory and one append-only event log  *)
(* per task, the map of records in memory, recovery of the map by open, and   *)
(* expiry.  An append may be cut short by a crash or by a full disk, the      *)
(* process may crash between any two steps, and it is started again.          *)

EXTENDS Integers, Sequences, TaskModel

CONSTANTS
    Tasks,          \* task ids
    Outcomes,       \* final statuses run_task may publish
    Retention,      \* logging.retention_seconds, in ticks of the clock
    MaxTime,        \* bound on the clock
    MaxCrashes,     \* bound on the crashes
    Tears           \* what an append that fails may leave of its line

ASSUME StoreAssumption ==
    /\ Outcomes \subseteq FinishedStatuses
    /\ Retention \in Nat \ {0}
    /\ MaxTime \in Nat /\ MaxCrashes \in Nat
    /\ "nothing" \in Tears
    /\ Tears \subseteq {"nothing", "prefix", "character", "newline"}

VARIABLES
    process,        \* "down", "scan", "sweep" (inside open), "up" or "failed"
    exists,         \* directories under tasks/
    log,            \* the lines of each events.jsonl
    ended,          \* the last line of events.jsonl ends with a newline
    toScan,         \* directories recover has still to visit
    expired,        \* ids cleanup_expired has collected
    map,            \* TaskStore::tasks, as the set of ids
    record,         \* the snapshot of each TaskRecord
    flag,           \* TaskRecord::output_truncated
    step,           \* where create or the executor of each task is
    clock,          \* OffsetDateTime::now_utc
    crashes,        \* crashes so far
    answered,       \* history: tasks whose id a client was given
    told,           \* history: the last final status a client could read
    due,            \* history: finished_at of the first final status a client could read
    damaged,        \* history: tasks one of whose appends failed
    safe            \* history: final snapshots appended with every append before

diskVars == <<exists, log, ended>>
openVars == <<toScan, expired>>
memoryVars == <<map, record, flag>>
historyVars == <<answered, told, due, damaged, safe>>
vars == <<process, exists, log, ended, toScan, expired, map, record, flag, step, clock,
          crashes, answered, told, due, damaged, safe>>

-----------------------------------------------------------------------------
Never == -1

\* TaskSnapshot: status, finished_at and output_truncated.
Snapshots ==
    [status : ActiveStatuses, at : {Never}, cut : BOOLEAN]
        \cup [status : FinishedStatuses, at : Nat, cut : BOOLEAN]

None == [status |-> "none", at |-> Never, cut |-> FALSE]

\* Lines that are not a snapshot: text that is not JSON, and bytes that are not text.
Garbled == [None EXCEPT !.status = "garbled"]
NotText == [None EXCEPT !.status = "not text"]

Finished(s) == s.status \in FinishedStatuses

\* ended: the executor has returned; left: no executor of this process has it.
Steps == {"none", "files", "insert", "idle", "write", "retry", "ended", "left"}

TypeOK ==
    /\ process \in {"down", "scan", "sweep", "up", "failed"}
    /\ exists \subseteq Tasks
    /\ log \in [Tasks -> Seq(Snapshots \cup {Garbled, NotText})]
    /\ ended \in [Tasks -> BOOLEAN]
    /\ toScan \subseteq exists
    /\ expired \subseteq Tasks
    /\ map \subseteq Tasks
    /\ record \in [Tasks -> Snapshots \cup {None}]
    /\ flag \in [Tasks -> BOOLEAN]
    /\ step \in [Tasks -> Steps]
    /\ clock \in 0..MaxTime
    /\ crashes \in 0..MaxCrashes
    /\ answered \subseteq Tasks
    /\ told \in [Tasks -> FinishedStatuses \cup {"none"}]
    /\ due \in [Tasks -> Int]
    /\ damaged \subseteq Tasks
    /\ safe \in [Tasks -> Snapshots \cup {None}]

Init ==
    /\ process = "down" /\ crashes = 0 /\ clock = 0
    /\ exists = {} /\ toScan = {} /\ expired = {} /\ map = {} /\ answered = {} /\ damaged = {}
    /\ log = [t \in Tasks |-> <<>>]
    /\ ended = [t \in Tasks |-> TRUE]
    /\ record = [t \in Tasks |-> None]
    /\ flag = [t \in Tasks |-> FALSE]
    /\ step = [t \in Tasks |-> "none"]
    /\ told = [t \in Tasks |-> "none"]
    /\ due = [t \in Tasks |-> Never]
    /\ safe = [t \in Tasks |-> None]

-----------------------------------------------------------------------------
(* The event log.                                                             *)

\* A line written after an unterminated one becomes part of it.
Written(t, line) ==
    LET last == log[t][Len(log[t])] IN
    IF ended[t] THEN Append(log[t], line)
    ELSE [log[t] EXCEPT ![Len(log[t])] = IF NotText \in {last, line} THEN NotText ELSE Garbled]

\* Messages are in Chinese: a line with one may be cut inside a character.
HasMessage(s) == s.status \notin {"Starting", "Running", "Succeeded"}

\* write_all of the whole line.
AppendLine(t, line) ==
    /\ t \in exists
    /\ log' = [log EXCEPT ![t] = Written(t, line)]
    /\ ended' = [ended EXCEPT ![t] = TRUE]

\* The append fails, or the process ends, after part of the line was written;
\* nothing can be written in a directory that cleanup_expired has removed.
TearLine(t, line, tear) ==
    /\ tear \in Tears
    /\ t \notin exists => tear = "nothing"
    /\ tear = "character" => HasMessage(line)
    /\ log' = [log EXCEPT ![t] =
                 CASE tear = "nothing"   -> @
                   [] tear = "prefix"    -> Written(t, Garbled)
                   [] tear = "character" -> Written(t, NotText)
                   [] tear = "newline"   -> Written(t, line)]
    /\ ended' = [ended EXCEPT ![t] = @ /\ tear = "nothing"]

\* Faulty variant: a damaged last line hides the ones before it.
LatestOrNothing(l) ==
    IF l # <<>> /\ l[Len(l)] \in Snapshots THEN l[Len(l)] ELSE None

\* read_latest_snapshot: lines that do not parse are ignored.
Latest(l) ==
    IF \E i \in 1..Len(l) : l[i] \in Snapshots
    THEN l[CHOOSE i \in 1..Len(l) : l[i] \in Snapshots /\ \A j \in (i + 1)..Len(l) : l[j] \notin Snapshots]
    ELSE None

\* TaskRecord::snapshot takes output_truncated from the atomic.
Snapshot(t) == [record[t] EXCEPT !.cut = flag[t]]

-----------------------------------------------------------------------------
(* History: what clients and later processes may rely on.                     *)

Tell(t, s) ==
    /\ told' = IF Finished(s) THEN [told EXCEPT ![t] = s.status] ELSE told
    /\ due' = IF Finished(s) /\ due[t] = Never THEN [due EXCEPT ![t] = s.at] ELSE due

Keep(t, s) ==
    safe' = IF Finished(s) /\ t \notin damaged THEN [safe EXCEPT ![t] = s] ELSE safe

-----------------------------------------------------------------------------
(* create and the transitions of the executor.                                *)

\* create_dir and the empty output files.
MakeDirectory(t) ==
    /\ process = "up" /\ step[t] = "none"
    /\ exists' = exists \cup {t}
    /\ step' = [step EXCEPT ![t] = "files"]
    /\ UNCHANGED <<process, log, ended, openVars, memoryVars, clock, crashes, historyVars>>

FirstSnapshot == [status |-> "Starting", at |-> Never, cut |-> FALSE]

\* The Starting record is appended before anyone knows the task.
PersistFirst(t) ==
    /\ process = "up" /\ step[t] = "files"
    /\ AppendLine(t, FirstSnapshot)
    /\ step' = [step EXCEPT ![t] = "insert"]
    /\ UNCHANGED <<process, exists, openVars, memoryVars, clock, crashes, historyVars>>

\* create fails: its directory stays, and nobody knows the task.
CreateFails(t, tear) ==
    /\ process = "up" /\ step[t] = "files"
    /\ TearLine(t, FirstSnapshot, tear)
    /\ step' = [step EXCEPT ![t] = "left"]
    /\ damaged' = damaged \cup {t}
    /\ UNCHANGED <<process, exists, openVars, memoryVars, clock, crashes, answered, told, due, safe>>

\* The record is inserted, the executor is spawned and the client gets 202.
Insert(t) ==
    /\ process = "up" /\ step[t] = "insert"
    /\ map' = map \cup {t}
    /\ record' = [record EXCEPT ![t] = FirstSnapshot]
    /\ step' = [step EXCEPT ![t] = "idle"]
    /\ answered' = answered \cup {t}
    /\ UNCHANGED <<process, diskVars, openVars, flag, clock, crashes, told, due, damaged, safe>>

\* run_task joins the readers before its regular end; one that fails leaves
\* them to themselves.
Reading(t) ==
    \/ step[t] = "idle"
    \/ step[t] = "write" /\ ~Finished(record[t])
    \/ step[t] \in {"retry", "ended"} /\ record[t].status = "Failed"

\* A reader drops bytes beyond max_output_bytes_per_task.
Truncate(t) ==
    /\ process = "up" /\ Reading(t) /\ ~flag[t]
    /\ flag' = [flag EXCEPT ![t] = TRUE]
    /\ UNCHANGED <<process, diskVars, openVars, map, record, step, clock, crashes, historyVars>>

\* Faulty variant: only the executor's regular end sets finished_at.
UpdatedUnstamped(t, status) ==
    [status |-> status, at |-> IF status \in Outcomes THEN clock ELSE Never, cut |-> flag[t]]

\* The update of a transition: finished_at is set with a final status.
Updated(t, status) ==
    [status |-> status, at |-> IF status \in FinishedStatuses THEN clock ELSE Never, cut |-> flag[t]]

\* force_stop_process has recorded Stopping after stop_process has.
StoppingTwice(t) ==
    \E i, j \in 1..Len(log[t]) : i < j /\ log[t][i].status = "Stopping" /\ log[t][j].status = "Stopping"

\* The statuses run_task may publish next.
Successors(t) ==
    CASE record[t].status = "Starting" -> {"Running"}
      [] record[t].status = "Running"  -> {"Stopping"} \cup Outcomes
      [] record[t].status = "Stopping" -> (IF StoppingTwice(t) THEN {} ELSE {"Stopping"}) \cup Outcomes
      [] OTHER                         -> {}

\* The first half of transition: the new snapshot is visible at once.
Transition(t, s, next) ==
    /\ process = "up" /\ step[t] = "idle"
    /\ record' = [record EXCEPT ![t] = s]
    /\ step' = [step EXCEPT ![t] = next]
    /\ Tell(t, s)
    /\ UNCHANGED <<process, diskVars, openVars, map, flag, clock, crashes, answered, damaged, safe>>

Advance(t) ==
    \E status \in Successors(t) : Transition(t, Updated(t, status), "write")

\* run_task ends with an error: start_task's handler publishes Failed.
ExecutorFails(t) == Transition(t, Updated(t, "Failed"), "retry")

Gone(t) == IF Finished(record[t]) THEN "ended" ELSE "idle"

\* The second half: persist.
Persist(t) ==
    /\ process = "up" /\ step[t] \in {"write", "retry"}
    /\ AppendLine(t, Snapshot(t))
    /\ step' = [step EXCEPT ![t] = Gone(t)]
    /\ Keep(t, Snapshot(t))
    /\ UNCHANGED <<process, exists, openVars, memoryVars, clock, crashes, answered, told, due, damaged>>

\* Faulty variant: the handler does not look whether the status is final.
PersistFailsAnyway(t, tear) ==
    /\ process = "up" /\ step[t] \in {"write", "retry"}
    /\ TearLine(t, Snapshot(t), tear)
    /\ record' = [record EXCEPT ![t] = Updated(t, "Failed")]
    /\ step' = [step EXCEPT ![t] = IF step[t] = "write" THEN "retry" ELSE "ended"]
    /\ Tell(t, Updated(t, "Failed"))
    /\ damaged' = damaged \cup {t}
    /\ UNCHANGED <<process, exists, openVars, map, flag, clock, crashes, answered, safe>>

\* persist fails and run_task with it: the handler makes the status Failed
\* unless it is final, and appends once more; that append's error is ignored.
PersistFails(t, tear) ==
    LET fallback == IF Finished(record[t]) THEN record[t] ELSE Updated(t, "Failed") IN
    /\ process = "up" /\ step[t] \in {"write", "retry"}
    /\ TearLine(t, Snapshot(t), tear)
    /\ record' = [record EXCEPT ![t] = fallback]
    /\ step' = [step EXCEPT ![t] = IF step[t] = "write" THEN "retry" ELSE "ended"]
    /\ Tell(t, fallback)
    /\ damaged' = damaged \cup {t}
    /\ UNCHANGED <<process, exists, openVars, map, flag, clock, crashes, answered, safe>>

-----------------------------------------------------------------------------
(* A crash, and open.                                                         *)

Lost ==
    /\ process' = "down"
    /\ crashes < MaxCrashes /\ crashes' = crashes + 1
    /\ map' = {} /\ record' = [t \in Tasks |-> None]
    /\ flag' = [t \in Tasks |-> FALSE]
    /\ step' = [t \in Tasks |-> IF step[t] = "none" THEN "none" ELSE "left"]
    /\ toScan' = {} /\ expired' = {}
    /\ UNCHANGED <<exists, clock, answered, told, due, safe>>

Crash ==
    /\ process \in {"scan", "sweep", "up"}
    /\ Lost
    /\ UNCHANGED <<log, ended, damaged>>

\* The crash cuts an append of create or of a transition short.
CrashInAppend(t, tear) ==
    /\ process = "up" /\ step[t] \in {"files", "write", "retry"}
    /\ tear # "nothing"
    /\ TearLine(t, IF step[t] = "files" THEN FirstSnapshot ELSE Snapshot(t), tear)
    /\ Lost
    /\ damaged' = damaged \cup {t}

\* open: the lock is free, recover lists the directories.
Open ==
    /\ process = "down"
    /\ process' = "scan"
    /\ toScan' = exists
    /\ UNCHANGED <<diskVars, expired, memoryVars, step, clock, crashes, historyVars>>

Readable(t) == \A i \in 1..Len(log[t]) : log[t][i] # NotText

\* Faulty variant: an unfinished task is left as it is.
RecoveredAsIs(t) == Latest(log[t])

\* Faulty variant: every task is marked as interrupted.
RecoveredInterrupted(t) == [Latest(log[t]) EXCEPT !.status = "Interrupted", !.at = clock]

\* The snapshot recover makes of the latest record.
Recovered(t) ==
    IF Finished(Latest(log[t])) THEN Latest(log[t])
    ELSE [Latest(log[t]) EXCEPT !.status = "Interrupted", !.at = clock]

Scanning(t) ==
    /\ process = "scan" /\ t \in toScan
    /\ Readable(t)

\* A directory without a snapshot is passed over, and never looked at again.
SkipDirectory(t) ==
    /\ Scanning(t)
    /\ Latest(log[t]) = None
    /\ toScan' = toScan \ {t}
    /\ UNCHANGED <<process, diskVars, expired, memoryVars, step, clock, crashes, historyVars>>

\* recover: an interrupted task is appended again; TaskRecord::new starts with
\* the atomic FALSE, and persist writes the atomic.
Recover(t) ==
    LET s == Recovered(t) IN
    /\ Scanning(t)
    /\ Latest(log[t]) # None
    /\ IF s.status = "Interrupted"
       THEN LET line == [s EXCEPT !.cut = FALSE] IN AppendLine(t, line) /\ Keep(t, line)
       ELSE UNCHANGED <<log, ended, safe>>
    /\ map' = map \cup {t}
    /\ record' = [record EXCEPT ![t] = s]
    /\ toScan' = toScan \ {t}
    /\ Tell(t, s)
    /\ UNCHANGED <<process, exists, expired, flag, step, clock, crashes, answered, damaged>>

\* The append of recover fails and open with it, or a crash cuts it short.
RecoverTorn(t, tear) ==
    LET s == [Recovered(t) EXCEPT !.cut = FALSE] IN
    /\ Scanning(t)
    /\ Latest(log[t]) # None /\ s.status = "Interrupted"
    /\ TearLine(t, s, tear)
    /\ damaged' = damaged \cup {t}
    /\ \/ Lost
       \/ /\ process' = "failed"
          /\ UNCHANGED <<exists, openVars, memoryVars, step, clock, crashes, answered, told, due, safe>>

\* lines() fails on bytes that are not text, and with it open.
RecoverFails(t) ==
    /\ process = "scan" /\ t \in toScan
    /\ ~Readable(t)
    /\ process' = "failed"
    /\ UNCHANGED <<diskVars, openVars, memoryVars, step, clock, crashes, historyVars>>

-----------------------------------------------------------------------------
(* Expiry.                                                                    *)

Expired(t) == t \in map /\ record[t].at # Never /\ clock - record[t].at >= Retention

\* open ends with a first cleanup_expired.
SweepFirst ==
    /\ process = "scan" /\ toScan = {}
    /\ process' = "sweep"
    /\ expired' = {t \in Tasks : Expired(t)}
    /\ UNCHANGED <<diskVars, toScan, memoryVars, step, clock, crashes, historyVars>>

Serve ==
    /\ process = "sweep" /\ expired = {}
    /\ process' = "up"
    /\ UNCHANGED <<diskVars, openVars, memoryVars, step, clock, crashes, historyVars>>

\* The cleanup task collects what has expired.
Collect ==
    /\ process = "up" /\ expired = {}
    /\ \E t \in Tasks : Expired(t)
    /\ expired' = {t \in Tasks : Expired(t)}
    /\ UNCHANGED <<process, diskVars, toScan, memoryVars, step, clock, crashes, historyVars>>

\* The record is forgotten; remove_dir_all may remove all, nothing or the log only.
Remove(t) ==
    /\ t \in expired
    /\ expired' = expired \ {t}
    /\ map' = map \ {t}
    /\ \/ UNCHANGED <<exists, log, ended>>
       \/ /\ exists' \in {exists, exists \ {t}}
          /\ log' = [log EXCEPT ![t] = <<>>]
          /\ ended' = [ended EXCEPT ![t] = TRUE]
    /\ UNCHANGED <<process, toScan, record, flag, step, clock, crashes, historyVars>>

Tick ==
    /\ clock < MaxTime
    /\ clock' = clock + 1
    /\ UNCHANGED <<process, diskVars, openVars, memoryVars, step, crashes, historyVars>>

-----------------------------------------------------------------------------
Executing(t) ==
    \/ PersistFirst(t) \/ Insert(t) \/ Persist(t)
    \/ Advance(t) \/ ExecutorFails(t)
    \/ \E tear \in Tears : CreateFails(t, tear) \/ PersistFails(t, tear)

Opening ==
    \/ Open \/ SweepFirst \/ Serve
    \/ \E t \in Tasks : SkipDirectory(t) \/ Recover(t) \/ RecoverFails(t) \/ Remove(t)
    \/ \E t \in Tasks, tear \in Tears : RecoverTorn(t, tear)

Quiescent ==
    /\ process = "failed" \/ \A t \in Tasks : step[t] \in {"ended", "left"}
    /\ UNCHANGED vars

Next ==
    \/ \E t \in Tasks : MakeDirectory(t) \/ Truncate(t) \/ Executing(t)
    \/ \E t \in Tasks, tear \in Tears : CrashInAppend(t, tear)
    \/ Opening \/ Collect \/ Crash \/ Tick \/ Quiescent

Spec == Init /\ [][Next]_vars

\* The executors go on (TaskTerminates of TaskExecutor), a process that is down
\* is started, and open goes on.  Crashes and requests are not taken for granted.
FairSpec ==
    /\ Spec
    /\ WF_vars(Opening)
    /\ \A t \in Tasks : WF_vars(Executing(t))

-----------------------------------------------------------------------------
(* Properties.                                                                *)

\* A task whose id was answered can be queried until its retention time is over,
\* counted from the first finished_at that was visible, whatever crashed and
\* whatever was left of its last lines (create, recover, cleanup_expired).
RetainedUntilDue ==
    process = "up" =>
        \A t \in answered :
            t \in map \/ (due[t] # Never /\ clock - due[t] >= Retention)

\* A final snapshot that was appended to an undamaged log is what every later
\* process reports, with the finished_at that expiry counts from.
FinalSurvives ==
    process = "up" =>
        \A t \in Tasks : safe[t] # None /\ t \in map =>
            record[t].status = safe[t].status /\ record[t].at = safe[t].at

\* A directory whose creation was never answered (a crash or a full disk in
\* create) is only ever reported as interrupted.
PhantomsAreInterrupted ==
    \A t \in Tasks \ answered : t \in map => record[t].status = "Interrupted"

\* A final status is visible before it is durable, so a crash may replace it,
\* but only by interrupted, and interrupted is never replaced.
FinalOnlyLost ==
    [][\A t \in Tasks : told[t] # "none" /\ told'[t] # told[t] => told'[t] = "Interrupted"]_vars

\* Every answered task is reported as finished in the end, by its executor or,
\* after a crash, by recovery, unless the service cannot open its log directory.
Settles == \A t \in Tasks : t \in answered ~> told[t] # "none" \/ process = "failed"

\* output_truncated of a finished task survives a restart.
TruncationRemembered ==
    process = "up" => \A t \in Tasks : t \in map /\ safe[t].cut => Snapshot(t).cut
=============================================================================
