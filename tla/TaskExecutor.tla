---------------------------- MODULE TaskExecutor ----------------------------
(* The life of a task: its admission by the execute handler, the executor     *)
(* future started for it, the worker process that runs the script, the tree   *)
(* of processes under the worker, the readers of the output pipes, and the    *)
(* stop requests that reach the task through its watch channel.               *)
(*                                                                            *)
(* Timers are nondeterministic: an action guarded by a deadline may be taken  *)
(* at any moment the code waits for that deadline.  A status transition is    *)
(* one step that updates the snapshot in memory and appends it to the event   *)
(* log; when the append fails the update stays and the executor aborts.       *)

EXTENDS TaskModel, Integers, FiniteSets, Sequences

CONSTANTS
    Tasks,              \* execute requests, each of which may become a task
    Routes,             \* configured routes
    RouteOf,            \* the route each request is for
    MaxTotal,           \* execution.max_concurrency
    MaxRoute,           \* max_concurrency of each route
    Platform,           \* "unix" or "windows"
    RequestReasons,     \* the stop reasons clients and the service ask for
    Failures,           \* subset of {"io", "os", "crash"}: what may go wrong
    DescKinds,          \* the kinds of process a script may leave running
    Streams,            \* the output streams, in the order they are joined
    ScriptCodes         \* exit codes of the script

ASSUME TasksAssumption == IsFiniteSet(Tasks)

ASSUME RoutesAssumption == RouteOf \in [Tasks -> Routes]

ASSUME LimitsAssumption ==
    /\ MaxTotal \in Nat \ {0}
    /\ MaxRoute \in [Routes -> Nat \ {0}]

ASSUME PlatformAssumption == Platform \in {"unix", "windows"}

ASSUME ReasonsAssumption ==
    RequestReasons \subseteq {"Cancelled", "ForceKilled", "ServerShutdown", "ServerRestart"}

ASSUME FailuresAssumption == Failures \subseteq {"io", "os", "crash"}

\* "child" keeps the pipes and the process group, "quiet" has redirected its
\* output, "daemon" has left the process group (setsid), "quietdaemon" both.
ASSUME DescKindsAssumption ==
    DescKinds \subseteq {"child", "quiet", "daemon", "quietdaemon"}

ASSUME StreamsAssumption == Streams \in {<<"stdout", "stderr">>, <<"combined">>}

ASSUME ScriptCodesAssumption == ScriptCodes \subseteq Int

VARIABLES
    pc,             \* where the handler or the executor of the request is
    permits,        \* semaphore permits it owns
    stopReason,     \* the local stop_reason of run_task, or the reason in hand
    seen,           \* the watch receiver has seen the channel's last value
    status,         \* TaskSnapshot::status, "Absent" before store.create
    term,           \* TaskSnapshot::termination
    stop,           \* the watch channel: last reason sent, or "none"
    worker,         \* where the worker process is
    procs,          \* live processes: "worker", "script" and descendants
    doomed,         \* processes already sent SIGKILL, or whose job was ended
    control,        \* the pipe from the executor to the worker
    reader,         \* the blocking reader of each stream
    scriptCode,     \* what the script's exit status contributes, 1 if none
    workerOk,       \* the worker's exit status is a success
    active,         \* TaskStore::active_count
    killed          \* history: a kill request was answered 202

executorVars == <<pc, permits, stopReason, seen>>
recordVars == <<status, term, stop>>
treeVars == <<worker, procs, doomed, control>>
outcomeVars == <<reader, scriptCode, workerOk>>
vars == <<executorVars, recordVars, treeVars, outcomeVars, active, killed>>

-----------------------------------------------------------------------------
StreamSet == {Streams[i] : i \in DOMAIN Streams}

Processes == {"worker", "script"} \cup DescKinds

\* Processes that have left the process group of the worker.
Daemons == {"daemon", "quietdaemon"}

\* Processes that have closed or redirected the inherited output.
Redirected == {"quiet", "quietdaemon"}

HandlerPoints == {"request", "global", "creating", "rejected"}

ExecutorPoints == {"spawned", "started", "init", "select", "stopping", "signal", "grace1",
                   "grace2", "forcing", "kill", "reap", "linger", "lingerforced", "drain",
                   "release", "publish", "err", "errpublish", "mark"}

TypeOK ==
    /\ pc \in [Tasks -> HandlerPoints \cup ExecutorPoints \cup {"done"}]
    /\ permits \in [Tasks -> SUBSET {"global", "route"}]
    /\ stopReason \in [Tasks -> StopReasons \cup {"none"}]
    /\ seen \in [Tasks -> BOOLEAN]
    /\ status \in [Tasks -> Statuses \cup {"Absent"}]
    /\ term \in [Tasks -> Terminations]
    /\ stop \in [Tasks -> StopReasons \cup {"none"}]
    /\ worker \in [Tasks -> {"none", "init", "loop", "reap", "stuck", "exited"}]
    /\ procs \in [Tasks -> SUBSET Processes]
    /\ doomed \in [Tasks -> SUBSET Processes]
    /\ control \in [Tasks -> {"none", "unattached", "fresh", "unsent", "open", "terminate", "closed"}]
    /\ reader \in [Tasks -> [StreamSet -> {"none", "reading", "eof", "failed"}]]
    /\ scriptCode \in [Tasks -> Int]
    /\ workerOk \in [Tasks -> BOOLEAN]
    /\ active \in Nat
    /\ killed \in [Tasks -> BOOLEAN]

Init ==
    /\ pc = [t \in Tasks |-> "request"]
    /\ permits = [t \in Tasks |-> {}]
    /\ stopReason = [t \in Tasks |-> "none"]
    /\ seen = [t \in Tasks |-> TRUE]
    /\ status = [t \in Tasks |-> "Absent"]
    /\ term = [t \in Tasks |-> NoTermination]
    /\ stop = [t \in Tasks |-> "none"]
    /\ worker = [t \in Tasks |-> "none"]
    /\ procs = [t \in Tasks |-> {}]
    /\ doomed = [t \in Tasks |-> {}]
    /\ control = [t \in Tasks |-> "none"]
    /\ reader = [t \in Tasks |-> [s \in StreamSet |-> "none"]]
    /\ scriptCode = [t \in Tasks |-> 1]
    /\ workerOk = [t \in Tasks |-> FALSE]
    /\ active = 0
    /\ killed = [t \in Tasks |-> FALSE]

-----------------------------------------------------------------------------
(* Helpers.                                                                   *)

At(t, point) == pc[t] = point

\* Move to point, or abort with an error when the named kind of failure may happen.
Proceed(t, point, kind) ==
    \/ pc' = [pc EXCEPT ![t] = point]
    \/ kind \in Failures /\ pc' = [pc EXCEPT ![t] = "err"]

\* Faulty variant: the forced flag is not recorded.
RecordStoppingUnforced(t, reason, graceful, forced) ==
    /\ status' = [status EXCEPT ![t] = "Stopping"]
    /\ term' = [term EXCEPT ![t] = [reason |-> reason, graceful |-> graceful, forced |-> FALSE]]

\* TaskRecord::transition to Stopping with a termination.
RecordStopping(t, reason, graceful, forced) ==
    /\ status' = [status EXCEPT ![t] = "Stopping"]
    /\ term' = [term EXCEPT ![t] = [reason |-> reason, graceful |-> graceful, forced |-> forced]]

\* Faulty variant: a signal reaches the worker process only.
ReachedWorkerOnly(t) == procs[t] \cap {"worker"}

\* The processes a signal to the process group reaches; a Windows job holds
\* every process of the tree.
Reached(t) ==
    IF Platform = "windows" THEN procs[t] ELSE procs[t] \ Daemons

\* Faulty variant: the job is not polled on Windows either.
TreeNeverPolled(t) == TRUE

\* ProcessTree::wait_empty: returns at once on unix, polls the job on Windows.
TreeReportedEmpty(t) == Platform = "unix" \/ procs[t] = {}

\* What dropping the ProcessTree ends: closing the job handle kills every
\* process in it (a worker that was never attached is not in it); on unix
\* nothing is signalled.
EndedByDrop(t) ==
    IF Platform = "windows" /\ control[t] \notin {"unattached", "unsent"} THEN procs[t] ELSE {}

\* Faulty variant: every stop is handled like a kill.
EveryStopForces(reason) == "forcing"

\* Where stop_process begins: a kill skips the gentle request.
StopEntry(reason) == IF reason = "ForceKilled" THEN "forcing" ELSE "stopping"

\* Some process still holds the write end of the output pipes.
PipesHeld(t) == procs[t] \ Redirected # {}

\* The exit code the worker process ends with: main clamps what run_worker returns.
ClampedCode(c) == IF c < 0 THEN 0 ELSE IF c > 255 THEN 255 ELSE c

\* Faulty variant: a worker that exits with zero has succeeded, however it was stopped.
StatusFromExitCode(reason, ok) ==
    IF ok THEN "Succeeded" ELSE
    CASE reason = "Timeout" -> "TimedOut"
      [] reason = "Cancelled" -> "Cancelled"
      [] reason = "ForceKilled" -> "Killed"
      [] reason \in {"ServerShutdown", "ServerRestart", "ParentExited"} -> "Interrupted"
      [] OTHER -> "Failed"

\* The final status computed at the end of run_task.
FinalStatus(reason, ok) ==
    CASE reason = "Timeout" -> "TimedOut"
      [] reason = "Cancelled" -> "Cancelled"
      [] reason = "ForceKilled" -> "Killed"
      [] reason \in {"ServerShutdown", "ServerRestart", "ParentExited"} -> "Interrupted"
      [] reason = "LoggingFailure" -> "Failed"
      [] reason = "none" /\ ok -> "Succeeded"
      [] OTHER -> "Failed"

GlobalInUse == Cardinality({t \in Tasks : "global" \in permits[t]})

RouteInUse(r) == Cardinality({t \in Tasks : RouteOf[t] = r /\ "route" \in permits[t]})

-----------------------------------------------------------------------------
(* The execute handler.                                                       *)

\* What a step of the handler leaves alone while the request is not yet a task.
NoTaskYet == UNCHANGED <<stopReason, seen, recordVars, treeVars, outcomeVars, active, killed>>

AcquireGlobal(t) ==
    /\ At(t, "request")
    /\ GlobalInUse < MaxTotal
    /\ permits' = [permits EXCEPT ![t] = {"global"}]
    /\ pc' = [pc EXCEPT ![t] = "global"]
    /\ NoTaskYet

\* 429 global_concurrency_limit
RejectGlobal(t) ==
    /\ At(t, "request")
    /\ GlobalInUse >= MaxTotal
    /\ pc' = [pc EXCEPT ![t] = "rejected"]
    /\ UNCHANGED permits
    /\ NoTaskYet

AcquireRoute(t) ==
    /\ At(t, "global")
    /\ RouteInUse(RouteOf[t]) < MaxRoute[RouteOf[t]]
    /\ permits' = [permits EXCEPT ![t] = @ \cup {"route"}]
    /\ pc' = [pc EXCEPT ![t] = "creating"]
    /\ NoTaskYet

\* 429 route_concurrency_limit; the global permit taken just before is dropped.
RejectRoute(t) ==
    /\ At(t, "global")
    /\ RouteInUse(RouteOf[t]) >= MaxRoute[RouteOf[t]]
    /\ permits' = [permits EXCEPT ![t] = {}]
    /\ pc' = [pc EXCEPT ![t] = "rejected"]
    /\ NoTaskYet

\* Faulty variant: the task is not counted.
CreateTaskUncounted(t) ==
    /\ At(t, "creating")
    /\ status' = [status EXCEPT ![t] = "Starting"]
    /\ seen' = [seen EXCEPT ![t] = TRUE]
    /\ pc' = [pc EXCEPT ![t] = "spawned"]
    /\ UNCHANGED <<permits, stopReason, term, stop, treeVars, outcomeVars, active, killed>>

\* store.create succeeds and start_task subscribes to the stop channel and
\* spawns the executor; there is no await between the insertion into the map
\* and the subscription.
CreateTask(t) ==
    /\ At(t, "creating")
    /\ status' = [status EXCEPT ![t] = "Starting"]
    /\ seen' = [seen EXCEPT ![t] = TRUE]
    /\ active' = active + 1
    /\ pc' = [pc EXCEPT ![t] = "spawned"]
    /\ UNCHANGED <<permits, stopReason, term, stop, treeVars, outcomeVars, killed>>

\* store.create fails, or the client disconnects and the handler is dropped:
\* both permits are dropped and no task exists.
CreateFails(t) ==
    /\ At(t, "creating")
    /\ "io" \in Failures
    /\ permits' = [permits EXCEPT ![t] = {}]
    /\ pc' = [pc EXCEPT ![t] = "rejected"]
    /\ NoTaskYet

\* cancel_task, kill_task and cancel_all: the snapshot is read and, unless it
\* is finished, the reason replaces whatever the channel holds.
RequestStop(t, reason) ==
    /\ status[t] \in ActiveStatuses
    /\ stop' = [stop EXCEPT ![t] = reason]
    /\ seen' = [seen EXCEPT ![t] = FALSE]
    /\ killed' = [killed EXCEPT ![t] = @ \/ reason = "ForceKilled"]
    /\ UNCHANGED <<pc, permits, stopReason, status, term, treeVars, outcomeVars, active>>

-----------------------------------------------------------------------------
(* run_task: start-up.                                                        *)

\* Pipes, readers and the worker process.
SpawnWorker(t) ==
    /\ At(t, "spawned")
    /\ reader' = [reader EXCEPT ![t] = [s \in StreamSet |-> "reading"]]
    /\ worker' = [worker EXCEPT ![t] = "init"]
    /\ procs' = [procs EXCEPT ![t] = {"worker"}]
    /\ control' = [control EXCEPT ![t] = "unattached"]
    /\ pc' = [pc EXCEPT ![t] = "started"]
    /\ UNCHANGED <<permits, stopReason, seen, recordVars, doomed, scriptCode, workerOk, active, killed>>

\* Faulty variant: the failed start counts the task as finished, start_task counts it again.
SpawnFailsCountedTwice(t) ==
    /\ At(t, "spawned")
    /\ "os" \in Failures
    /\ pc' = [pc EXCEPT ![t] = "err"]
    /\ active' = active - 1
    /\ UNCHANGED <<permits, stopReason, seen, recordVars, treeVars, outcomeVars, killed>>

\* Pipes, readers, the tree or the worker process: some readers may have been
\* started already.
SpawnFails(t) ==
    /\ At(t, "spawned")
    /\ "os" \in Failures
    /\ \E n \in 0..Len(Streams) :
          reader' = [reader EXCEPT ![t] =
              [s \in StreamSet |-> IF \E i \in 1..n : Streams[i] = s THEN "reading" ELSE "none"]]
    /\ pc' = [pc EXCEPT ![t] = "err"]
    /\ UNCHANGED <<permits, stopReason, seen, recordVars, treeVars, scriptCode, workerOk, active, killed>>

\* tree.attach and the initial message.
InitWorker(t) ==
    /\ At(t, "started")
    /\ control' = [control EXCEPT ![t] = "open"]
    /\ pc' = [pc EXCEPT ![t] = "init"]
    /\ UNCHANGED <<permits, stopReason, seen, recordVars, worker, procs, doomed, outcomeVars, active, killed>>

\* The worker could not be attached to the tree, or it was and the message
\* could not be written.
InitFails(t) ==
    /\ At(t, "started")
    /\ "os" \in Failures
    /\ \E c \in {"unattached", "fresh"} : control' = [control EXCEPT ![t] = c]
    /\ pc' = [pc EXCEPT ![t] = "err"]
    /\ UNCHANGED <<permits, stopReason, seen, recordVars, worker, procs, doomed, outcomeVars, active, killed>>

MarkRunning(t) ==
    /\ At(t, "init")
    /\ status' = [status EXCEPT ![t] = "Running"]
    /\ Proceed(t, "select", "io")
    /\ UNCHANGED <<permits, stopReason, seen, term, stop, treeVars, outcomeVars, active, killed>>

-----------------------------------------------------------------------------
(* run_task: the select loop and the phase after the worker has exited.       *)

ChildExits(t) ==
    /\ At(t, "select")
    /\ worker[t] = "exited"
    /\ pc' = [pc EXCEPT ![t] = "linger"]
    /\ UNCHANGED <<permits, stopReason, seen, recordVars, treeVars, outcomeVars, active, killed>>

DeadlineFires(t) ==
    /\ At(t, "select")
    /\ stopReason' = [stopReason EXCEPT ![t] = "Timeout"]
    /\ pc' = [pc EXCEPT ![t] = "stopping"]
    /\ UNCHANGED <<permits, seen, recordVars, treeVars, outcomeVars, active, killed>>

\* stop_rx.changed() and borrow_and_update(): only the last reason sent is seen.
StopReceived(t) ==
    /\ At(t, "select")
    /\ ~seen[t] /\ stop[t] # "none"
    /\ seen' = [seen EXCEPT ![t] = TRUE]
    /\ stopReason' = [stopReason EXCEPT ![t] = stop[t]]
    /\ pc' = [pc EXCEPT ![t] = StopEntry(stop[t])]
    /\ UNCHANGED <<permits, recordVars, treeVars, outcomeVars, active, killed>>

\* After the last wait for the tree the control pipe is dropped and the
\* readers are joined.
EnterDrain(t) ==
    /\ pc' = [pc EXCEPT ![t] = "drain"]
    /\ control' = [control EXCEPT ![t] = "closed"]
    /\ UNCHANGED <<permits, stopReason, seen, recordVars, worker, procs, doomed, outcomeVars, active, killed>>

LingerEmpty(t) ==
    /\ At(t, "linger")
    /\ TreeReportedEmpty(t)
    /\ EnterDrain(t)

\* The job cannot be queried: is_err() is about the timeout only, so the error of
\* wait_empty is taken for an empty tree.
LingerQueryFails(t) ==
    /\ At(t, "linger")
    /\ Platform = "windows" /\ "os" \in Failures
    /\ EnterDrain(t)

\* The deadline passes while descendants outlive the main script; tree.force().
LingerExpires(t) ==
    /\ At(t, "linger")
    /\ ~TreeReportedEmpty(t)
    /\ stopReason' = [stopReason EXCEPT ![t] = "Timeout"]
    /\ \/ /\ doomed' = [doomed EXCEPT ![t] = @ \cup Reached(t)]
          /\ pc' = [pc EXCEPT ![t] = "lingerforced"]
       \/ /\ "os" \in Failures
          /\ pc' = [pc EXCEPT ![t] = "err"]
          /\ UNCHANGED doomed
    /\ UNCHANGED <<permits, seen, recordVars, worker, procs, control, outcomeVars, active, killed>>

LingerRecord(t) ==
    /\ At(t, "lingerforced")
    /\ RecordStopping(t, "Timeout", FALSE, TRUE)
    /\ Proceed(t, "reap", "io")
    /\ UNCHANGED <<permits, stopReason, seen, stop, treeVars, outcomeVars, active, killed>>

\* child.wait() fails, or, on Windows, a wait_empty() whose result is looked at.
WaitFails(t) ==
    /\ "os" \in Failures
    /\ pc[t] \in {"select", "grace1", "reap"} \/ (At(t, "grace2") /\ Platform = "windows")
    /\ pc' = [pc EXCEPT ![t] = "err"]
    /\ UNCHANGED <<permits, stopReason, seen, recordVars, treeVars, outcomeVars, active, killed>>

-----------------------------------------------------------------------------
(* stop_process and force_stop_process.                                       *)

\* Faulty variant: the permits are returned when the stop begins.
BeginGracefulReleasing(t) ==
    /\ At(t, "stopping")
    /\ RecordStopping(t, stopReason[t], TRUE, FALSE)
    /\ permits' = [permits EXCEPT ![t] = {}]
    /\ Proceed(t, "signal", "io")
    /\ UNCHANGED <<stopReason, seen, stop, treeVars, outcomeVars, active, killed>>

BeginGraceful(t) ==
    /\ At(t, "stopping")
    /\ RecordStopping(t, stopReason[t], TRUE, FALSE)
    /\ Proceed(t, "signal", "io")
    /\ UNCHANGED <<permits, stopReason, seen, stop, treeVars, outcomeVars, active, killed>>

\* "terminate" is written to the worker and SIGTERM sent to the group.  A
\* worker that has not installed its handler yet is killed by the signal.
SignalGraceful(t) ==
    /\ At(t, "signal")
    /\ control' = [control EXCEPT ![t] = "terminate"]
    /\ \/ UNCHANGED doomed
       \/ /\ Platform = "unix" /\ worker[t] = "init"
          /\ doomed' = [doomed EXCEPT ![t] = @ \cup {"worker"}]
    /\ Proceed(t, "grace1", "os")
    /\ UNCHANGED <<permits, stopReason, seen, recordVars, worker, procs, outcomeVars, active, killed>>

GraceWorkerExits(t) ==
    /\ At(t, "grace1")
    /\ worker[t] = "exited"
    /\ pc' = [pc EXCEPT ![t] = "grace2"]
    /\ UNCHANGED <<permits, stopReason, seen, recordVars, treeVars, outcomeVars, active, killed>>

GraceTreeEmpty(t) ==
    /\ At(t, "grace2")
    /\ TreeReportedEmpty(t)
    /\ EnterDrain(t)

\* Faulty variant: no deadline while the tree outlives the worker.
GraceExpiresForWorkerOnly(t) ==
    /\ At(t, "grace1") /\ worker[t] # "exited"
    /\ pc' = [pc EXCEPT ![t] = "forcing"]
    /\ UNCHANGED <<permits, stopReason, seen, recordVars, treeVars, outcomeVars, active, killed>>

\* timeout_at polls what it waits for first.
GraceExpires(t) ==
    /\ \/ At(t, "grace1") /\ worker[t] # "exited"
       \/ At(t, "grace2") /\ ~TreeReportedEmpty(t)
    /\ pc' = [pc EXCEPT ![t] = "forcing"]
    /\ UNCHANGED <<permits, stopReason, seen, recordVars, treeVars, outcomeVars, active, killed>>

\* wait_for_force_kill looks at the last value of the channel.
KillReceived(t) ==
    /\ pc[t] \in {"grace1", "grace2"}
    /\ stop[t] = "ForceKilled"
    /\ seen' = [seen EXCEPT ![t] = TRUE]
    /\ stopReason' = [stopReason EXCEPT ![t] = "ForceKilled"]
    /\ pc' = [pc EXCEPT ![t] = "forcing"]
    /\ UNCHANGED <<permits, recordVars, treeVars, outcomeVars, active, killed>>

BeginForce(t) ==
    /\ At(t, "forcing")
    /\ RecordStopping(t, stopReason[t], term[t].graceful, TRUE)
    /\ Proceed(t, "kill", "io")
    /\ UNCHANGED <<permits, stopReason, seen, stop, treeVars, outcomeVars, active, killed>>

ForceTree(t) ==
    /\ At(t, "kill")
    /\ \/ /\ doomed' = [doomed EXCEPT ![t] = @ \cup Reached(t)]
          /\ pc' = [pc EXCEPT ![t] = "reap"]
       \/ /\ "os" \in Failures
          /\ pc' = [pc EXCEPT ![t] = "err"]
          /\ UNCHANGED doomed
    /\ UNCHANGED <<permits, stopReason, seen, recordVars, worker, procs, control, outcomeVars, active, killed>>

ReapTree(t) ==
    /\ At(t, "reap")
    /\ worker[t] = "exited"
    /\ TreeReportedEmpty(t)
    /\ EnterDrain(t)

-----------------------------------------------------------------------------
(* run_task: the end, and the error path of start_task.                       *)

\* The readers are joined in order; the first failure is returned at once.
JoinReaders(t) ==
    /\ At(t, "drain")
    /\ \/ /\ \A s \in StreamSet : reader[t][s] = "eof"
          /\ pc' = [pc EXCEPT ![t] = "release"]
       \/ /\ \E i \in DOMAIN Streams :
                /\ reader[t][Streams[i]] = "failed"
                /\ \A j \in 1..(i - 1) : reader[t][Streams[j]] = "eof"
          /\ pc' = [pc EXCEPT ![t] = "err"]
    /\ UNCHANGED <<permits, stopReason, seen, recordVars, treeVars, outcomeVars, active, killed>>

\* Faulty variant: the permits live until the executor future ends.
ReleasePermitsNever(t) ==
    /\ At(t, "release")
    /\ pc' = [pc EXCEPT ![t] = "publish"]
    /\ UNCHANGED <<permits, stopReason, seen, recordVars, treeVars, outcomeVars, active, killed>>

ReleasePermits(t) ==
    /\ At(t, "release")
    /\ permits' = [permits EXCEPT ![t] = {}]
    /\ pc' = [pc EXCEPT ![t] = "publish"]
    /\ UNCHANGED <<stopReason, seen, recordVars, treeVars, outcomeVars, active, killed>>

Publish(t) ==
    /\ At(t, "publish")
    /\ status' = [status EXCEPT ![t] = FinalStatus(stopReason[t], workerOk[t])]
    /\ Proceed(t, "mark", "io")
    /\ UNCHANGED <<permits, stopReason, seen, term, stop, treeVars, outcomeVars, active, killed>>

\* Faulty variant: the permits are not dropped with the failed future.
AbortRunKeepingPermits(t) ==
    /\ At(t, "err")
    /\ control' = [control EXCEPT ![t] =
           CASE @ = "none" -> "none"
             [] @ \in {"unattached", "fresh"} -> "unsent"
             [] OTHER -> "closed"]
    /\ doomed' = [doomed EXCEPT ![t] = @ \cup EndedByDrop(t)]
    /\ pc' = [pc EXCEPT ![t] = "errpublish"]
    /\ UNCHANGED <<permits, stopReason, seen, recordVars, worker, procs, outcomeVars, active, killed>>

\* run_task returns an error: permits, control pipe and tree are dropped.
AbortRun(t) ==
    /\ At(t, "err")
    /\ permits' = [permits EXCEPT ![t] = {}]
    /\ control' = [control EXCEPT ![t] =
           CASE @ = "none" -> "none"
             [] @ \in {"unattached", "fresh"} -> "unsent"
             [] OTHER -> "closed"]
    /\ doomed' = [doomed EXCEPT ![t] = @ \cup EndedByDrop(t)]
    /\ pc' = [pc EXCEPT ![t] = "errpublish"]
    /\ UNCHANGED <<stopReason, seen, recordVars, worker, procs, outcomeVars, active, killed>>

\* The error is recorded unless the task is finished; the result is ignored.
PublishError(t) ==
    /\ At(t, "errpublish")
    /\ status' = [status EXCEPT ![t] = IF @ \in FinishedStatuses THEN @ ELSE "Failed"]
    /\ pc' = [pc EXCEPT ![t] = "mark"]
    /\ UNCHANGED <<permits, stopReason, seen, term, stop, treeVars, outcomeVars, active, killed>>

\* run_task has returned, and with it the tree is dropped, if it was not on the
\* error path; then the task is counted out.
MarkFinished(t) ==
    /\ At(t, "mark")
    /\ doomed' = [doomed EXCEPT ![t] = @ \cup EndedByDrop(t)]
    /\ active' = active - 1
    /\ pc' = [pc EXCEPT ![t] = "done"]
    /\ UNCHANGED <<permits, stopReason, seen, recordVars, worker, procs, control, outcomeVars, killed>>

-----------------------------------------------------------------------------
(* The worker process.                                                        *)

\* The initial message is read and the script started.
WorkerStart(t) ==
    /\ worker[t] = "init" /\ "worker" \notin doomed[t]
    /\ control[t] \in {"open", "terminate", "closed"}
    /\ worker' = [worker EXCEPT ![t] = "loop"]
    /\ procs' = [procs EXCEPT ![t] = @ \cup {"script"}]
    /\ UNCHANGED <<executorVars, recordVars, doomed, control, outcomeVars, active, killed>>

\* The worker's process ends with the given success.
EndWorker(t, ok) ==
    /\ worker' = [worker EXCEPT ![t] = "exited"]
    /\ procs' = [procs EXCEPT ![t] = @ \ {"worker"}]
    /\ doomed' = [doomed EXCEPT ![t] = @ \ {"worker"}]
    /\ workerOk' = [workerOk EXCEPT ![t] = ok]
    /\ UNCHANGED <<executorVars, recordVars, control, reader, scriptCode, active, killed>>

\* run_worker fails with 127: no initial message, set-up or script start fails.
WorkerStartFails(t) ==
    /\ worker[t] = "init"
    /\ control[t] = "unsent" \/ "os" \in Failures
    /\ EndWorker(t, FALSE)

WorkerNoticesExit(t) ==
    /\ worker[t] = "loop" /\ "script" \notin procs[t]
    /\ worker' = [worker EXCEPT ![t] = "reap"]
    /\ UNCHANGED <<executorVars, recordVars, procs, doomed, control, outcomeVars, active, killed>>

\* worker_wait_for_descendants: the unix worker is a subreaper and waits for
\* every descendant, the Windows worker for none.
WorkerExit(t) ==
    /\ worker[t] = "reap"
    /\ Platform = "windows" \/ procs[t] = {"worker"}
    /\ EndWorker(t, ClampedCode(scriptCode[t]) = 0)

\* The grace period after a "terminate" or an end of file has passed and the
\* script still runs: worker_force_after_parent_loss.
WorkerForce(t) ==
    /\ worker[t] = "loop" /\ "script" \in procs[t]
    /\ control[t] \in {"terminate", "closed"}
    /\ \/ /\ Platform = "unix"
          /\ doomed' = [doomed EXCEPT ![t] = @ \cup Reached(t)]
          /\ UNCHANGED worker
       \/ /\ Platform = "windows"
          /\ worker' = [worker EXCEPT ![t] = "stuck"]
          /\ UNCHANGED doomed
    /\ UNCHANGED <<executorVars, recordVars, procs, control, outcomeVars, active, killed>>

\* GenerateConsoleCtrlEvent fails and run_worker returns the error.
WorkerGracefulFails(t) ==
    /\ Platform = "windows" /\ "os" \in Failures
    /\ worker[t] = "loop"
    /\ control[t] \in {"terminate", "closed"}
    /\ EndWorker(t, FALSE)

\* The worker is killed from outside.
WorkerCrash(t) ==
    /\ "crash" \in Failures
    /\ worker[t] \in {"init", "loop", "reap", "stuck"}
    /\ EndWorker(t, FALSE)

-----------------------------------------------------------------------------
(* The script, its descendants, signals and the output pipes.                 *)

\* A child inherits the process group and the pipes its parent still has.
MayFork(parent, kind) ==
    /\ parent \in Daemons => kind \in Daemons
    /\ parent \in Redirected => kind \in Redirected

ScriptForks(t, kind) ==
    /\ kind \notin procs[t]
    /\ \E parent \in procs[t] \ ({"worker"} \cup doomed[t]) : MayFork(parent, kind)
    /\ procs' = [procs EXCEPT ![t] = @ \cup {kind}]
    /\ UNCHANGED <<executorVars, recordVars, worker, doomed, control, outcomeVars, active, killed>>

ScriptExits(t, code) ==
    /\ "script" \in procs[t] \ doomed[t]
    /\ procs' = [procs EXCEPT ![t] = @ \ {"script"}]
    /\ scriptCode' = [scriptCode EXCEPT ![t] = code]
    /\ UNCHANGED <<executorVars, recordVars, worker, doomed, control, reader, workerOk, active, killed>>

DescendantExits(t, kind) ==
    /\ kind \in procs[t] \ doomed[t]
    /\ procs' = [procs EXCEPT ![t] = @ \ {kind}]
    /\ UNCHANGED <<executorVars, recordVars, worker, doomed, control, outcomeVars, active, killed>>

\* A killed process disappears some time after the signal.
DoomedDies(t, p) ==
    /\ p \in doomed[t] \cap procs[t]
    /\ IF p = "worker"
       THEN EndWorker(t, FALSE)
       ELSE /\ procs' = [procs EXCEPT ![t] = @ \ {p}]
            /\ doomed' = [doomed EXCEPT ![t] = @ \ {p}]
            /\ UNCHANGED <<executorVars, recordVars, worker, control, outcomeVars, active, killed>>

ReaderEof(t, s) ==
    /\ reader[t][s] = "reading" /\ ~PipesHeld(t)
    /\ reader' = [reader EXCEPT ![t][s] = "eof"]
    /\ UNCHANGED <<executorVars, recordVars, treeVars, scriptCode, workerOk, active, killed>>

\* copy_output fails and asks for the task to be stopped.
ReaderFails(t, s) ==
    /\ "io" \in Failures
    /\ reader[t][s] = "reading"
    /\ reader' = [reader EXCEPT ![t][s] = "failed"]
    /\ stop' = [stop EXCEPT ![t] = "LoggingFailure"]
    /\ seen' = [seen EXCEPT ![t] = FALSE]
    /\ UNCHANGED <<pc, permits, stopReason, status, term, treeVars, scriptCode, workerOk, active, killed>>

-----------------------------------------------------------------------------
HandlerStep(t) ==
    \/ AcquireGlobal(t) \/ RejectGlobal(t) \/ AcquireRoute(t) \/ RejectRoute(t)
    \/ CreateTask(t) \/ CreateFails(t)

\* What run_task does when it is polled; timers, failed starts and failed appends
\* included.
ProgressStep(t) ==
    \/ SpawnWorker(t) \/ SpawnFails(t) \/ InitWorker(t) \/ InitFails(t) \/ MarkRunning(t)
    \/ ChildExits(t) \/ DeadlineFires(t) \/ StopReceived(t)
    \/ LingerEmpty(t) \/ LingerExpires(t) \/ LingerRecord(t)
    \/ BeginGraceful(t) \/ SignalGraceful(t) \/ GraceWorkerExits(t) \/ GraceTreeEmpty(t)
    \/ GraceExpires(t) \/ KillReceived(t) \/ BeginForce(t) \/ ForceTree(t) \/ ReapTree(t)
    \/ JoinReaders(t) \/ ReleasePermits(t) \/ Publish(t)
    \/ AbortRun(t) \/ PublishError(t) \/ MarkFinished(t)

\* A wait may fail as well, but nobody can count on that.
ExecutorStep(t) == ProgressStep(t) \/ LingerQueryFails(t) \/ WaitFails(t)

WorkerStep(t) ==
    \/ WorkerStart(t) \/ WorkerStartFails(t) \/ WorkerNoticesExit(t) \/ WorkerExit(t)
    \/ WorkerForce(t) \/ WorkerGracefulFails(t)

EnvironmentStep(t) ==
    \/ \E reason \in RequestReasons : RequestStop(t, reason)
    \/ \E kind \in DescKinds : ScriptForks(t, kind) \/ DescendantExits(t, kind)
    \/ \E code \in ScriptCodes : ScriptExits(t, code)
    \/ WorkerCrash(t)
    \/ \E p \in Processes : DoomedDies(t, p)
    \/ \E s \in StreamSet : ReaderEof(t, s) \/ ReaderFails(t, s)

\* Every request has been answered and every task is over.
Quiescent ==
    /\ \A t \in Tasks : pc[t] \in {"rejected", "done"}
    /\ UNCHANGED vars

Next ==
    \/ \E t \in Tasks : HandlerStep(t) \/ ExecutorStep(t) \/ WorkerStep(t) \/ EnvironmentStep(t)
    \/ Quiescent

Spec == Init /\ [][Next]_vars

\* The asynchronous runtime polls a ready future, the timers fire, the kernel
\* delivers what was killed and closes the pipes of dead processes.  Nothing
\* makes a script or a descendant exit by itself, or a client send a request.
Fairness ==
    \A t \in Tasks :
        /\ WF_vars(HandlerStep(t) /\ pc[t] # "request")
        /\ WF_vars(ProgressStep(t))
        /\ WF_vars(WorkerStep(t))
        /\ \A p \in Processes : WF_vars(DoomedDies(t, p))
        /\ \A s \in StreamSet : WF_vars(ReaderEof(t, s))

FairSpec == Spec /\ Fairness

-----------------------------------------------------------------------------
(* Safety.                                                                    *)

Finished(t) == status[t] \in FinishedStatuses

\* "A terminal task must no longer consume either concurrency slot": a client
\* that reads a terminal status may submit the next task at once.  Both the
\* regular end and the error path drop the permits before they publish.  A
\* refused request keeps nothing either, not even the permit it took first.
FinishedReleasesPermits ==
    \A t \in Tasks : Finished(t) \/ pc[t] = "rejected" => permits[t] = {}

\* The statuses a recorded termination allows: a task that reports killed was
\* killed by force, one that reports success was never stopped, and so on.
\* The snapshot is written by up to four transitions with early returns
\* between them.
StatusMatchesTermination ==
    \A t \in Tasks :
        /\ status[t] = "Succeeded" => term[t] = NoTermination /\ workerOk[t]
        /\ status[t] = "Killed" => term[t].reason = "ForceKilled" /\ term[t].forced
        /\ status[t] = "TimedOut" => term[t].reason = "Timeout"
        /\ status[t] = "Cancelled" => term[t].reason = "Cancelled"
        /\ status[t] = "Interrupted" => term[t].reason \in {"ServerShutdown", "ServerRestart"}
        /\ term[t].forced /\ ~term[t].graceful => term[t].reason \in {"ForceKilled", "Timeout"}

\* When a task that was stopped reports a terminal status, and when any task is
\* counted out, whatever is left of its script and descendants has already been
\* sent a kill: clients take the status, and the shutdown of the service the
\* count, for the end of the tree.  A task that was not stopped may report its
\* end before, if the job could not be queried (LingerQueryFails).
FinishedTreesAreDying ==
    \A t \in Tasks :
        Finished(t) /\ (stopReason[t] # "none" \/ pc[t] = "done") =>
            procs[t] \ {"worker"} \subseteq doomed[t]

\* The concurrency limits bound the process trees that really run, not only
\* the permits: permits are dropped before the task ends, but after its tree.
\* A failure may leave processes behind a task that has returned its permits.
LiveTreesBounded ==
    LET Live(S) == {t \in S : procs[t] \ doomed[t] # {}}
    IN  /\ Cardinality(Live(Tasks)) <= MaxTotal
        /\ \A r \in Routes : Cardinality(Live({t \in Tasks : RouteOf[t] = r})) <= MaxRoute[r]

\* What wait_until_idle concludes from a zero count: every task created has
\* published a terminal status and holds no permit, on every path through the
\* error handling.
IdleMeansFinished ==
    active = 0 => \A t \in Tasks : status[t] # "Absent" => Finished(t) /\ permits[t] = {}

\* A process tree is killed only after the gentle request has been sent, except
\* by an explicit kill, after the main script has ended, or once the executor is
\* gone.  On Windows the deadline ends without one what a killed worker left.
GracefulBeforeForce ==
    \A t \in Tasks :
        "script" \in doomed[t] =>
            \/ control[t] \in {"terminate", "closed"}
            \/ stopReason[t] = "ForceKilled"

\* A terminal status, once visible, never changes, nor does its termination.
TerminalIsFinal ==
    [][\A t \in Tasks : Finished(t) => status'[t] = status[t] /\ term'[t] = term[t]]_vars

-----------------------------------------------------------------------------
(* Liveness, under Fairness.                                                  *)

\* The readers are joined, without a deadline, although a process of a tree that
\* was wrongly taken for empty still holds a pipe (LingerQueryFails).
TimeLimitLost(t) ==
    Platform = "windows" /\ At(t, "drain") /\ stopReason[t] = "none" /\ PipesHeld(t)

\* Every task that was accepted ends, whatever its script does, unless the error
\* of the job's query has cost it its time limit.
TaskTerminates ==
    \A t \in Tasks : status[t] = "Starting" ~> Finished(t) \/ TimeLimitLost(t)

\* Every permit comes back, from refused requests and failed starts too.
PermitsReturn ==
    \A t \in Tasks : permits[t] # {} ~> permits[t] = {}

\* No process stays of a task that ended as succeeded, cancelled, killed, timed
\* out or interrupted, and no script of any task: when the executor gives up, the
\* worker's own grace period ends the script.  System calls, appends and readers
\* may have failed on the way.
StoppedTreesDisappear ==
    \A t \in Tasks :
        Finished(t) ~> "script" \notin procs[t] /\ (status[t] # "Failed" => procs[t] = {})

-----------------------------------------------------------------------------
(* Statements of the documentation that the code does not keep.               *)

\* README: a kill request answered 202 "skips graceful_shutdown_seconds and
\* ends the whole process tree at once".  The executor must then never sit in
\* the grace period without the kill waiting for it in the channel.
KillSkipsGrace ==
    \A t \in Tasks : killed[t] /\ pc[t] = "grace1" => stop[t] = "ForceKilled"

\* "Script exit code is not zero" is the error of every failed script: a task
\* succeeds only if its script ended with zero.
SucceededMeansZero ==
    \A t \in Tasks : status[t] = "Succeeded" => scriptCode[t] = 0

-----------------------------------------------------------------------------
(* The contract with the client.                                              *)

\* A task occupies a slot while it owns a permit of either semaphore.
Held == [t \in Tasks |-> permits[t] # {}]

Contract == INSTANCE TaskContract WITH held <- Held

\* The executor implements what TaskContract promises to clients.
ImplementsContract == Contract!Spec

-----------------------------------------------------------------------------
(* The accounts of the store.                                                 *)

Lives ==
    [t \in Tasks |->
        IF status[t] = "Absent" THEN "none"
        ELSE IF pc[t] = "done" THEN "out"
        ELSE IF Finished(t) THEN "published" ELSE "running"]

StopAsked == [t \in Tasks |-> stop[t] # "none"]

Ledger == INSTANCE TaskLedger WITH life <- Lives, asked <- StopAsked

\* Every task is entered, published and counted out once and in this order,
\* on the regular path and on every error path of start_task and run_task.
ImplementsLedger == Ledger!Spec
=============================================================================
