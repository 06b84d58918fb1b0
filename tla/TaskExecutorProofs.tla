------------------------- MODULE TaskExecutorProofs -------------------------
(* Proofs about TaskExecutor, for any number of tasks and routes, any limits, *)
(* either platform, any failures and any behaviour of scripts and clients.    *)

EXTENDS TaskExecutor, FiniteSetTheorems, TLAPS

-----------------------------------------------------------------------------
(* The inductive invariant.  What one task's control point says of its own    *)
(* permits, reason in hand, published status and recorded termination, and    *)
(* what the counter says of all of them.                                      *)

\* Points at which the task holds no permit (an aborting executor may or may
\* not have dropped them).
Permitless == {"request", "rejected", "publish", "errpublish", "mark", "done"}

\* run_task before any stop was recorded.
Unstopped(p) == p \in {"select", "linger", "lingerforced", "stopping"}

\* The two ways into the forced stop: straight from the select loop for a
\* kill, or from the grace period for its own reason or an overtaking kill.
ForcingShape(sr, st, tm) ==
    \/ st = "Running" /\ tm = NoTermination /\ sr = "ForceKilled"
    \/ st = "Stopping" /\ tm.graceful /\ ~tm.forced /\ tm.reason # "none"
       /\ sr \in {tm.reason, "ForceKilled"}

\* The end of run_task: never stopped, or stopped for the recorded reason.
EndingShape(sr, st, tm) ==
    \/ st = "Running" /\ tm = NoTermination /\ sr = "none"
    \/ st = "Stopping" /\ sr # "none" /\ tm.reason = sr
       /\ (sr = "ForceKilled" => tm.forced)

\* What a published status and a recorded termination say of each other.
Consistent(st, tm, ok) ==
    /\ st = "Succeeded" => tm = NoTermination /\ ok
    /\ st = "Killed" => tm.reason = "ForceKilled" /\ tm.forced
    /\ st = "TimedOut" => tm.reason = "Timeout"
    /\ st = "Cancelled" => tm.reason = "Cancelled"
    /\ st = "Interrupted" => tm.reason \in {"ServerShutdown", "ServerRestart"}

Shape(p, held, sr, st, tm) ==
    /\ (p \in Permitless) => ~held
    /\ (p \in HandlerPoints) <=> (st = "Absent")
    /\ (st \in FinishedStatuses) => p \in {"err", "errpublish", "mark", "done"} /\ ~held
    /\ (p \in {"mark", "done"}) => st \in FinishedStatuses
    /\ (p \notin Permitless \cup {"err"}) => held
    /\ sr # "ParentExited" /\ tm.reason # "ParentExited"
    /\ (tm.forced /\ ~tm.graceful) => tm.reason \in {"ForceKilled", "Timeout"}
    /\ (p \in HandlerPoints \cup {"spawned", "started", "init"}) => tm = NoTermination /\ sr = "none"
    /\ (p \in {"spawned", "started", "init"}) => st = "Starting"
    /\ Unstopped(p) => st = "Running" /\ tm = NoTermination
    /\ (p \in {"select", "linger"}) => sr = "none"
    /\ (p = "lingerforced") => sr = "Timeout"
    /\ (p = "stopping") => sr \notin {"none", "ForceKilled"}
    /\ (p \in {"signal", "grace1", "grace2"}) =>
           st = "Stopping" /\ sr \notin {"none", "ForceKilled"}
           /\ tm = [reason |-> sr, graceful |-> TRUE, forced |-> FALSE]
    /\ (p = "forcing") => ForcingShape(sr, st, tm)
    /\ (p \in {"kill", "reap"}) => st = "Stopping" /\ sr # "none" /\ tm.reason = sr /\ tm.forced
    /\ (p \in {"drain", "release", "publish"}) => EndingShape(sr, st, tm)
    /\ (sr = "ForceKilled" /\ st \in FinishedStatuses) => st \in {"Killed", "Failed"}

ShapedAt(t) ==
    /\ Shape(pc[t], permits[t] # {}, stopReason[t], status[t], term[t])
    /\ Consistent(status[t], term[t], workerOk[t])

Shaped == \A t \in Tasks : ShapedAt(t)

\* A stop reason in the channel is one that somebody sends.
ChannelShaped == \A t \in Tasks : stop[t] # "ParentExited"

\* A worker that has exited is not a live process any more, so it cannot end a
\* second time; and a task that was never stopped ends after its worker.
WorkerGone ==
    \A t \in Tasks :
        /\ worker[t] = "exited" => "worker" \notin procs[t]
        /\ \/ pc[t] \in {"linger", "lingerforced"}
           \/ pc[t] \in {"drain", "release", "publish"} /\ stopReason[t] = "none"
           \/ status[t] = "Succeeded"
           => worker[t] = "exited"

Executing == {t \in Tasks : pc[t] \in ExecutorPoints}

Counted == active = Cardinality(Executing)

IInv == TypeOK /\ Shaped /\ ChannelShaped /\ WorkerGone /\ Counted
-----------------------------------------------------------------------------
(* Type correctness of one step.  The counter is left to the counting lemma.  *)

\* A signal to the tree reaches processes of the tree only.
LEMMA ReachedType ==
    ASSUME TypeOK, NEW t \in Tasks
    PROVE  doomed[t] \cup Reached(t) \in SUBSET Processes
BY DEF TypeOK, Reached

\* Removing a process from the live ones, or from those sent a kill.
LEMMA RemovalType ==
    ASSUME TypeOK, NEW t \in Tasks, NEW p
    PROVE  /\ procs[t] \ {p} \in SUBSET Processes
           /\ doomed[t] \ {p} \in SUBSET Processes
BY DEF TypeOK

\* Steps of the execute handler keep the types.
LEMMA HandlerType ==
    ASSUME TypeOK, NEW t \in Tasks, HandlerStep(t), active' \in Nat
    PROVE  TypeOK'
<1>1. CASE AcquireGlobal(t)
  BY <1>1 DEF TypeOK, AcquireGlobal, NoTaskYet, At, recordVars, treeVars, outcomeVars, HandlerPoints
<1>2. CASE RejectGlobal(t)
  BY <1>2 DEF TypeOK, RejectGlobal, NoTaskYet, At, recordVars, treeVars, outcomeVars, HandlerPoints
<1>3. CASE AcquireRoute(t)
  BY <1>3 DEF TypeOK, AcquireRoute, NoTaskYet, At, recordVars, treeVars, outcomeVars, HandlerPoints
<1>4. CASE RejectRoute(t)
  BY <1>4 DEF TypeOK, RejectRoute, NoTaskYet, At, recordVars, treeVars, outcomeVars, HandlerPoints
<1>5. CASE CreateTask(t)
  BY <1>5 DEF TypeOK, CreateTask, At, treeVars, outcomeVars, ExecutorPoints, Statuses
<1>6. CASE CreateFails(t)
  BY <1>6 DEF TypeOK, CreateFails, NoTaskYet, At, recordVars, treeVars, outcomeVars, HandlerPoints
<1> QED
  BY <1>1, <1>2, <1>3, <1>4, <1>5, <1>6 DEF HandlerStep

\* Steps of run_task and start_task keep the types.
LEMMA ExecutorType ==
    ASSUME TypeOK, NEW t \in Tasks, ExecutorStep(t), active' \in Nat
    PROVE  TypeOK'
<1>1. CASE SpawnWorker(t)
  BY <1>1 DEF TypeOK, SpawnWorker, At, ExecutorPoints, recordVars, treeVars, outcomeVars,
         Processes
<1>2. CASE SpawnFails(t)
  BY <1>2 DEF TypeOK, SpawnFails, At, ExecutorPoints, recordVars, treeVars, outcomeVars
<1>3. CASE InitWorker(t)
  BY <1>3 DEF TypeOK, InitWorker, At, ExecutorPoints, recordVars, treeVars, outcomeVars
<1>4. CASE InitFails(t)
  BY <1>4 DEF TypeOK, InitFails, At, ExecutorPoints, recordVars, treeVars, outcomeVars
<1>5. CASE MarkRunning(t)
  BY <1>5 DEF TypeOK, MarkRunning, At, ExecutorPoints, recordVars, treeVars, outcomeVars,
         Proceed, Statuses
<1>6. CASE ChildExits(t)
  BY <1>6 DEF TypeOK, ChildExits, At, ExecutorPoints, recordVars, treeVars, outcomeVars
<1>7. CASE DeadlineFires(t)
  BY <1>7 DEF TypeOK, DeadlineFires, At, ExecutorPoints, recordVars, treeVars,
         outcomeVars, StopReasons
<1>8. CASE StopReceived(t)
  BY <1>8 DEF TypeOK, StopReceived, At, ExecutorPoints, recordVars, treeVars, outcomeVars,
         StopEntry
<1>9. CASE LingerEmpty(t)
  BY <1>9 DEF TypeOK, LingerEmpty, At, ExecutorPoints, recordVars, treeVars, outcomeVars,
         EnterDrain
<1>10. CASE LingerExpires(t)
  BY <1>10 DEF TypeOK, LingerExpires, At, ExecutorPoints, recordVars, treeVars,
         outcomeVars, Reached, StopReasons
<1>11. CASE LingerRecord(t)
  BY <1>11 DEF TypeOK, LingerRecord, At, ExecutorPoints, recordVars, treeVars,
         outcomeVars, Proceed, RecordStopping, Statuses, StopReasons, Terminations
<1>12. CASE BeginGraceful(t)
  BY <1>12 DEF TypeOK, BeginGraceful, At, ExecutorPoints, recordVars, treeVars,
         outcomeVars, Proceed, RecordStopping, Statuses, Terminations
<1>13. CASE SignalGraceful(t)
  <2>1. doomed' \in [Tasks -> SUBSET Processes]
    BY <1>13 DEF TypeOK, SignalGraceful, Processes
  <2>2. pc' \in [Tasks -> HandlerPoints \cup ExecutorPoints \cup {"done"}]
    BY <1>13 DEF TypeOK, SignalGraceful, Proceed, ExecutorPoints
  <2> QED
    BY <1>13, <2>1, <2>2 DEF TypeOK, SignalGraceful, recordVars, outcomeVars
<1>14. CASE GraceWorkerExits(t)
  BY <1>14 DEF TypeOK, GraceWorkerExits, At, ExecutorPoints, recordVars, treeVars,
         outcomeVars
<1>15. CASE GraceTreeEmpty(t)
  BY <1>15 DEF TypeOK, GraceTreeEmpty, At, ExecutorPoints, recordVars, treeVars,
         outcomeVars, EnterDrain
<1>16. CASE GraceExpires(t)
  BY <1>16 DEF TypeOK, GraceExpires, At, ExecutorPoints, recordVars, treeVars, outcomeVars
<1>17. CASE KillReceived(t)
  BY <1>17 DEF TypeOK, KillReceived, At, ExecutorPoints, recordVars, treeVars,
         outcomeVars, StopReasons
<1>18. CASE BeginForce(t)
  BY <1>18 DEF TypeOK, BeginForce, At, ExecutorPoints, recordVars, treeVars, outcomeVars,
         Proceed, RecordStopping, Statuses, Terminations
<1>19. CASE ForceTree(t)
  <2>1. doomed' \in [Tasks -> SUBSET Processes]
    <3>1. doomed' = [doomed EXCEPT ![t] = doomed[t] \cup Reached(t)] \/ doomed' = doomed
      BY <1>19 DEF ForceTree
    <3> QED
      BY <3>1, ReachedType, SMTT(30) DEF TypeOK
  <2>2. pc' \in [Tasks -> HandlerPoints \cup ExecutorPoints \cup {"done"}]
    BY <1>19 DEF TypeOK, ForceTree, ExecutorPoints
  <2> QED
    BY <1>19, <2>1, <2>2 DEF TypeOK, ForceTree, recordVars, outcomeVars
<1>20. CASE ReapTree(t)
  BY <1>20 DEF TypeOK, ReapTree, At, ExecutorPoints, recordVars, treeVars, outcomeVars,
         EnterDrain
<1>21. CASE JoinReaders(t)
  BY <1>21 DEF TypeOK, JoinReaders, At, ExecutorPoints, recordVars, treeVars, outcomeVars
<1>22. CASE ReleasePermits(t)
  BY <1>22 DEF TypeOK, ReleasePermits, At, ExecutorPoints, recordVars, treeVars,
         outcomeVars
<1>23. CASE Publish(t)
  BY <1>23 DEF TypeOK, Publish, At, ExecutorPoints, recordVars, treeVars, outcomeVars,
         Proceed, FinalStatus, Statuses
<1>24. CASE AbortRun(t)
  BY <1>24 DEF TypeOK, AbortRun, At, ExecutorPoints, recordVars, treeVars, outcomeVars,
         EndedByDrop
<1>25. CASE PublishError(t)
  BY <1>25 DEF TypeOK, PublishError, At, ExecutorPoints, recordVars, treeVars,
         outcomeVars, Statuses, FinishedStatuses
<1>26. CASE MarkFinished(t)
  BY <1>26 DEF TypeOK, MarkFinished, At, ExecutorPoints, recordVars, treeVars, outcomeVars,
         EndedByDrop
<1>27. CASE LingerQueryFails(t)
  BY <1>27 DEF TypeOK, LingerQueryFails, At, ExecutorPoints, recordVars, treeVars,
         outcomeVars, EnterDrain
<1>28. CASE WaitFails(t)
  BY <1>28 DEF TypeOK, WaitFails, At, ExecutorPoints, recordVars, treeVars, outcomeVars
<1> QED
  BY <1>1, <1>2, <1>3, <1>4, <1>5, <1>6, <1>7, <1>8, <1>9, <1>10, <1>11, <1>12, <1>13,
     <1>14, <1>15, <1>16, <1>17, <1>18, <1>19, <1>20, <1>21, <1>22, <1>23, <1>24, <1>25,
     <1>26, <1>27, <1>28 DEF ExecutorStep, ProgressStep

\* Steps of run_worker keep the types.
LEMMA WorkerType ==
    ASSUME TypeOK, NEW t \in Tasks, WorkerStep(t), active' \in Nat
    PROVE  TypeOK'
<1>1. CASE WorkerStart(t)
  BY <1>1 DEF TypeOK, WorkerStart, executorVars, recordVars, treeVars, outcomeVars,
         Processes
<1>2. CASE WorkerStartFails(t)
  BY <1>2 DEF TypeOK, WorkerStartFails, executorVars, recordVars, treeVars, outcomeVars,
         EndWorker
<1>3. CASE WorkerNoticesExit(t)
  BY <1>3 DEF TypeOK, WorkerNoticesExit, executorVars, recordVars, treeVars, outcomeVars
<1>4. CASE WorkerExit(t)
  BY <1>4 DEF TypeOK, WorkerExit, executorVars, recordVars, treeVars, outcomeVars,
         EndWorker
<1>5. CASE WorkerForce(t)
  <2>1. doomed' \in [Tasks -> SUBSET Processes]
    BY <1>5, ReachedType DEF TypeOK, WorkerForce
  <2>2. worker' \in [Tasks -> {"none", "init", "loop", "reap", "stuck", "exited"}]
    BY <1>5 DEF TypeOK, WorkerForce
  <2> QED
    BY <1>5, <2>1, <2>2 DEF TypeOK, WorkerForce, executorVars, recordVars, outcomeVars
<1>6. CASE WorkerGracefulFails(t)
  BY <1>6 DEF TypeOK, WorkerGracefulFails, executorVars, recordVars, treeVars,
         outcomeVars, EndWorker
<1> QED
  BY <1>1, <1>2, <1>3, <1>4, <1>5, <1>6 DEF WorkerStep

\* Stop requests, scripts, signals and readers keep the types.
LEMMA EnvironmentType ==
    ASSUME TypeOK, NEW t \in Tasks, EnvironmentStep(t), active' \in Nat
    PROVE  TypeOK'
<1>1. ASSUME NEW reason \in RequestReasons, RequestStop(t, reason)
      PROVE  TypeOK'
  BY <1>1, ReasonsAssumption DEF TypeOK, RequestStop, StopReasons, treeVars, outcomeVars
<1>2. ASSUME NEW kind \in DescKinds, ScriptForks(t, kind)
      PROVE  TypeOK'
  <2>1. procs[t] \cup {kind} \in SUBSET Processes
    BY DEF TypeOK, Processes
  <2> QED
    BY <1>2, <2>1 DEF TypeOK, ScriptForks, executorVars, recordVars, outcomeVars
<1>8. ASSUME NEW kind \in DescKinds, DescendantExits(t, kind)
      PROVE  TypeOK'
  BY <1>8, RemovalType DEF TypeOK, DescendantExits, executorVars, recordVars, outcomeVars
<1>3. ASSUME NEW code \in ScriptCodes, ScriptExits(t, code)
      PROVE  TypeOK'
  BY <1>3, ScriptCodesAssumption DEF TypeOK, ScriptExits, executorVars, recordVars, treeVars, outcomeVars
<1>4. CASE WorkerCrash(t)
  BY <1>4 DEF TypeOK, WorkerCrash, EndWorker, executorVars, recordVars, treeVars, outcomeVars
<1>5. ASSUME NEW p \in Processes, DoomedDies(t, p)
      PROVE  TypeOK'
  <2>1. /\ procs' = [procs EXCEPT ![t] = procs[t] \ {p}]
        /\ doomed' = [doomed EXCEPT ![t] = doomed[t] \ {p}]
    BY <1>5 DEF DoomedDies, EndWorker
  <2>2. procs' \in [Tasks -> SUBSET Processes] /\ doomed' \in [Tasks -> SUBSET Processes]
    BY <2>1, RemovalType, SMTT(30) DEF TypeOK
  <2>3. CASE p = "worker"
    <3>1. EndWorker(t, FALSE)
      BY <1>5, <2>3 DEF DoomedDies
    <3> QED
      BY <2>2, <3>1 DEF TypeOK, EndWorker, executorVars, recordVars
  <2>4. CASE p # "worker"
    BY <1>5, <2>2, <2>4 DEF TypeOK, DoomedDies, executorVars, recordVars, outcomeVars
  <2> QED
    BY <2>3, <2>4
<1>6. ASSUME NEW s \in StreamSet, ReaderEof(t, s)
      PROVE  TypeOK'
  BY <1>6 DEF TypeOK, ReaderEof, executorVars, recordVars, treeVars
<1>7. ASSUME NEW s \in StreamSet, ReaderFails(t, s)
      PROVE  TypeOK'
  BY <1>7 DEF TypeOK, ReaderFails, StopReasons, treeVars
<1> QED
  BY <1>1, <1>2, <1>3, <1>4, <1>5, <1>6, <1>7, <1>8 DEF EnvironmentStep

-----------------------------------------------------------------------------
(* Counting.  Only the creation of a task and the last step of its executor   *)
(* change the set of running executors, and they change the counter with it.  *)

\* A handler that does not create a task stays a handler and counts nothing.
LEMMA HandlerMoves ==
    ASSUME NEW t \in Tasks, HandlerStep(t), ~CreateTask(t)
    PROVE  /\ pc[t] \in HandlerPoints
           /\ \E q \in HandlerPoints : pc' = [pc EXCEPT ![t] = q]
           /\ active' = active
BY DEF HandlerStep, AcquireGlobal, RejectGlobal, AcquireRoute, RejectRoute, CreateFails,
       NoTaskYet, At, HandlerPoints

\* An executor that does not mark its task finished stays one and counts nothing.
LEMMA ExecutorMoves ==
    ASSUME NEW t \in Tasks, ExecutorStep(t), ~MarkFinished(t)
    PROVE  /\ pc[t] \in ExecutorPoints
           /\ \E q \in ExecutorPoints : pc' = [pc EXCEPT ![t] = q]
           /\ active' = active
<1>1. CASE SpawnWorker(t) \/ SpawnFails(t) \/ InitWorker(t) \/ InitFails(t) \/ MarkRunning(t)
  BY <1>1 DEF SpawnWorker, SpawnFails, InitWorker, InitFails, MarkRunning, Proceed, At, ExecutorPoints
<1>2. CASE ChildExits(t) \/ DeadlineFires(t) \/ StopReceived(t) \/ LingerEmpty(t)
           \/ LingerQueryFails(t) \/ LingerExpires(t) \/ LingerRecord(t) \/ WaitFails(t)
  BY <1>2 DEF ChildExits, DeadlineFires, StopReceived, StopEntry, LingerEmpty, LingerQueryFails,
         EnterDrain, LingerExpires, LingerRecord, WaitFails, Proceed, At, ExecutorPoints
<1>3. CASE BeginGraceful(t) \/ SignalGraceful(t) \/ GraceWorkerExits(t) \/ GraceTreeEmpty(t)
           \/ GraceExpires(t) \/ KillReceived(t)
  BY <1>3 DEF BeginGraceful, SignalGraceful, GraceWorkerExits, GraceTreeEmpty, EnterDrain,
         GraceExpires, KillReceived, Proceed, At, ExecutorPoints
<1>4. CASE BeginForce(t) \/ ForceTree(t) \/ ReapTree(t) \/ JoinReaders(t) \/ ReleasePermits(t)
  BY <1>4 DEF BeginForce, ForceTree, ReapTree, EnterDrain, JoinReaders, ReleasePermits,
         Proceed, At, ExecutorPoints
<1>5. CASE Publish(t) \/ AbortRun(t) \/ PublishError(t)
  BY <1>5 DEF Publish, AbortRun, PublishError, Proceed, At, ExecutorPoints
<1> QED
  BY <1>1, <1>2, <1>3, <1>4, <1>5 DEF ExecutorStep, ProgressStep

\* The worker, the script and the clients move no executor, permit, status or
\* termination.
LEMMA OthersStill ==
    ASSUME NEW t \in Tasks, WorkerStep(t) \/ EnvironmentStep(t)
    PROVE  UNCHANGED <<pc, active, permits, stopReason, status, term>>
<1>1. CASE WorkerStep(t)
  BY <1>1 DEF WorkerStep, WorkerStart, WorkerStartFails, WorkerNoticesExit, WorkerExit, WorkerForce,
         WorkerGracefulFails, EndWorker, executorVars, recordVars
<1>2. CASE EnvironmentStep(t)
  BY <1>2 DEF EnvironmentStep, RequestStop, ScriptForks, DescendantExits, ScriptExits, WorkerCrash,
         DoomedDies, ReaderEof, ReaderFails, EndWorker, executorVars, recordVars
<1> QED
  BY <1>1, <1>2

\* active_count is the number of running executors after every step, so the
\* fetch_sub of mark_finished never wraps.
LEMMA CountStep ==
    ASSUME TypeOK, Counted, Next
    PROVE  Counted' /\ active' \in Nat
<1>1. IsFiniteSet(Executing)
  BY TasksAssumption, FS_Subset DEF Executing
<1>2. active \in Nat
  BY DEF TypeOK
<1>3. ASSUME NEW t \in Tasks, CreateTask(t)
      PROVE  Counted' /\ active' \in Nat
  <2>1. t \notin Executing
    BY <1>3 DEF CreateTask, At, Executing, ExecutorPoints
  <2>2. Executing' = Executing \cup {t}
    BY <1>3 DEF CreateTask, Executing, ExecutorPoints, TypeOK
  <2>3. Cardinality(Executing \cup {t}) = Cardinality(Executing) + 1
    BY <1>1, <2>1, FS_AddElement
  <2> QED
    BY <1>2, <1>3, <2>2, <2>3 DEF CreateTask, Counted
<1>4. ASSUME NEW t \in Tasks, MarkFinished(t)
      PROVE  Counted' /\ active' \in Nat
  <2>1. t \in Executing
    BY <1>4 DEF MarkFinished, At, Executing, ExecutorPoints
  <2>2. Executing' = Executing \ {t}
    BY <1>4 DEF MarkFinished, Executing, ExecutorPoints, TypeOK
  <2>3. /\ IsFiniteSet(Executing \ {t})
        /\ Cardinality(Executing \ {t}) = Cardinality(Executing) - 1
    BY <1>1, <2>1, FS_RemoveElement
  <2>4. Cardinality(Executing \ {t}) \in Nat
    BY <2>3, FS_CardinalityType
  <2> QED
    BY <1>4, <2>2, <2>3, <2>4 DEF MarkFinished, Counted
<1>5. ASSUME NEW t \in Tasks, HandlerStep(t), ~CreateTask(t)
      PROVE  Counted' /\ active' \in Nat
  <2>1. Executing' = Executing
    BY <1>5, HandlerMoves DEF Executing, HandlerPoints, ExecutorPoints, TypeOK
  <2> QED
    BY <1>2, <1>5, <2>1, HandlerMoves DEF Counted
<1>6. ASSUME NEW t \in Tasks, ExecutorStep(t), ~MarkFinished(t)
      PROVE  Counted' /\ active' \in Nat
  <2>1. Executing' = Executing
    BY <1>6, ExecutorMoves DEF Executing, TypeOK
  <2> QED
    BY <1>2, <1>6, <2>1, ExecutorMoves DEF Counted
<1>7. ASSUME NEW t \in Tasks, WorkerStep(t) \/ EnvironmentStep(t)
      PROVE  Counted' /\ active' \in Nat
  BY <1>2, <1>7, OthersStill DEF Counted, Executing
<1>8. CASE Quiescent
  BY <1>2, <1>8 DEF Quiescent, vars, executorVars, Counted, Executing
<1> QED
  BY <1>3, <1>4, <1>5, <1>6, <1>7, <1>8 DEF Next

\* One step keeps the types.
LEMMA TypeStep ==
    ASSUME TypeOK, Counted, [Next]_vars
    PROVE  TypeOK' /\ Counted'
<1>1. CASE Next
  <2>1. Counted' /\ active' \in Nat
    BY <1>1, CountStep
  <2>2. CASE Quiescent
    BY <2>1, <2>2 DEF Quiescent, vars, executorVars, recordVars, treeVars, outcomeVars, TypeOK
  <2> QED
    BY <1>1, <2>1, <2>2, HandlerType, ExecutorType, WorkerType, EnvironmentType DEF Next
<1>2. CASE UNCHANGED vars
  BY <1>2 DEF vars, executorVars, recordVars, treeVars, outcomeVars, TypeOK, Counted, Executing
<1> QED
  BY <1>1, <1>2

-----------------------------------------------------------------------------
(* The first theorem: types, and the counter of wait_until_idle.              *)

\* The initial state has the types, and no executor runs.
LEMMA TypeInit == Init => TypeOK /\ Counted
<1> SUFFICES ASSUME Init PROVE TypeOK /\ Counted
  OBVIOUS
<1>1. Executing = {}
  BY DEF Init, Executing, ExecutorPoints
<1>2. Counted
  BY <1>1, FS_EmptySet DEF Init, Counted
<1>3. TypeOK
  BY DEF Init, TypeOK, HandlerPoints, Statuses, Terminations, NoTermination
<1> QED
  BY <1>2, <1>3

\* Every variable keeps its type, the unsigned active_count included: whatever
\* path run_task returns by, a task is counted once and uncounted once, so the
\* counter never wraps below zero.
THEOREM TypeCorrect == Spec => []TypeOK
<1>1. Init => TypeOK /\ Counted
  BY TypeInit
<1>2. TypeOK /\ Counted /\ [Next]_vars => (TypeOK /\ Counted)'
  BY TypeStep
<1> QED
  BY <1>1, <1>2, PTL DEF Spec

-----------------------------------------------------------------------------
(* The shape of a task is preserved by every step of its own handler or       *)
(* executor; no other step touches it.                                        *)

\* A step of one task's handler or executor leaves every other task alone.
LEMMA OnlyOwnTask ==
    ASSUME TypeOK, NEW t \in Tasks, HandlerStep(t) \/ ExecutorStep(t),
           NEW u \in Tasks, u # t
    PROVE  /\ pc'[u] = pc[u] /\ permits'[u] = permits[u] /\ stopReason'[u] = stopReason[u]
           /\ status'[u] = status[u] /\ term'[u] = term[u] /\ workerOk'[u] = workerOk[u]
           /\ worker'[u] = worker[u] /\ procs'[u] = procs[u]
<1> USE DEF TypeOK, recordVars, treeVars, outcomeVars
<1>1. CASE HandlerStep(t)
  BY <1>1 DEF HandlerStep, AcquireGlobal, RejectGlobal, AcquireRoute, RejectRoute, CreateTask,
         CreateFails, NoTaskYet
<1>2. CASE SpawnWorker(t) \/ SpawnFails(t) \/ InitWorker(t) \/ InitFails(t) \/ MarkRunning(t)
  BY <1>2 DEF SpawnWorker, SpawnFails, InitWorker, InitFails, MarkRunning, Proceed
<1>3. CASE ChildExits(t) \/ DeadlineFires(t) \/ StopReceived(t) \/ LingerEmpty(t)
           \/ LingerQueryFails(t) \/ LingerExpires(t) \/ LingerRecord(t) \/ WaitFails(t)
  BY <1>3 DEF ChildExits, DeadlineFires, StopReceived, LingerEmpty, LingerQueryFails, EnterDrain,
         LingerExpires, LingerRecord, WaitFails, RecordStopping, Proceed
<1>4. CASE BeginGraceful(t) \/ SignalGraceful(t) \/ GraceWorkerExits(t) \/ GraceTreeEmpty(t)
           \/ GraceExpires(t) \/ KillReceived(t)
  BY <1>4 DEF BeginGraceful, SignalGraceful, GraceWorkerExits, GraceTreeEmpty, EnterDrain,
         GraceExpires, KillReceived, RecordStopping, Proceed
<1>5. CASE BeginForce(t) \/ ForceTree(t) \/ ReapTree(t) \/ JoinReaders(t) \/ ReleasePermits(t)
  BY <1>5 DEF BeginForce, ForceTree, ReapTree, EnterDrain, JoinReaders, ReleasePermits,
         RecordStopping, Proceed
<1>6. CASE Publish(t) \/ AbortRun(t) \/ PublishError(t) \/ MarkFinished(t)
  BY <1>6 DEF Publish, AbortRun, PublishError, MarkFinished, Proceed
<1> QED
  BY <1>1, <1>2, <1>3, <1>4, <1>5, <1>6 DEF ExecutorStep, ProgressStep

\* The execute handler preserves the shape of its task.
LEMMA HandlerShape ==
    ASSUME TypeOK, NEW t \in Tasks, ShapedAt(t), HandlerStep(t)
    PROVE  ShapedAt(t)'
<1> USE DEF TypeOK, ShapedAt, Shape, Consistent, Permitless, HandlerPoints, Unstopped, At,
        NoTaskYet, recordVars, outcomeVars, Statuses, FinishedStatuses
<1>1. CASE AcquireGlobal(t)
  BY <1>1 DEF AcquireGlobal
<1>2. CASE RejectGlobal(t)
  BY <1>2 DEF RejectGlobal
<1>3. CASE AcquireRoute(t)
  BY <1>3 DEF AcquireRoute
<1>4. CASE RejectRoute(t)
  BY <1>4 DEF RejectRoute
<1>5. CASE CreateTask(t)
  BY <1>5 DEF CreateTask
<1>6. CASE CreateFails(t)
  BY <1>6 DEF CreateFails
<1> QED
  BY <1>1, <1>2, <1>3, <1>4, <1>5, <1>6 DEF HandlerStep

\* run_task and start_task preserve the shape of their task.
LEMMA ExecutorShape ==
    ASSUME TypeOK, NEW t \in Tasks, ShapedAt(t), ChannelShaped, ExecutorStep(t)
    PROVE  ShapedAt(t)'
<1> USE DEF TypeOK, ShapedAt, Shape, ForcingShape, EndingShape, Consistent, Permitless,
        HandlerPoints, Unstopped, At, recordVars, outcomeVars, Statuses, FinishedStatuses,
        Terminations, NoTermination
<1>1. CASE SpawnWorker(t)
  BY <1>1 DEF SpawnWorker
<1>2. CASE SpawnFails(t)
  BY <1>2 DEF SpawnFails
<1>3. CASE InitWorker(t)
  BY <1>3 DEF InitWorker
<1>4. CASE InitFails(t)
  BY <1>4 DEF InitFails
<1>5. CASE MarkRunning(t)
  BY <1>5 DEF MarkRunning, Proceed
<1>6. CASE ChildExits(t)
  BY <1>6 DEF ChildExits
<1>7. CASE DeadlineFires(t)
  BY <1>7 DEF DeadlineFires
<1>8. CASE StopReceived(t)
  BY <1>8 DEF StopReceived, StopEntry, ChannelShaped
<1>9. CASE LingerEmpty(t)
  BY <1>9 DEF LingerEmpty, EnterDrain
<1>10. CASE LingerExpires(t)
  BY <1>10 DEF LingerExpires
<1>11. CASE LingerRecord(t)
  BY <1>11 DEF LingerRecord, Proceed, RecordStopping
<1>12. CASE BeginGraceful(t)
  BY <1>12 DEF BeginGraceful, Proceed, RecordStopping
<1>13. CASE SignalGraceful(t)
  BY <1>13 DEF SignalGraceful, Proceed
<1>14. CASE GraceWorkerExits(t)
  BY <1>14 DEF GraceWorkerExits
<1>15. CASE GraceTreeEmpty(t)
  BY <1>15 DEF GraceTreeEmpty, EnterDrain
<1>16. CASE GraceExpires(t)
  BY <1>16 DEF GraceExpires
<1>17. CASE KillReceived(t)
  BY <1>17 DEF KillReceived
<1>18. CASE BeginForce(t)
  BY <1>18 DEF BeginForce, Proceed, RecordStopping
<1>19. CASE ForceTree(t)
  BY <1>19 DEF ForceTree
<1>20. CASE ReapTree(t)
  BY <1>20 DEF ReapTree, EnterDrain
<1>21. CASE JoinReaders(t)
  BY <1>21 DEF JoinReaders
<1>22. CASE ReleasePermits(t)
  BY <1>22 DEF ReleasePermits
<1>23. CASE Publish(t)
  BY <1>23 DEF Publish, Proceed, FinalStatus
<1>24. CASE AbortRun(t)
  BY <1>24 DEF AbortRun
<1>25. CASE PublishError(t)
  BY <1>25 DEF PublishError
<1>26. CASE MarkFinished(t)
  BY <1>26 DEF MarkFinished
<1>27. CASE LingerQueryFails(t)
  BY <1>27 DEF LingerQueryFails, EnterDrain
<1>28. CASE WaitFails(t)
  BY <1>28 DEF WaitFails
<1> QED
  BY <1>1, <1>2, <1>3, <1>4, <1>5, <1>6, <1>7, <1>8, <1>9, <1>10, <1>11, <1>12, <1>13,
     <1>14, <1>15, <1>16, <1>17, <1>18, <1>19, <1>20, <1>21, <1>22, <1>23, <1>24, <1>25,
     <1>26, <1>27, <1>28 DEF ExecutorStep, ProgressStep

-----------------------------------------------------------------------------
(* The worker ends once.                                                      *)

\* A worker that has exited is no longer a process and its exit status stays.
LEMMA WorkerEndsOnce ==
    ASSUME TypeOK, WorkerGone, NEW t \in Tasks, WorkerStep(t) \/ EnvironmentStep(t),
           NEW u \in Tasks
    PROVE  /\ worker[u] = "exited" => worker'[u] = "exited" /\ workerOk'[u] = workerOk[u]
           /\ worker'[u] = "exited" => "worker" \notin procs'[u]
<1> USE DEF TypeOK, WorkerGone, treeVars, outcomeVars
<1>1. CASE WorkerStart(t) \/ WorkerNoticesExit(t) \/ WorkerForce(t)
  BY <1>1 DEF WorkerStart, WorkerNoticesExit, WorkerForce
<1>2. CASE WorkerStartFails(t) \/ WorkerExit(t) \/ WorkerGracefulFails(t) \/ WorkerCrash(t)
  BY <1>2 DEF WorkerStartFails, WorkerExit, WorkerGracefulFails, WorkerCrash, EndWorker
<1>3. ASSUME NEW kind \in DescKinds, ScriptForks(t, kind) \/ DescendantExits(t, kind)
      PROVE  /\ worker[u] = "exited" => worker'[u] = "exited" /\ workerOk'[u] = workerOk[u]
             /\ worker'[u] = "exited" => "worker" \notin procs'[u]
  <2>1. kind # "worker"
    BY DescKindsAssumption
  <2>2. CASE ScriptForks(t, kind)
    BY <2>1, <2>2 DEF ScriptForks
  <2>3. CASE DescendantExits(t, kind)
    BY <2>1, <2>3 DEF DescendantExits
  <2> QED
    BY <1>3, <2>2, <2>3
<1>4. ASSUME NEW code \in ScriptCodes, ScriptExits(t, code)
      PROVE  /\ worker[u] = "exited" => worker'[u] = "exited" /\ workerOk'[u] = workerOk[u]
             /\ worker'[u] = "exited" => "worker" \notin procs'[u]
  BY <1>4 DEF ScriptExits
<1>5. ASSUME NEW p \in Processes, DoomedDies(t, p)
      PROVE  /\ worker[u] = "exited" => worker'[u] = "exited" /\ workerOk'[u] = workerOk[u]
             /\ worker'[u] = "exited" => "worker" \notin procs'[u]
  <2>1. CASE p = "worker"
    BY <1>5, <2>1 DEF DoomedDies, EndWorker
  <2>2. CASE p # "worker"
    <3>1. /\ UNCHANGED <<worker, workerOk>>
          /\ procs' = [procs EXCEPT ![t] = procs[t] \ {p}]
      BY <1>5, <2>2 DEF DoomedDies
    <3> QED
      BY <3>1
  <2> QED
    BY <2>1, <2>2
<1>6. ASSUME NEW reason \in RequestReasons, RequestStop(t, reason)
      PROVE  UNCHANGED <<worker, procs, workerOk>>
  BY <1>6 DEF RequestStop
<1>7. ASSUME NEW s \in StreamSet, ReaderEof(t, s) \/ ReaderFails(t, s)
      PROVE  UNCHANGED <<worker, procs, workerOk>>
  BY <1>7 DEF ReaderEof, ReaderFails
<1> QED
  BY <1>1, <1>2, <1>3, <1>4, <1>5, <1>6, <1>7 DEF WorkerStep, EnvironmentStep

\* The executor moves past its select loop without a stop only when the worker
\* has exited.
LEMMA GoneAfterOwnStep ==
    ASSUME TypeOK, NEW t \in Tasks, ShapedAt(t), WorkerGone, HandlerStep(t) \/ ExecutorStep(t)
    PROVE  /\ worker'[t] = "exited" => "worker" \notin procs'[t]
           /\ \/ pc'[t] \in {"linger", "lingerforced"}
              \/ pc'[t] \in {"drain", "release", "publish"} /\ stopReason'[t] = "none"
              \/ status'[t] = "Succeeded"
              => worker'[t] = "exited"
<1> USE DEF TypeOK, WorkerGone, ShapedAt, Shape, At, recordVars, treeVars, outcomeVars
<1>1. CASE HandlerStep(t)
  BY <1>1 DEF HandlerStep, AcquireGlobal, RejectGlobal, AcquireRoute, RejectRoute, CreateTask,
         CreateFails, NoTaskYet
<1>2. CASE SpawnWorker(t) \/ SpawnFails(t) \/ InitWorker(t) \/ InitFails(t) \/ MarkRunning(t)
  BY <1>2 DEF SpawnWorker, SpawnFails, InitWorker, InitFails, MarkRunning, Proceed
<1>3. CASE ChildExits(t) \/ DeadlineFires(t) \/ StopReceived(t) \/ LingerEmpty(t)
           \/ LingerQueryFails(t) \/ LingerExpires(t) \/ LingerRecord(t) \/ WaitFails(t)
  BY <1>3 DEF ChildExits, DeadlineFires, StopReceived, StopEntry, LingerEmpty, LingerQueryFails,
         EnterDrain, LingerExpires, LingerRecord, WaitFails, RecordStopping, Proceed
<1>4. CASE BeginGraceful(t) \/ SignalGraceful(t) \/ GraceWorkerExits(t) \/ GraceTreeEmpty(t)
           \/ GraceExpires(t) \/ KillReceived(t)
  BY <1>4 DEF BeginGraceful, SignalGraceful, GraceWorkerExits, GraceTreeEmpty, EnterDrain,
         GraceExpires, KillReceived, RecordStopping, Proceed
<1>5. CASE BeginForce(t) \/ ForceTree(t) \/ ReapTree(t) \/ JoinReaders(t) \/ ReleasePermits(t)
  BY <1>5 DEF BeginForce, ForceTree, ReapTree, EnterDrain, JoinReaders, ReleasePermits,
         RecordStopping, Proceed
<1>6. CASE Publish(t) \/ AbortRun(t) \/ PublishError(t) \/ MarkFinished(t)
  BY <1>6 DEF Publish, FinalStatus, AbortRun, PublishError, MarkFinished, Proceed
<1> QED
  BY <1>1, <1>2, <1>3, <1>4, <1>5, <1>6 DEF ExecutorStep, ProgressStep

\* Nobody sends the reason that only a worker whose parent is gone would use.
LEMMA ChannelStep ==
    ASSUME TypeOK, ChannelShaped, Next
    PROVE  ChannelShaped'
<1>1. CASE \E t \in Tasks, reason \in RequestReasons : RequestStop(t, reason)
  BY <1>1, ReasonsAssumption DEF ChannelShaped, RequestStop, TypeOK
<1>2. CASE \E t \in Tasks, s \in StreamSet : ReaderFails(t, s)
  BY <1>2 DEF ChannelShaped, ReaderFails, TypeOK
<1>3. CASE UNCHANGED stop
  BY <1>3 DEF ChannelShaped
<1>4. ASSUME NEW t \in Tasks, HandlerStep(t)
      PROVE  UNCHANGED stop
  BY <1>4 DEF HandlerStep, AcquireGlobal, RejectGlobal, AcquireRoute, RejectRoute, CreateTask,
         CreateFails, NoTaskYet, recordVars
<1>5. ASSUME NEW t \in Tasks, ExecutorStep(t)
      PROVE  UNCHANGED stop
  BY <1>5 DEF ExecutorStep, ProgressStep, SpawnWorker, SpawnFails, InitWorker, InitFails, MarkRunning, ChildExits,
         DeadlineFires, StopReceived, LingerEmpty, LingerQueryFails, EnterDrain, LingerExpires, LingerRecord,
         WaitFails, BeginGraceful, SignalGraceful, GraceWorkerExits, GraceTreeEmpty, GraceExpires,
         KillReceived, BeginForce, ForceTree, ReapTree, JoinReaders, ReleasePermits, Publish,
         AbortRun, PublishError, MarkFinished, recordVars
<1>6. ASSUME NEW t \in Tasks, WorkerStep(t)
      PROVE  UNCHANGED stop
  BY <1>6 DEF WorkerStep, WorkerStart, WorkerStartFails, WorkerNoticesExit, WorkerExit, WorkerForce,
         WorkerGracefulFails, EndWorker, recordVars
<1>7. ASSUME NEW t \in Tasks, EnvironmentStep(t)
      PROVE  \/ \E reason \in RequestReasons : RequestStop(t, reason)
             \/ \E s \in StreamSet : ReaderFails(t, s)
             \/ UNCHANGED stop
  BY <1>7 DEF EnvironmentStep, ScriptForks, DescendantExits, ScriptExits, WorkerCrash, DoomedDies,
         ReaderEof, EndWorker, recordVars
<1>8. CASE Quiescent
  BY <1>3, <1>8 DEF Quiescent, vars, recordVars
<1> QED
  BY <1>1, <1>2, <1>3, <1>4, <1>5, <1>6, <1>7, <1>8 DEF Next

-----------------------------------------------------------------------------
(* The invariant is inductive.                                                *)

\* The initial state satisfies the invariant.
LEMMA InvInit == Init => IInv
<1> SUFFICES ASSUME Init PROVE IInv
  OBVIOUS
<1>1. TypeOK /\ Counted
  BY TypeInit
<1>2. Shaped
  BY DEF Init, Shaped, ShapedAt, Shape, Consistent, Permitless, HandlerPoints, Unstopped,
         Statuses, FinishedStatuses, NoTermination
<1>3. ChannelShaped /\ WorkerGone
  BY DEF Init, ChannelShaped, WorkerGone
<1> QED
  BY <1>1, <1>2, <1>3 DEF IInv

\* Every step preserves the invariant.
LEMMA InvStep ==
    ASSUME IInv, [Next]_vars
    PROVE  IInv'
<1>1. TypeOK' /\ Counted'
  BY TypeStep DEF IInv
<1>2. ASSUME NEW t \in Tasks, HandlerStep(t) \/ ExecutorStep(t)
      PROVE  Shaped' /\ WorkerGone'
  <2>1. ASSUME NEW u \in Tasks, u # t
        PROVE  /\ pc'[u] = pc[u] /\ permits'[u] = permits[u] /\ stopReason'[u] = stopReason[u]
               /\ status'[u] = status[u] /\ term'[u] = term[u] /\ workerOk'[u] = workerOk[u]
               /\ worker'[u] = worker[u] /\ procs'[u] = procs[u]
    BY <1>2, <2>1, OnlyOwnTask DEF IInv
  <2>2. ShapedAt(t)'
    BY <1>2, HandlerShape, ExecutorShape DEF IInv, Shaped
  <2>3. Shaped'
    BY <2>1, <2>2 DEF IInv, Shaped, ShapedAt
  <2>4. WorkerGone'
    BY <1>2, <2>1, GoneAfterOwnStep DEF IInv, Shaped, WorkerGone
  <2> QED
    BY <2>3, <2>4
<1>3. ASSUME NEW t \in Tasks, WorkerStep(t) \/ EnvironmentStep(t)
      PROVE  Shaped' /\ WorkerGone'
  <2>1. UNCHANGED <<pc, permits, stopReason, status, term>>
    BY <1>3, OthersStill
  <2>2. ASSUME NEW u \in Tasks
        PROVE  /\ worker[u] = "exited" => worker'[u] = "exited" /\ workerOk'[u] = workerOk[u]
               /\ worker'[u] = "exited" => "worker" \notin procs'[u]
    BY <1>3, WorkerEndsOnce DEF IInv
  <2>3. WorkerGone'
    BY <2>1, <2>2 DEF IInv, WorkerGone
  <2>4. Shaped'
    BY <2>1, <2>2 DEF IInv, WorkerGone, Shaped, ShapedAt, Consistent
  <2> QED
    BY <2>3, <2>4
<1>4. CASE Quiescent \/ UNCHANGED vars
  BY <1>1, <1>4 DEF Quiescent, vars, executorVars, recordVars, treeVars, outcomeVars, IInv, Shaped,
         ShapedAt, ChannelShaped, WorkerGone
<1> QED
  BY <1>1, <1>2, <1>3, <1>4, ChannelStep DEF IInv, Next

\* Control points, permits, reasons, statuses, terminations and the counter of
\* active tasks agree in every reachable state of the executor.
THEOREM InductiveInvariant == Spec => []IInv
<1>1. IInv /\ [Next]_vars => IInv'
  BY InvStep
<1> QED
  BY InvInit, <1>1, PTL DEF Spec

-----------------------------------------------------------------------------
(* What clients and the service rely on.                                      *)

\* A task whose terminal status is visible holds no concurrency permit, on the
\* regular and on every error path of run_task, and neither does a refused
\* request, whichever limit refused it.
THEOREM FinishedReleasesPermitsHolds == Spec => []FinishedReleasesPermits
<1>1. IInv => FinishedReleasesPermits
  BY DEF IInv, Shaped, ShapedAt, Shape, Permitless, FinishedReleasesPermits, Finished
<1> QED
  BY <1>1, InductiveInvariant, PTL

\* The published status and the recorded termination always agree: killed
\* means killed by force, succeeded means never stopped and a worker that
\* reported success.
THEOREM StatusMatchesTerminationHolds == Spec => []StatusMatchesTermination
<1>1. IInv => StatusMatchesTermination
  BY DEF IInv, Shaped, ShapedAt, Shape, Consistent, StatusMatchesTermination
<1> QED
  BY <1>1, InductiveInvariant, PTL

\* A zero counter, which ends wait_until_idle, means that every task created
\* has published its terminal status and returned its permits.
THEOREM IdleMeansFinishedHolds == Spec => []IdleMeansFinished
<1>1. IInv => IdleMeansFinished
  <2> SUFFICES ASSUME IInv, active = 0, NEW t \in Tasks, status[t] # "Absent"
               PROVE  Finished(t) /\ permits[t] = {}
    BY DEF IdleMeansFinished
  <2>1. IsFiniteSet(Executing)
    BY TasksAssumption, FS_Subset DEF Executing
  <2>2. Executing = {}
    BY <2>1, FS_EmptySet DEF IInv, Counted
  <2>3. pc[t] \notin ExecutorPoints
    BY <2>2 DEF Executing
  <2>4. pc[t] = "done"
    BY <2>3 DEF IInv, TypeOK, Shaped, ShapedAt, Shape
  <2> QED
    BY <2>4 DEF IInv, Shaped, ShapedAt, Shape, Finished
<1> QED
  BY <1>1, InductiveInvariant, PTL

\* No step changes a terminal status or the termination recorded with it.
THEOREM TerminalIsFinalHolds == Spec => TerminalIsFinal
<1> DEFINE Kept == \A t \in Tasks : Finished(t) => status'[t] = status[t] /\ term'[t] = term[t]
<1>1. IInv /\ [Next]_vars => [Kept]_vars
  <2> SUFFICES ASSUME IInv, Next PROVE Kept
    OBVIOUS
  <2> SUFFICES ASSUME NEW u \in Tasks, Finished(u)
               PROVE  status'[u] = status[u] /\ term'[u] = term[u]
    OBVIOUS
  <2>1. pc[u] \in {"err", "errpublish", "mark", "done"}
    BY DEF IInv, Shaped, ShapedAt, Shape, Finished
  <2>2. ASSUME HandlerStep(u) \/ ExecutorStep(u)
        PROVE  status'[u] = status[u] /\ term'[u] = term[u]
    <3>1. AbortRun(u) \/ PublishError(u) \/ MarkFinished(u)
      BY <2>1, <2>2 DEF HandlerStep, ExecutorStep, ProgressStep, AcquireGlobal, RejectGlobal, AcquireRoute, RejectRoute,
             CreateTask, CreateFails, SpawnWorker, SpawnFails, InitWorker, InitFails, MarkRunning,
             ChildExits, DeadlineFires, StopReceived, LingerEmpty, LingerQueryFails, LingerExpires, LingerRecord,
             WaitFails, BeginGraceful, SignalGraceful, GraceWorkerExits, GraceTreeEmpty, GraceExpires,
             KillReceived, BeginForce, ForceTree, ReapTree, JoinReaders, ReleasePermits, Publish, At
    <3> QED
      BY <3>1 DEF AbortRun, PublishError, MarkFinished, recordVars, Finished, IInv, TypeOK
  <2>3. ASSUME NEW t \in Tasks, t # u, HandlerStep(t) \/ ExecutorStep(t)
        PROVE  status'[u] = status[u] /\ term'[u] = term[u]
    BY <2>3, OnlyOwnTask DEF IInv
  <2>4. ASSUME NEW t \in Tasks, WorkerStep(t) \/ EnvironmentStep(t)
        PROVE  status'[u] = status[u] /\ term'[u] = term[u]
    BY <2>4, OthersStill
  <2>5. CASE Quiescent
    BY <2>5 DEF Quiescent, vars, recordVars
  <2> QED
    BY <2>2, <2>3, <2>4, <2>5 DEF Next
<1> QED
  BY <1>1, InductiveInvariant, PTL DEF Spec, TerminalIsFinal

-----------------------------------------------------------------------------
(* The executor implements the contract.  Most steps change nothing a client  *)
(* sees; the others are one step of the contract each.                        *)

\* Changing the permits of a task changes whether that task holds a slot.
LEMMA HeldUpdate ==
    ASSUME TypeOK, NEW t \in Tasks, NEW S, permits' = [permits EXCEPT ![t] = S]
    PROVE  Held' = [Held EXCEPT ![t] = (S # {})]
<1>1. \A u \in Tasks : permits'[u] = IF u = t THEN S ELSE permits[u]
  BY DEF TypeOK
<1>2. \A u \in Tasks : (permits'[u] # {}) = [Held EXCEPT ![t] = (S # {})][u]
  BY <1>1 DEF Held
<1> QED
  BY <1>2 DEF Held

\* Steps a client cannot see.
LEMMA Unseen ==
    ASSUME NEW t \in Tasks, UNCHANGED <<status, term, permits>>
    PROVE  UNCHANGED Contract!contractVars
BY DEF Contract!contractVars, Held

\* Steps of the handler and the executor that a client cannot see.
LEMMA UnseenSteps ==
    ASSUME NEW t \in Tasks,
           \/ RejectGlobal(t) \/ SpawnWorker(t) \/ SpawnFails(t) \/ InitWorker(t) \/ InitFails(t)
           \/ ChildExits(t) \/ DeadlineFires(t) \/ StopReceived(t) \/ LingerEmpty(t) \/ LingerExpires(t)
           \/ LingerQueryFails(t) \/ WaitFails(t) \/ SignalGraceful(t) \/ GraceWorkerExits(t) \/ GraceTreeEmpty(t) \/ GraceExpires(t)
           \/ KillReceived(t) \/ ForceTree(t) \/ ReapTree(t) \/ JoinReaders(t) \/ MarkFinished(t)
    PROVE  UNCHANGED Contract!contractVars
<1>1. UNCHANGED <<status, term, permits>>
  BY DEF RejectGlobal, NoTaskYet, SpawnWorker, SpawnFails, InitWorker, InitFails, ChildExits,
         DeadlineFires, StopReceived, LingerEmpty, EnterDrain, LingerExpires, LingerQueryFails,
         WaitFails, SignalGraceful,
         GraceWorkerExits, GraceTreeEmpty, GraceExpires, KillReceived, ForceTree, ReapTree,
         JoinReaders, MarkFinished, recordVars
<1> QED
  BY <1>1, Unseen

\* Every step of the execute handler is a step of the contract or unseen.
LEMMA HandlerContract ==
    ASSUME IInv, NEW t \in Tasks, HandlerStep(t)
    PROVE  Contract!Next \/ UNCHANGED Contract!contractVars
<1> USE DEF IInv, Shaped, ShapedAt, Shape, Permitless, HandlerPoints, At, recordVars
<1>1. CASE AcquireGlobal(t)
  <2>1. Held' = [Held EXCEPT ![t] = TRUE] /\ ~Held[t]
    BY <1>1, HeldUpdate DEF AcquireGlobal, Held
  <2>2. Contract!Admit(t)
    BY <1>1, <2>1 DEF Contract!Admit, AcquireGlobal, NoTaskYet
  <2> QED
    BY <2>2 DEF Contract!Next
<1>2. CASE AcquireRoute(t)
  <2>1. Held' = [Held EXCEPT ![t] = TRUE] /\ Held[t]
    BY <1>2, HeldUpdate DEF AcquireRoute, Held
  <2>2. Held' = Held
    BY <2>1 DEF Held
  <2> QED
    BY <1>2, <2>2 DEF AcquireRoute, NoTaskYet, Contract!contractVars
<1>3. CASE RejectRoute(t) \/ CreateFails(t)
  <2>1. Held' = [Held EXCEPT ![t] = FALSE] /\ Held[t]
    BY <1>3, HeldUpdate DEF RejectRoute, CreateFails, Held
  <2>2. Contract!Release(t)
    BY <1>3, <2>1 DEF Contract!Release, Contract!FinishedStatuses, Contract!Statuses,
           RejectRoute, CreateFails, NoTaskYet
  <2> QED
    BY <2>2 DEF Contract!Next
<1>4. CASE CreateTask(t)
  <2>1. Held' = Held /\ Held[t]
    BY <1>4 DEF CreateTask, Held
  <2>2. Contract!Create(t)
    BY <1>4, <2>1 DEF Contract!Create, CreateTask
  <2> QED
    BY <2>2 DEF Contract!Next
<1> QED
  BY <1>1, <1>2, <1>3, <1>4, UnseenSteps DEF HandlerStep

\* Recording a first stop.
LEMMA FirstStop ==
    ASSUME IInv, NEW t \in Tasks, NEW r \in StopReasons, NEW g \in BOOLEAN, NEW f \in BOOLEAN,
           status[t] = "Running", permits[t] # {}, UNCHANGED permits, RecordStopping(t, r, g, f),
           g # f, f => r \in {"ForceKilled", "Timeout"}
    PROVE  Contract!Next
<1> DEFINE new == [reason |-> r, graceful |-> g, forced |-> f]
<1>1. new \in Contract!Terminations
  BY DEF Contract!Terminations, Contract!StopReasons, StopReasons
<1>2. Held' = Held /\ Held[t]
  BY DEF Held
<1>3. r # "none"
  BY DEF StopReasons
<1>4. Contract!Stop(t, new)
  BY <1>2, <1>3 DEF Contract!Stop, RecordStopping
<1> QED
  BY <1>1, <1>4 DEF Contract!Next

\* Every step of the executor is a step of the contract or unseen.
LEMMA ExecutorContract ==
    ASSUME IInv, NEW t \in Tasks, ExecutorStep(t)
    PROVE  Contract!Next \/ UNCHANGED Contract!contractVars
<1>0. TypeOK /\ Shape(pc[t], permits[t] # {}, stopReason[t], status[t], term[t])
  BY DEF IInv, Shaped, ShapedAt
<1>1. CASE MarkRunning(t)
  <2>1. Held' = Held /\ Held[t] /\ status[t] = "Starting"
    BY <1>0, <1>1 DEF MarkRunning, At, Shape, Permitless, Held
  <2>2. Contract!Run(t)
    BY <1>1, <2>1 DEF Contract!Run, MarkRunning
  <2> QED
    BY <2>2 DEF Contract!Next
<1>2. CASE LingerRecord(t)
  <2>1. status[t] = "Running" /\ permits[t] # {}
    BY <1>0, <1>2 DEF LingerRecord, At, Shape, Permitless, Unstopped
  <2>2. "Timeout" \in StopReasons
    BY DEF StopReasons
  <2> QED
    BY <1>2, <2>1, <2>2, FirstStop DEF LingerRecord
<1>3. CASE BeginGraceful(t)
  <2>1. status[t] = "Running" /\ permits[t] # {} /\ stopReason[t] # "none"
    BY <1>0, <1>3 DEF BeginGraceful, At, Shape, Permitless, Unstopped
  <2>2. stopReason[t] \in StopReasons
    BY <1>0, <2>1 DEF TypeOK
  <2> QED
    BY <1>3, <2>1, <2>2, FirstStop DEF BeginGraceful
<1>4. CASE BeginForce(t)
  <2>1. permits[t] # {} /\ ForcingShape(stopReason[t], status[t], term[t])
    BY <1>0, <1>4 DEF BeginForce, At, Shape, Permitless
  <2>2. CASE status[t] = "Running" /\ term[t] = NoTermination /\ stopReason[t] = "ForceKilled"
    <3>1. "ForceKilled" \in StopReasons /\ term[t].graceful = FALSE
      BY <2>2 DEF StopReasons, NoTermination
    <3> QED
      BY <1>4, <2>1, <2>2, <3>1, FirstStop DEF BeginForce
  <2>3. CASE /\ status[t] = "Stopping" /\ term[t].graceful /\ ~term[t].forced
             /\ term[t].reason # "none" /\ stopReason[t] \in {term[t].reason, "ForceKilled"}
    <3> DEFINE new == [reason |-> stopReason[t], graceful |-> term[t].graceful, forced |-> TRUE]
    <3>1. term[t] \in Terminations /\ stopReason[t] \in StopReasons \cup {"none"}
      BY <1>0 DEF TypeOK
    <3>2. new \in Contract!Terminations
      BY <3>1 DEF Terminations, StopReasons, Contract!Terminations, Contract!StopReasons
    <3>3. Held' = Held /\ Held[t]
      BY <1>4, <2>1 DEF BeginForce, Held
    <3>4. status' = status /\ term' = [term EXCEPT ![t] = new]
      BY <1>0, <1>4, <2>3 DEF BeginForce, RecordStopping, TypeOK
    <3>5. Contract!Escalate(t, new)
      BY <2>3, <3>3, <3>4 DEF Contract!Escalate, Contract!Harsher
    <3> QED
      BY <3>2, <3>5 DEF Contract!Next
  <2> QED
    BY <2>1, <2>2, <2>3 DEF ForcingShape
<1>5. CASE ReleasePermits(t)
  <2>1. Held' = [Held EXCEPT ![t] = FALSE] /\ Held[t] /\ status[t] \in ActiveStatuses
    BY <1>0, <1>5, HeldUpdate
       DEF ReleasePermits, At, Shape, Permitless, EndingShape, Held, ActiveStatuses, Statuses, FinishedStatuses
  <2>2. Contract!Release(t)
    BY <1>5, <2>1 DEF ReleasePermits, recordVars, Contract!Release, Contract!FinishedStatuses,
           Contract!Statuses, ActiveStatuses, Statuses, FinishedStatuses
  <2> QED
    BY <2>2 DEF Contract!Next
<1>6. CASE Publish(t)
  <2> DEFINE final == FinalStatus(stopReason[t], workerOk[t])
  <2>1. Held' = Held /\ ~Held[t]
    BY <1>0, <1>6 DEF Publish, At, Shape, Permitless, Held
  <2>2. EndingShape(stopReason[t], status[t], term[t]) /\ stopReason[t] # "ParentExited"
    BY <1>0, <1>6 DEF Publish, At, Shape
  <2>3. final \in Contract!Outcomes(term[t])
    BY <1>0, <2>2 DEF TypeOK, EndingShape, FinalStatus, StopReasons, NoTermination, Contract!Outcomes
  <2>4. final \in Contract!FinishedStatuses
    BY DEF FinalStatus, Contract!FinishedStatuses, Contract!Statuses
  <2>5. status[t] \in Contract!ActiveStatuses
    BY <2>2 DEF EndingShape, Contract!ActiveStatuses, Contract!FinishedStatuses, Contract!Statuses
  <2>6. Contract!Finish(t, final)
    BY <1>6, <2>1, <2>3, <2>5 DEF Publish, Contract!Finish
  <2> QED
    BY <2>4, <2>6 DEF Contract!Next
<1>7. CASE AbortRun(t)
  <2>1. Held' = [Held EXCEPT ![t] = FALSE] /\ UNCHANGED <<status, term>>
    BY <1>0, <1>7, HeldUpdate DEF AbortRun, recordVars
  <2>2. CASE Held[t]
    <3>1. status[t] \notin Contract!FinishedStatuses
      BY <1>0, <2>2 DEF Shape, Held, Contract!FinishedStatuses, Contract!Statuses, FinishedStatuses, Statuses
    <3>2. Contract!Release(t)
      BY <2>1, <2>2, <3>1 DEF Contract!Release
    <3> QED
      BY <3>2 DEF Contract!Next
  <2>3. CASE ~Held[t]
    <3>1. Held' = Held
      BY <2>1, <2>3 DEF Held
    <3> QED
      BY <2>1, <3>1 DEF Contract!contractVars
  <2> QED
    BY <2>2, <2>3
<1>8. CASE PublishError(t)
  <2>1. Held' = Held /\ ~Held[t] /\ term' = term
    BY <1>0, <1>8 DEF PublishError, At, Shape, Permitless, Held
  <2>2. CASE status[t] \in FinishedStatuses
    <3>1. status' = status
      BY <1>0, <1>8, <2>2 DEF PublishError, TypeOK
    <3> QED
      BY <2>1, <3>1 DEF Contract!contractVars
  <2>3. CASE status[t] \notin FinishedStatuses
    <3>1. status' = [status EXCEPT ![t] = "Failed"]
      BY <1>8, <2>3 DEF PublishError
    <3>2. status[t] \in Contract!ActiveStatuses
      BY <1>0, <1>8, <2>3 DEF PublishError, At, TypeOK, Shape, HandlerPoints, Statuses, FinishedStatuses,
             Contract!ActiveStatuses, Contract!FinishedStatuses, Contract!Statuses
    <3>3. "Failed" \in Contract!Outcomes(term[t])
      BY <1>0 DEF Contract!Outcomes
    <3>4. Contract!Finish(t, "Failed") /\ "Failed" \in Contract!FinishedStatuses
      BY <2>1, <3>1, <3>2, <3>3 DEF Contract!Finish, Contract!FinishedStatuses, Contract!Statuses
    <3> QED
      BY <3>4 DEF Contract!Next
  <2> QED
    BY <2>2, <2>3
<1> QED
  BY <1>1, <1>2, <1>3, <1>4, <1>5, <1>6, <1>7, <1>8, UnseenSteps DEF ExecutorStep, ProgressStep

\* The executor, its error path included, gives clients what TaskContract
\* promises: a status that only advances, a termination that only becomes
\* harsher, and a slot that is free before the terminal status is visible.
THEOREM ExecutorImplementsContract == Spec => ImplementsContract
<1>1. Init => Contract!Init
  <2> SUFFICES ASSUME Init PROVE Contract!Init
    OBVIOUS
  <2>1. Held = [t \in Tasks |-> FALSE]
    BY DEF Init, Held
  <2> QED
    BY <2>1 DEF Init, Contract!Init, NoTermination, Contract!NoTermination
<1>2. IInv /\ [Next]_vars => [Contract!Next]_(Contract!contractVars)
  <2> SUFFICES ASSUME IInv, [Next]_vars
               PROVE  Contract!Next \/ UNCHANGED Contract!contractVars
    OBVIOUS
  <2>1. ASSUME NEW t \in Tasks, WorkerStep(t) \/ EnvironmentStep(t)
        PROVE  UNCHANGED Contract!contractVars
    BY <2>1, OthersStill, Unseen
  <2>2. CASE Quiescent \/ UNCHANGED vars
    BY <2>2 DEF Quiescent, vars, executorVars, recordVars, Contract!contractVars, Held
  <2> QED
    BY <2>1, <2>2, HandlerContract, ExecutorContract DEF Next
<1> QED
  BY <1>1, <1>2, InductiveInvariant, PTL DEF Spec, ImplementsContract, Contract!Spec

-----------------------------------------------------------------------------
(* Records and control points only move forward.                              *)

\* How far a record has come: a stop is recorded once as it begins and once
\* more when it turns to force.
RecordRank(st, tm) ==
    IF st = "Absent" THEN 0
    ELSE IF st = "Starting" THEN 1
    ELSE IF st = "Running" THEN 2
    ELSE IF st = "Stopping" THEN IF tm.forced THEN 4 ELSE 3
    ELSE 5

\* A record that is written has come further.
Advances(t) ==
    \/ status'[t] = status[t] /\ term'[t] = term[t]
    \/ RecordRank(status[t], term[t]) < RecordRank(status'[t], term'[t])

\* A snapshot only ever moves forward, so that a task's record is written at
\* most five times after it was created: what TaskStore takes for granted of the
\* executors that write its files (Successors).
RecordsAdvance == [][\A t \in Tasks : Advances(t)]_vars

\* Each step of the contract moves the record of one task forward.
LEMMA ContractAdvances ==
    ASSUME TypeOK, Contract!Next \/ UNCHANGED Contract!contractVars
    PROVE  \A u \in Tasks : Advances(u)
<1> USE DEF TypeOK, Advances
<1>1. CASE UNCHANGED Contract!contractVars
  BY <1>1 DEF Contract!contractVars
<1>2. ASSUME NEW t \in Tasks, Contract!Admit(t) \/ Contract!Release(t)
      PROVE  \A u \in Tasks : Advances(u)
  BY <1>2 DEF Contract!Admit, Contract!Release
<1>3. ASSUME NEW t \in Tasks, Contract!Create(t) \/ Contract!Run(t)
      PROVE  \A u \in Tasks : Advances(u)
  BY <1>3 DEF Contract!Create, Contract!Run, RecordRank
<1>4. ASSUME NEW t \in Tasks, NEW new \in Contract!Terminations, Contract!Stop(t, new)
      PROVE  \A u \in Tasks : Advances(u)
  BY <1>4 DEF Contract!Stop, RecordRank
<1>5. ASSUME NEW t \in Tasks, NEW new \in Contract!Terminations, Contract!Escalate(t, new)
      PROVE  \A u \in Tasks : Advances(u)
  BY <1>5 DEF Contract!Escalate, Contract!Harsher, RecordRank
<1>6. ASSUME NEW t \in Tasks, NEW s \in Contract!FinishedStatuses, Contract!Finish(t, s)
      PROVE  \A u \in Tasks : Advances(u)
  BY <1>6 DEF Contract!Finish, RecordRank, Contract!ActiveStatuses, Contract!FinishedStatuses, Contract!Statuses
<1> QED
  BY <1>1, <1>2, <1>3, <1>4, <1>5, <1>6 DEF Contract!Next

\* No transition of start_task or run_task, and none of a stop request that
\* overtakes another, takes a record back.
THEOREM RecordsAdvanceHolds == Spec => RecordsAdvance
<1>1. IInv /\ [Next]_vars => [\A t \in Tasks : Advances(t)]_vars
  <2> SUFFICES ASSUME IInv, Next PROVE \A t \in Tasks : Advances(t)
    OBVIOUS
  <2>1. TypeOK
    BY DEF IInv
  <2>2. ASSUME NEW t \in Tasks, HandlerStep(t) \/ ExecutorStep(t)
        PROVE  \A u \in Tasks : Advances(u)
    BY <2>1, <2>2, HandlerContract, ExecutorContract, ContractAdvances
  <2>3. ASSUME NEW t \in Tasks, WorkerStep(t) \/ EnvironmentStep(t)
        PROVE  \A u \in Tasks : Advances(u)
    BY <2>3, OthersStill DEF Advances
  <2>4. CASE Quiescent
    BY <2>4 DEF Quiescent, vars, recordVars, Advances
  <2> QED
    BY <2>2, <2>3, <2>4 DEF Next
<1> QED
  BY <1>1, InductiveInvariant, PTL DEF Spec, RecordsAdvance

\* How far the handler and the executor of a request have come.
Depth(p) ==
    CASE p = "request" -> 0
      [] p = "global" -> 1
      [] p = "creating" -> 2
      [] p \in {"rejected", "spawned"} -> 3
      [] p = "started" -> 4
      [] p = "init" -> 5
      [] p = "select" -> 6
      [] p \in {"stopping", "linger"} -> 7
      [] p \in {"signal", "lingerforced"} -> 8
      [] p = "grace1" -> 9
      [] p = "grace2" -> 10
      [] p = "forcing" -> 11
      [] p = "kill" -> 12
      [] p = "reap" -> 13
      [] p = "drain" -> 14
      [] p = "release" -> 15
      [] p = "publish" -> 16
      [] p = "err" -> 17
      [] p = "errpublish" -> 18
      [] p = "mark" -> 19
      [] p = "done" -> 20

\* Every step of a request's handler or executor brings it further, and no other
\* step moves it: the code after the admission has no loop, waits included, and
\* a request is through after at most twenty steps.
ControlAdvances ==
    [][\A t \in Tasks :
          IF HandlerStep(t) \/ ExecutorStep(t)
          THEN Depth(pc[t]) < Depth(pc'[t])
          ELSE pc'[t] = pc[t]]_vars

\* The depths that the steps compare.
LEMMA Depths ==
    /\ Depth("request") = 0 /\ Depth("global") = 1 /\ Depth("creating") = 2 /\ Depth("rejected") = 3
    /\ Depth("spawned") = 3 /\ Depth("started") = 4 /\ Depth("init") = 5 /\ Depth("select") = 6
    /\ Depth("stopping") = 7 /\ Depth("linger") = 7 /\ Depth("signal") = 8 /\ Depth("lingerforced") = 8
    /\ Depth("grace1") = 9 /\ Depth("grace2") = 10 /\ Depth("forcing") = 11 /\ Depth("kill") = 12
    /\ Depth("reap") = 13 /\ Depth("drain") = 14 /\ Depth("release") = 15 /\ Depth("publish") = 16
    /\ Depth("err") = 17 /\ Depth("errpublish") = 18 /\ Depth("mark") = 19 /\ Depth("done") = 20
BY DEF Depth

\* A step of the handler or of the executor.
LEMMA DepthStep ==
    ASSUME TypeOK, NEW t \in Tasks, HandlerStep(t) \/ ExecutorStep(t)
    PROVE  Depth(pc[t]) < Depth(pc'[t])
<1>0. t \in DOMAIN pc
  BY DEF TypeOK
<1> USE DEF At
<1>1. CASE HandlerStep(t)
  BY <1>0, <1>1, Depths DEF HandlerStep, AcquireGlobal, RejectGlobal, AcquireRoute, RejectRoute, CreateTask,
         CreateFails
<1>2. CASE SpawnWorker(t) \/ SpawnFails(t) \/ InitWorker(t) \/ InitFails(t) \/ MarkRunning(t)
  BY <1>0, <1>2, Depths DEF SpawnWorker, SpawnFails, InitWorker, InitFails, MarkRunning, Proceed
<1>3. CASE ChildExits(t)
  BY <1>0, <1>3, Depths DEF ChildExits
<1>4. CASE DeadlineFires(t)
  BY <1>0, <1>4, Depths DEF DeadlineFires
<1>5. CASE StopReceived(t)
  BY <1>0, <1>5, Depths DEF StopReceived, StopEntry
<1>6. CASE LingerEmpty(t)
  BY <1>0, <1>6, Depths DEF LingerEmpty, EnterDrain
<1>7. CASE LingerExpires(t)
  BY <1>0, <1>7, Depths DEF LingerExpires
<1>8. CASE LingerRecord(t)
  BY <1>0, <1>8, Depths DEF LingerRecord, Proceed
<1>9. CASE BeginGraceful(t)
  BY <1>0, <1>9, Depths DEF BeginGraceful, Proceed
<1>10. CASE SignalGraceful(t)
  BY <1>0, <1>10, Depths DEF SignalGraceful, Proceed
<1>11. CASE GraceWorkerExits(t)
  BY <1>0, <1>11, Depths DEF GraceWorkerExits
<1>12. CASE GraceTreeEmpty(t)
  BY <1>0, <1>12, Depths DEF GraceTreeEmpty, EnterDrain
<1>13. CASE GraceExpires(t)
  BY <1>0, <1>13, Depths DEF GraceExpires
<1>14. CASE KillReceived(t)
  BY <1>0, <1>14, Depths DEF KillReceived
<1>15. CASE BeginForce(t)
  BY <1>0, <1>15, Depths DEF BeginForce, Proceed
<1>16. CASE ForceTree(t)
  BY <1>0, <1>16, Depths DEF ForceTree
<1>17. CASE ReapTree(t)
  BY <1>0, <1>17, Depths DEF ReapTree, EnterDrain
<1>18. CASE JoinReaders(t)
  BY <1>0, <1>18, Depths DEF JoinReaders
<1>19. CASE ReleasePermits(t)
  BY <1>0, <1>19, Depths DEF ReleasePermits
<1>21. CASE LingerQueryFails(t)
  BY <1>0, <1>21, Depths DEF LingerQueryFails, EnterDrain
<1>22. CASE WaitFails(t)
  BY <1>0, <1>22, Depths DEF WaitFails
<1>20. CASE Publish(t) \/ AbortRun(t) \/ PublishError(t) \/ MarkFinished(t)
  BY <1>0, <1>20, Depths DEF Publish, AbortRun, PublishError, MarkFinished, Proceed
<1> QED
  BY <1>1, <1>2, <1>3, <1>4, <1>5, <1>6, <1>7, <1>8, <1>9, <1>10, <1>11, <1>12, <1>13,
     <1>14, <1>15, <1>16, <1>17, <1>18, <1>19, <1>20, <1>21, <1>22 DEF ExecutorStep, ProgressStep

\* The safety half of TaskTerminates: whatever fails and whoever asks, no path
\* of the handler and the executor returns to where it was.
THEOREM ControlAdvancesHolds == Spec => ControlAdvances
<1> DEFINE Further(t) == IF HandlerStep(t) \/ ExecutorStep(t)
                         THEN Depth(pc[t]) < Depth(pc'[t]) ELSE pc'[t] = pc[t]
<1>1. TypeOK /\ [Next]_vars => [\A t \in Tasks : Further(t)]_vars
  <2> SUFFICES ASSUME TypeOK, Next, NEW u \in Tasks, ~(HandlerStep(u) \/ ExecutorStep(u))
               PROVE  pc'[u] = pc[u]
    BY DepthStep
  <2>1. ASSUME NEW t \in Tasks, HandlerStep(t) \/ ExecutorStep(t)
        PROVE  pc'[u] = pc[u]
    BY <2>1, OnlyOwnTask
  <2>2. ASSUME NEW t \in Tasks, WorkerStep(t) \/ EnvironmentStep(t)
        PROVE  pc'[u] = pc[u]
    BY <2>2, OthersStill
  <2>3. CASE Quiescent
    BY <2>3 DEF Quiescent, vars, executorVars
  <2> QED
    BY <2>1, <2>2, <2>3 DEF Next
<1> QED
  BY <1>1, TypeCorrect, PTL DEF Spec, ControlAdvances

-----------------------------------------------------------------------------
(* A kill that was taken up is not lost.                                      *)

\* An accepted kill can be erased from the channel by a later request or by a
\* reader's LoggingFailure (KillSkipsGrace), but only until run_task has it in
\* hand: from then on, whatever is asked and whatever fails, it is not replaced
\* by a gentler reason, the task never sits in a grace period, and it ends as
\* killed or, if the executor fails, as failed.
KillTakenUpIsKept ==
    [][\A t \in Tasks :
          stopReason[t] = "ForceKilled" =>
              /\ stopReason'[t] = "ForceKilled"
              /\ pc'[t] \notin {"stopping", "signal", "grace1", "grace2"}
              /\ status'[t] \in FinishedStatuses => status'[t] \in {"Killed", "Failed"}]_vars

\* The executor's own steps keep a kill in hand.
LEMMA OwnStepKeepsKill ==
    ASSUME TypeOK, NEW t \in Tasks, ShapedAt(t), stopReason[t] = "ForceKilled",
           HandlerStep(t) \/ ExecutorStep(t)
    PROVE  stopReason'[t] = "ForceKilled"
<1> USE DEF TypeOK, ShapedAt, Shape, At, HandlerPoints
<1>1. CASE HandlerStep(t)
  BY <1>1 DEF HandlerStep, AcquireGlobal, RejectGlobal, AcquireRoute, RejectRoute, CreateTask,
         CreateFails, NoTaskYet
<1>2. CASE DeadlineFires(t) \/ StopReceived(t) \/ LingerExpires(t) \/ KillReceived(t)
  BY <1>2 DEF DeadlineFires, StopReceived, LingerExpires, KillReceived
<1>3. CASE SpawnWorker(t) \/ SpawnFails(t) \/ InitWorker(t) \/ InitFails(t) \/ MarkRunning(t)
           \/ ChildExits(t) \/ LingerEmpty(t) \/ LingerQueryFails(t) \/ LingerRecord(t) \/ WaitFails(t)
  BY <1>3 DEF SpawnWorker, SpawnFails, InitWorker, InitFails, MarkRunning, ChildExits, LingerEmpty,
         LingerQueryFails, EnterDrain, LingerRecord, WaitFails
<1>4. CASE BeginGraceful(t) \/ SignalGraceful(t) \/ GraceWorkerExits(t) \/ GraceTreeEmpty(t)
           \/ GraceExpires(t) \/ BeginForce(t) \/ ForceTree(t) \/ ReapTree(t)
  BY <1>4 DEF BeginGraceful, SignalGraceful, GraceWorkerExits, GraceTreeEmpty, EnterDrain,
         GraceExpires, BeginForce, ForceTree, ReapTree
<1>5. CASE JoinReaders(t) \/ ReleasePermits(t) \/ Publish(t) \/ AbortRun(t) \/ PublishError(t)
           \/ MarkFinished(t)
  BY <1>5 DEF JoinReaders, ReleasePermits, Publish, AbortRun, PublishError, MarkFinished
<1> QED
  BY <1>1, <1>2, <1>3, <1>4, <1>5 DEF ExecutorStep, ProgressStep

\* Requests of every kind, failing readers and failing system calls included, a
\* kill that run_task has in hand is carried out.
THEOREM KillTakenUpIsKeptHolds == Spec => KillTakenUpIsKept
<1> DEFINE Kept == \A t \in Tasks :
                     stopReason[t] = "ForceKilled" =>
                         /\ stopReason'[t] = "ForceKilled"
                         /\ pc'[t] \notin {"stopping", "signal", "grace1", "grace2"}
                         /\ status'[t] \in FinishedStatuses => status'[t] \in {"Killed", "Failed"}
<1>1. IInv /\ [Next]_vars => [Kept]_vars
  <2> SUFFICES ASSUME IInv, Next, NEW u \in Tasks, stopReason[u] = "ForceKilled"
               PROVE  /\ stopReason'[u] = "ForceKilled"
                      /\ pc'[u] \notin {"stopping", "signal", "grace1", "grace2"}
                      /\ status'[u] \in FinishedStatuses => status'[u] \in {"Killed", "Failed"}
    OBVIOUS
  <2>1. ShapedAt(u)'
    BY InvStep DEF IInv, Shaped
  <2>2. ASSUME NEW t \in Tasks, HandlerStep(t) \/ ExecutorStep(t)
        PROVE  stopReason'[u] = "ForceKilled"
    BY <2>2, OnlyOwnTask, OwnStepKeepsKill DEF IInv, Shaped
  <2>3. ASSUME NEW t \in Tasks, WorkerStep(t) \/ EnvironmentStep(t)
        PROVE  stopReason'[u] = "ForceKilled"
    BY <2>3, OthersStill
  <2>4. ASSUME Quiescent PROVE stopReason'[u] = "ForceKilled"
    BY <2>4 DEF Quiescent, vars, executorVars
  <2>5. stopReason'[u] = "ForceKilled"
    BY <2>2, <2>3, <2>4 DEF Next
  <2> QED
    BY <2>1, <2>5 DEF ShapedAt, Shape
<1> QED
  BY <1>1, InductiveInvariant, PTL DEF Spec, KillTakenUpIsKept
=============================================================================
