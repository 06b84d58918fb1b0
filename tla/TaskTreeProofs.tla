--------------------------- MODULE TaskTreeProofs ---------------------------
(* Proofs about the process trees of TaskExecutor: when a tree is killed,     *)
(* what is left of it when its task reports an end, and how many run at one   *)
(* time.  They build on the inductive invariant of TaskExecutorProofs.        *)

EXTENDS TaskExecutorProofs

-----------------------------------------------------------------------------
(* The inductive invariant of the trees, task by task.                        *)

\* The gentle request was sent, the executor is gone, or a client asked to kill.
Excused(t) == control[t] \in {"terminate", "closed"} \/ stopReason[t] = "ForceKilled"

Both == {"global", "route"}

\* The pipe to the worker follows the control point of the executor.
PipeInv(t) ==
    /\ pc[t] \in HandlerPoints \cup {"spawned"} => control[t] = "none"
    /\ pc[t] = "started" => control[t] = "unattached"
    /\ pc[t] \in {"init", "select", "linger", "lingerforced", "stopping", "signal"} => control[t] = "open"
    /\ pc[t] \in {"grace1", "grace2"} => control[t] = "terminate"
    /\ pc[t] \in {"forcing", "kill"} => control[t] \in {"open", "terminate"} /\ Excused(t)
    /\ pc[t] = "reap" => control[t] \in {"open", "terminate"}
    /\ pc[t] \in {"drain", "release", "publish"} => control[t] = "closed"
    /\ pc[t] = "err" => control[t] # "unsent" /\ (control[t] = "unattached" => "os" \in Failures)
    /\ pc[t] \in {"errpublish", "mark", "done"} => control[t] \in {"none", "unsent", "closed"}

\* What the place of the worker says of the processes under it.
TreeInv(t) ==
    /\ doomed[t] \subseteq procs[t]
    /\ control[t] = "none" => worker[t] = "none"
    /\ worker[t] = "none" => procs[t] = {} /\ control[t] = "none"
    /\ worker[t] = "init" => procs[t] = {"worker"}
    /\ worker[t] = "exited" => "worker" \notin procs[t]
    /\ worker[t] \in {"loop", "reap", "stuck"} => "worker" \in procs[t]
    /\ worker[t] = "reap" => "script" \notin procs[t]
    /\ control[t] \in {"unattached", "fresh", "unsent"} =>
           worker[t] \in {"init", "exited"} /\ procs[t] \subseteq {"worker"}

\* On Windows a worker killed from outside leaves the script to the deadline of
\* the job, which ends it without a gentle request.
GentleFirst == Platform = "unix" \/ "crash" \notin Failures

\* Script and worker are killed with an excuse, unless the worker had not
\* started a script, and a Windows worker leaves its script alive only with one.
ForceInv(t) ==
    /\ "worker" \in doomed[t] => Excused(t) \/ worker[t] = "init"
    /\ GentleFirst /\ "script" \in doomed[t] => Excused(t)
    /\ Platform = "windows" /\ GentleFirst /\ worker[t] = "exited" /\ "script" \in procs[t] => Excused(t)

\* The tree of this task was seen empty: a stopped task waits for a job that
\* answers, any other one may take a failed query for an empty tree.
Awaited(t) == stopReason[t] # "none" \/ "os" \notin Failures

\* On Windows an awaited tree is empty when the readers are joined, and every
\* tree is ended when the executor has dropped it; a worker left alone cannot
\* start the script any more.
EndInv(t) ==
    Platform = "windows" =>
        /\ pc[t] \in {"drain", "release", "publish"} /\ Awaited(t) => procs[t] = {}
        /\ pc[t] = "err" /\ Finished(t) /\ Awaited(t) => procs[t] = {}
        /\ pc[t] \in {"errpublish", "done"} \/ (pc[t] = "mark" /\ Awaited(t)) =>
               procs[t] \ {"worker"} \subseteq doomed[t]
        /\ pc[t] \in {"errpublish", "mark", "done"} /\ worker[t] = "init" =>
               control[t] = "unsent" \/ "worker" \in doomed[t]

\* On unix, when nothing fails and no descendant leaves the process group, what
\* outlives the worker has been killed with it.
GroupsHold == Platform = "unix" /\ Failures = {} /\ DescKinds \cap Daemons = {}

GroupInv(t) ==
    GroupsHold =>
        /\ pc[t] \notin {"err", "errpublish"}
        /\ \A s \in StreamSet : reader[t][s] # "failed"
        /\ pc[t] \in {"linger", "lingerforced", "grace2", "drain", "release", "publish"} => worker[t] = "exited"
        /\ worker[t] = "exited" \/ "worker" \in doomed[t] => procs[t] \subseteq doomed[t]

\* Where permits stand for processes: on unix under GroupsHold, on Windows when
\* a worker can always be attached to its job and the job can be queried.
PermitsCover == GroupsHold \/ (Platform = "windows" /\ "os" \notin Failures)

PermitInv(t) ==
    /\ pc[t] = "global" => permits[t] = {"global"}
    /\ pc[t] # "global" => permits[t] \in {{}, Both}
    /\ PermitsCover /\ ~(procs[t] \subseteq doomed[t]) => permits[t] = Both

TreesAt(t) ==
    PipeInv(t) /\ TreeInv(t) /\ ForceInv(t) /\ EndInv(t) /\ GroupInv(t) /\ PermitInv(t)

\* The semaphores are never overdrawn.
Limited ==
    /\ GlobalInUse <= MaxTotal
    /\ \A r \in Routes : RouteInUse(r) <= MaxRoute[r]

TreesInv == IInv /\ Limited /\ \A t \in Tasks : TreesAt(t)


-----------------------------------------------------------------------------
(* Steps of the other tasks.                                                  *)

\* A step of one task leaves the tree, the pipe, the readers, the exit codes and
\* the permits of every other task alone.
LEMMA Elsewhere ==
    ASSUME TypeOK, NEW t \in Tasks, NEW u \in Tasks, u # t,
           HandlerStep(t) \/ ExecutorStep(t) \/ WorkerStep(t) \/ EnvironmentStep(t)
    PROVE  /\ pc'[u] = pc[u] /\ permits'[u] = permits[u] /\ stopReason'[u] = stopReason[u]
           /\ status'[u] = status[u] /\ worker'[u] = worker[u] /\ procs'[u] = procs[u]
           /\ doomed'[u] = doomed[u] /\ control'[u] = control[u] /\ reader'[u] = reader[u]
           /\ scriptCode'[u] = scriptCode[u] /\ workerOk'[u] = workerOk[u]
<1> USE DEF TypeOK, executorVars, recordVars, treeVars, outcomeVars
<1>1. CASE HandlerStep(t)
  BY <1>1 DEF HandlerStep, AcquireGlobal, RejectGlobal, AcquireRoute, RejectRoute, CreateTask,
         CreateFails, NoTaskYet
<1>2. CASE SpawnWorker(t) \/ SpawnFails(t) \/ InitWorker(t) \/ InitFails(t) \/ MarkRunning(t)
  BY <1>2 DEF SpawnWorker, SpawnFails, InitWorker, InitFails, MarkRunning, Proceed
<1>3. CASE ChildExits(t) \/ DeadlineFires(t) \/ StopReceived(t) \/ LingerEmpty(t)
           \/ LingerQueryFails(t) \/ LingerExpires(t) \/ LingerRecord(t) \/ WaitFails(t)
  BY <1>3 DEF ChildExits, DeadlineFires, StopReceived, LingerEmpty, LingerQueryFails, EnterDrain,
         LingerExpires, LingerRecord, WaitFails, RecordStopping, Proceed
<1>4. CASE BeginGraceful(t) \/ SignalGraceful(t) \/ GraceWorkerExits(t) \/ GraceTreeEmpty(t)
           \/ GraceExpires(t) \/ KillReceived(t)
  BY <1>4 DEF BeginGraceful, SignalGraceful, GraceWorkerExits, GraceTreeEmpty, EnterDrain,
         GraceExpires, KillReceived, RecordStopping, Proceed
<1>5. CASE BeginForce(t) \/ ForceTree(t) \/ ReapTree(t) \/ JoinReaders(t) \/ ReleasePermits(t)
  BY <1>5 DEF BeginForce, ForceTree, ReapTree, EnterDrain, JoinReaders, ReleasePermits,
         RecordStopping, Proceed
<1>6. CASE Publish(t) \/ AbortRun(t) \/ PublishError(t) \/ MarkFinished(t)
  BY <1>6 DEF Publish, AbortRun, PublishError, MarkFinished, Proceed
<1>7. CASE WorkerStep(t)
  BY <1>7 DEF WorkerStep, WorkerStart, WorkerStartFails, WorkerNoticesExit, WorkerExit, WorkerForce,
         WorkerGracefulFails, EndWorker
<1>8. CASE EnvironmentStep(t)
  BY <1>8 DEF EnvironmentStep, RequestStop, ScriptForks, DescendantExits, ScriptExits, WorkerCrash,
         DoomedDies, ReaderEof, ReaderFails, EndWorker
<1> QED
  BY <1>1, <1>2, <1>3, <1>4, <1>5, <1>6, <1>7, <1>8 DEF ExecutorStep, ProgressStep

\* So the invariant of every other task stays.
LEMMA ElsewhereTrees ==
    ASSUME TypeOK, NEW t \in Tasks, NEW u \in Tasks, u # t, TreesAt(u),
           HandlerStep(t) \/ ExecutorStep(t) \/ WorkerStep(t) \/ EnvironmentStep(t)
    PROVE  TreesAt(u)'
BY Elsewhere DEF TreesAt, PipeInv, TreeInv, ForceInv, EndInv, Awaited, GroupInv, PermitInv, Excused, Finished

-----------------------------------------------------------------------------
(* The pipe follows the executor.                                             *)

\* Handler and executor keep the pipe in step with their control point.
LEMMA PipeStep ==
    ASSUME TypeOK, NEW t \in Tasks, ShapedAt(t), PipeInv(t), HandlerStep(t) \/ ExecutorStep(t)
    PROVE  PipeInv(t)'
<1> USE DEF TypeOK, PipeInv, Excused, HandlerPoints, At, recordVars, treeVars, outcomeVars
<1>1. CASE HandlerStep(t)
  BY <1>1 DEF HandlerStep, AcquireGlobal, RejectGlobal, AcquireRoute, RejectRoute, CreateTask,
         CreateFails, NoTaskYet
<1>2. CASE SpawnWorker(t) \/ SpawnFails(t) \/ InitWorker(t) \/ InitFails(t) \/ MarkRunning(t)
  BY <1>2 DEF SpawnWorker, SpawnFails, InitWorker, InitFails, MarkRunning, Proceed
<1>3. CASE ChildExits(t) \/ DeadlineFires(t) \/ StopReceived(t) \/ LingerEmpty(t)
           \/ LingerQueryFails(t) \/ LingerExpires(t) \/ LingerRecord(t) \/ WaitFails(t)
  BY <1>3 DEF ChildExits, DeadlineFires, StopReceived, StopEntry, LingerEmpty, LingerQueryFails,
         EnterDrain, LingerExpires, LingerRecord, WaitFails, RecordStopping, Proceed
<1>4. CASE BeginGraceful(t) \/ SignalGraceful(t) \/ GraceWorkerExits(t) \/ GraceTreeEmpty(t)
           \/ GraceExpires(t) \/ KillReceived(t)
  BY <1>4 DEF BeginGraceful, SignalGraceful, GraceWorkerExits, GraceTreeEmpty, EnterDrain,
         GraceExpires, KillReceived, RecordStopping, Proceed
<1>5. CASE BeginForce(t) \/ ForceTree(t) \/ ReapTree(t) \/ JoinReaders(t) \/ ReleasePermits(t)
  BY <1>5 DEF BeginForce, ForceTree, ReapTree, EnterDrain, JoinReaders, ReleasePermits,
         RecordStopping, Proceed
<1>6. CASE Publish(t) \/ AbortRun(t) \/ PublishError(t) \/ MarkFinished(t)
  BY <1>6 DEF Publish, AbortRun, PublishError, MarkFinished, Proceed
<1> QED
  BY <1>1, <1>2, <1>3, <1>4, <1>5, <1>6 DEF ExecutorStep, ProgressStep


-----------------------------------------------------------------------------
(* What handler and executor do to the tree of their task.                    *)

\* A signal to the group reaches the whole tree when nobody has left the group.
LEMMA GroupReached ==
    ASSUME TypeOK, NEW t \in Tasks, GroupsHold
    PROVE  Reached(t) = procs[t]
<1>1. procs[t] \subseteq {"worker", "script"} \cup DescKinds
  BY DEF TypeOK, Processes
<1>2. DescKinds \cap Daemons = {} /\ "worker" \notin Daemons /\ "script" \notin Daemons
  BY DEF GroupsHold, Daemons
<1>3. procs[t] \ Daemons = procs[t]
  BY <1>1, <1>2
<1> QED
  BY <1>3 DEF Reached

\* Processes and kills stay in step with the worker.
LEMMA TreeStep ==
    ASSUME TypeOK, NEW t \in Tasks, PipeInv(t), TreeInv(t),
           HandlerStep(t) \/ ExecutorStep(t)
    PROVE  TreeInv(t)'
<1> USE DEF TypeOK, PipeInv, TreeInv, HandlerPoints, Reached, EndedByDrop, At, recordVars, treeVars, outcomeVars
<1>1. CASE HandlerStep(t)
  BY <1>1 DEF HandlerStep, AcquireGlobal, RejectGlobal, AcquireRoute, RejectRoute, CreateTask,
         CreateFails, NoTaskYet
<1>2. CASE SpawnWorker(t) \/ SpawnFails(t) \/ InitWorker(t) \/ InitFails(t) \/ MarkRunning(t)
  BY <1>2 DEF SpawnWorker, SpawnFails, InitWorker, InitFails, MarkRunning, Proceed
<1>3. CASE ChildExits(t) \/ DeadlineFires(t) \/ StopReceived(t) \/ LingerEmpty(t)
           \/ LingerQueryFails(t) \/ LingerExpires(t) \/ LingerRecord(t) \/ WaitFails(t)
  BY <1>3 DEF ChildExits, DeadlineFires, StopReceived, StopEntry, LingerEmpty, LingerQueryFails,
         EnterDrain, LingerExpires, LingerRecord, WaitFails, RecordStopping, Proceed
<1>4. CASE BeginGraceful(t) \/ SignalGraceful(t) \/ GraceWorkerExits(t) \/ GraceTreeEmpty(t)
           \/ GraceExpires(t) \/ KillReceived(t)
  BY <1>4 DEF BeginGraceful, SignalGraceful, GraceWorkerExits, GraceTreeEmpty, EnterDrain,
         GraceExpires, KillReceived, RecordStopping, Proceed
<1>5. CASE BeginForce(t) \/ ForceTree(t) \/ ReapTree(t) \/ JoinReaders(t) \/ ReleasePermits(t)
  BY <1>5 DEF BeginForce, ForceTree, ReapTree, EnterDrain, JoinReaders, ReleasePermits,
         RecordStopping, Proceed
<1>6. CASE Publish(t) \/ AbortRun(t) \/ PublishError(t) \/ MarkFinished(t)
  BY <1>6 DEF Publish, AbortRun, PublishError, MarkFinished, Proceed
<1> QED
  BY <1>1, <1>2, <1>3, <1>4, <1>5, <1>6 DEF ExecutorStep, ProgressStep

\* The executor kills with an excuse.
LEMMA ForceStep ==
    ASSUME TypeOK, NEW t \in Tasks, ShapedAt(t), WorkerGone, PipeInv(t), TreeInv(t), ForceInv(t),
           HandlerStep(t) \/ ExecutorStep(t)
    PROVE  ForceInv(t)'
<1> USE DEF TypeOK, ShapedAt, Shape, WorkerGone, PipeInv, TreeInv, ForceInv, GentleFirst, Excused, HandlerPoints, Reached, EndedByDrop, TreeReportedEmpty, At, recordVars, treeVars, outcomeVars
<1>1. CASE HandlerStep(t)
  BY <1>1 DEF HandlerStep, AcquireGlobal, RejectGlobal, AcquireRoute, RejectRoute, CreateTask,
         CreateFails, NoTaskYet
<1>2. CASE SpawnWorker(t) \/ SpawnFails(t) \/ InitWorker(t) \/ InitFails(t) \/ MarkRunning(t)
  BY <1>2 DEF SpawnWorker, SpawnFails, InitWorker, InitFails, MarkRunning, Proceed
<1>3. CASE ChildExits(t) \/ DeadlineFires(t) \/ StopReceived(t) \/ LingerEmpty(t)
           \/ LingerQueryFails(t) \/ LingerExpires(t) \/ LingerRecord(t) \/ WaitFails(t)
  <2>1. CASE LingerExpires(t)
    <3>1. worker[t] = "exited" /\ Platform = "windows" /\ stopReason[t] = "none"
      BY <2>1, PlatformAssumption DEF LingerExpires
    <3>2. worker' = worker /\ procs' = procs /\ control' = control /\ stopReason'[t] = "Timeout"
      BY <2>1 DEF LingerExpires
    <3>3. doomed'[t] \subseteq procs[t]
      BY <2>1, <3>1 DEF LingerExpires
    <3> QED
      BY <3>1, <3>2, <3>3
  <2> QED
    BY <1>3, <2>1 DEF ChildExits, DeadlineFires, StopReceived, StopEntry, LingerEmpty, LingerQueryFails,
           EnterDrain, LingerRecord, WaitFails, RecordStopping, Proceed
<1>4. CASE BeginGraceful(t) \/ SignalGraceful(t) \/ GraceWorkerExits(t) \/ GraceTreeEmpty(t)
           \/ GraceExpires(t) \/ KillReceived(t)
  BY <1>4 DEF BeginGraceful, SignalGraceful, GraceWorkerExits, GraceTreeEmpty, EnterDrain,
         GraceExpires, KillReceived, RecordStopping, Proceed
<1>5. CASE BeginForce(t) \/ ForceTree(t) \/ ReapTree(t) \/ JoinReaders(t) \/ ReleasePermits(t)
  BY <1>5 DEF BeginForce, ForceTree, ReapTree, EnterDrain, JoinReaders, ReleasePermits,
         RecordStopping, Proceed
<1>6. CASE Publish(t) \/ AbortRun(t) \/ PublishError(t) \/ MarkFinished(t)
  BY <1>6 DEF Publish, AbortRun, PublishError, MarkFinished, Proceed
<1> QED
  BY <1>1, <1>2, <1>3, <1>4, <1>5, <1>6 DEF ExecutorStep, ProgressStep

\* On Windows the executor waits for its tree, or ends it.
LEMMA EndStep ==
    ASSUME TypeOK, NEW t \in Tasks, ShapedAt(t), WorkerGone, PipeInv(t), TreeInv(t), EndInv(t),
           HandlerStep(t) \/ ExecutorStep(t)
    PROVE  EndInv(t)'
<1> USE DEF TypeOK, ShapedAt, Shape, WorkerGone, PipeInv, TreeInv, EndInv, Awaited, Finished, FinishedStatuses, HandlerPoints, EndedByDrop, TreeReportedEmpty, At, recordVars, treeVars, outcomeVars
<1>1. CASE HandlerStep(t)
  BY <1>1 DEF HandlerStep, AcquireGlobal, RejectGlobal, AcquireRoute, RejectRoute, CreateTask,
         CreateFails, NoTaskYet
<1>2. CASE SpawnWorker(t) \/ SpawnFails(t) \/ InitWorker(t) \/ InitFails(t) \/ MarkRunning(t)
  BY <1>2 DEF SpawnWorker, SpawnFails, InitWorker, InitFails, MarkRunning, Proceed
<1>3. CASE ChildExits(t) \/ DeadlineFires(t) \/ StopReceived(t) \/ LingerEmpty(t)
           \/ LingerQueryFails(t) \/ LingerExpires(t) \/ LingerRecord(t) \/ WaitFails(t)
  BY <1>3 DEF ChildExits, DeadlineFires, StopReceived, StopEntry, LingerEmpty, LingerQueryFails,
         EnterDrain, LingerExpires, LingerRecord, WaitFails, RecordStopping, Proceed
<1>4. CASE BeginGraceful(t) \/ SignalGraceful(t) \/ GraceWorkerExits(t) \/ GraceTreeEmpty(t)
           \/ GraceExpires(t) \/ KillReceived(t)
  BY <1>4 DEF BeginGraceful, SignalGraceful, GraceWorkerExits, GraceTreeEmpty, EnterDrain,
         GraceExpires, KillReceived, RecordStopping, Proceed
<1>5. CASE BeginForce(t) \/ ForceTree(t) \/ ReapTree(t) \/ JoinReaders(t) \/ ReleasePermits(t)
  BY <1>5 DEF BeginForce, ForceTree, ReapTree, EnterDrain, JoinReaders, ReleasePermits,
         RecordStopping, Proceed
<1>6. CASE Publish(t) \/ AbortRun(t) \/ PublishError(t) \/ MarkFinished(t)
  BY <1>6 DEF Publish, AbortRun, PublishError, MarkFinished, Proceed
<1> QED
  BY <1>1, <1>2, <1>3, <1>4, <1>5, <1>6 DEF ExecutorStep, ProgressStep

\* On unix without failures the executor goes on when its worker has exited,
\* and a kill reaches the whole tree.
LEMMA GroupStep ==
    ASSUME TypeOK, NEW t \in Tasks, WorkerGone, PipeInv(t), TreeInv(t), GroupInv(t),
           HandlerStep(t) \/ ExecutorStep(t)
    PROVE  GroupInv(t)'
<1> USE DEF TypeOK, WorkerGone, PipeInv, TreeInv, GroupInv, GroupsHold, HandlerPoints, Reached, Processes, EndedByDrop, At, recordVars, treeVars, outcomeVars
<1>1. CASE HandlerStep(t)
  BY <1>1 DEF HandlerStep, AcquireGlobal, RejectGlobal, AcquireRoute, RejectRoute, CreateTask,
         CreateFails, NoTaskYet
<1>2. CASE SpawnWorker(t) \/ SpawnFails(t) \/ InitWorker(t) \/ InitFails(t) \/ MarkRunning(t)
  BY <1>2 DEF SpawnWorker, SpawnFails, InitWorker, InitFails, MarkRunning, Proceed
<1>3. CASE ChildExits(t) \/ DeadlineFires(t) \/ StopReceived(t) \/ LingerEmpty(t)
           \/ LingerQueryFails(t) \/ LingerExpires(t) \/ LingerRecord(t) \/ WaitFails(t)
  BY <1>3 DEF ChildExits, DeadlineFires, StopReceived, StopEntry, LingerEmpty, LingerQueryFails,
         EnterDrain, LingerExpires, LingerRecord, WaitFails, RecordStopping, Proceed
<1>4. CASE BeginGraceful(t) \/ SignalGraceful(t) \/ GraceWorkerExits(t) \/ GraceTreeEmpty(t)
           \/ GraceExpires(t) \/ KillReceived(t)
  BY <1>4 DEF BeginGraceful, SignalGraceful, GraceWorkerExits, GraceTreeEmpty, EnterDrain,
         GraceExpires, KillReceived, RecordStopping, Proceed
<1>5. CASE BeginForce(t) \/ ForceTree(t) \/ ReapTree(t) \/ JoinReaders(t) \/ ReleasePermits(t)
  <2>1. GroupsHold => Reached(t) = procs[t]
    BY GroupReached
  <2>2. \A i \in DOMAIN Streams : Streams[i] \in StreamSet
    BY DEF StreamSet
  <2>3. CASE ForceTree(t)
    BY <2>1, <2>3 DEF ForceTree
  <2>4. CASE JoinReaders(t)
    BY <2>2, <2>4 DEF JoinReaders
  <2> QED
    BY <1>5, <2>3, <2>4 DEF BeginForce, ReapTree, EnterDrain, ReleasePermits, RecordStopping, Proceed
<1>6. CASE Publish(t) \/ AbortRun(t) \/ PublishError(t) \/ MarkFinished(t)
  BY <1>6 DEF Publish, AbortRun, PublishError, MarkFinished, Proceed
<1> QED
  BY <1>1, <1>2, <1>3, <1>4, <1>5, <1>6 DEF ExecutorStep, ProgressStep

\* Permits are taken in order and dropped when the tree is ended.
LEMMA PermitStep ==
    ASSUME TypeOK, NEW t \in Tasks, ShapedAt(t), PipeInv(t), TreeInv(t), EndInv(t), GroupInv(t), PermitInv(t),
           HandlerStep(t) \/ ExecutorStep(t)
    PROVE  PermitInv(t)'
<1> USE DEF TypeOK, PipeInv, TreeInv, EndInv, Awaited, GroupInv, GroupsHold, PermitInv, PermitsCover, Both, HandlerPoints, EndedByDrop, At, recordVars, treeVars, outcomeVars
<1>1. CASE HandlerStep(t)
  BY <1>1 DEF HandlerStep, AcquireGlobal, RejectGlobal, AcquireRoute, RejectRoute, CreateTask,
         CreateFails, NoTaskYet
<1>2. CASE SpawnWorker(t) \/ SpawnFails(t) \/ InitWorker(t) \/ InitFails(t) \/ MarkRunning(t)
  <2>1. pc[t] = "spawned" => permits[t] # {}
    BY DEF ShapedAt, Shape, Permitless
  <2> QED
    BY <1>2, <2>1 DEF SpawnWorker, SpawnFails, InitWorker, InitFails, MarkRunning, Proceed
<1>3. CASE ChildExits(t) \/ DeadlineFires(t) \/ StopReceived(t) \/ LingerEmpty(t)
           \/ LingerQueryFails(t) \/ LingerExpires(t) \/ LingerRecord(t) \/ WaitFails(t)
  BY <1>3 DEF ChildExits, DeadlineFires, StopReceived, StopEntry, LingerEmpty, LingerQueryFails,
         EnterDrain, LingerExpires, LingerRecord, WaitFails, RecordStopping, Proceed
<1>4. CASE BeginGraceful(t) \/ SignalGraceful(t) \/ GraceWorkerExits(t) \/ GraceTreeEmpty(t)
           \/ GraceExpires(t) \/ KillReceived(t)
  BY <1>4 DEF BeginGraceful, SignalGraceful, GraceWorkerExits, GraceTreeEmpty, EnterDrain,
         GraceExpires, KillReceived, RecordStopping, Proceed
<1>5. CASE BeginForce(t) \/ ForceTree(t) \/ ReapTree(t) \/ JoinReaders(t) \/ ReleasePermits(t)
  BY <1>5 DEF BeginForce, ForceTree, ReapTree, EnterDrain, JoinReaders, ReleasePermits,
         RecordStopping, Proceed
<1>6. CASE Publish(t) \/ AbortRun(t) \/ PublishError(t) \/ MarkFinished(t)
  BY <1>6 DEF Publish, AbortRun, PublishError, MarkFinished, Proceed
<1> QED
  BY <1>1, <1>2, <1>3, <1>4, <1>5, <1>6 DEF ExecutorStep, ProgressStep


-----------------------------------------------------------------------------
(* What the worker, the script, the kernel and the readers do to the tree.    *)

\* The invariant of t without the pipe, which only the executor moves.
ProcessesAt(t) == TreeInv(t) /\ ForceInv(t) /\ EndInv(t) /\ GroupInv(t) /\ PermitInv(t)

\* What none of these steps changes, and what they may take for granted.
OthersFrame(t) ==
    /\ TypeOK /\ TypeOK'
    /\ PipeInv(t) /\ ProcessesAt(t)
    /\ pc' = pc /\ permits' = permits /\ stopReason' = stopReason /\ status' = status
    /\ control' = control

\* The worker starts the script only while its executor counts on it.
LEMMA StartTrees ==
    ASSUME NEW t \in Tasks, OthersFrame(t), WorkerStart(t)
    PROVE  ProcessesAt(t)'
<1> USE DEF OthersFrame, ProcessesAt, TypeOK, PipeInv, TreeInv, WorkerStart, outcomeVars
<1>1. /\ worker[t] = "init" /\ procs[t] = {"worker"} /\ doomed[t] = {}
      /\ worker'[t] = "loop" /\ procs'[t] = {"worker", "script"} /\ doomed'[t] = doomed[t]
      /\ reader' = reader
  OBVIOUS
<1>2. TreeInv(t)'
  BY <1>1
<1>3. ForceInv(t)'
  BY <1>1 DEF ForceInv, Excused
<1>4. EndInv(t)'
  BY <1>1 DEF EndInv, Awaited, Finished
<1>5. GroupInv(t)'
  BY <1>1 DEF GroupInv
<1>6. PermitInv(t)'
  BY <1>1 DEF PermitInv
<1> QED
  BY <1>2, <1>3, <1>4, <1>5, <1>6

\* A worker that ends leaves, under GroupsHold, nothing alive, and on Windows
\* a script only with an excuse.
LEMMA EndTrees ==
    ASSUME NEW t \in Tasks, NEW ok, OthersFrame(t), EndWorker(t, ok), worker[t] # "none",
           GroupsHold => procs[t] \ {"worker"} \subseteq doomed[t],
           Platform = "windows" /\ GentleFirst /\ "script" \in procs[t] => Excused(t)
    PROVE  ProcessesAt(t)'
<1> USE DEF OthersFrame, ProcessesAt, TypeOK, PipeInv, TreeInv, EndWorker
<1>1. /\ worker'[t] = "exited" /\ procs'[t] = procs[t] \ {"worker"}
      /\ doomed'[t] = doomed[t] \ {"worker"} /\ reader' = reader
  OBVIOUS
<1>2. TreeInv(t)'
  BY <1>1
<1>3. ForceInv(t)'
  BY <1>1 DEF ForceInv, Excused, GentleFirst
<1>4. EndInv(t)'
  BY <1>1 DEF EndInv, Awaited, Finished
<1>5. GroupInv(t)'
  BY <1>1 DEF GroupInv, GroupsHold
<1>6. PermitInv(t)'
  BY <1>1 DEF PermitInv
<1> QED
  BY <1>2, <1>3, <1>4, <1>5, <1>6

\* Worker steps keep the invariant.
LEMMA WorkerTrees ==
    ASSUME NEW t \in Tasks, OthersFrame(t), WorkerStep(t) \/ WorkerCrash(t)
    PROVE  ProcessesAt(t)'
<1> USE DEF OthersFrame, ProcessesAt, TypeOK, PipeInv, TreeInv
<1>1. CASE WorkerStartFails(t)
  <2>1. procs[t] = {"worker"} /\ worker[t] # "none" /\ \E ok \in BOOLEAN : EndWorker(t, ok)
    BY <1>1 DEF WorkerStartFails
  <2> QED
    BY <2>1, EndTrees
<1>2. CASE WorkerNoticesExit(t)
  <2>1. /\ worker[t] = "loop" /\ "script" \notin procs[t] /\ worker'[t] = "reap"
        /\ procs' = procs /\ doomed' = doomed /\ reader' = reader
    BY <1>2 DEF WorkerNoticesExit, outcomeVars
  <2> QED
    BY <2>1 DEF ForceInv, Excused, EndInv, Awaited, Finished, GroupInv, PermitInv
<1>3. CASE WorkerExit(t)
  <2>1. /\ worker[t] = "reap" /\ "script" \notin procs[t] /\ \E ok \in BOOLEAN : EndWorker(t, ok)
        /\ GroupsHold => procs[t] = {"worker"}
    BY <1>3 DEF WorkerExit, GroupsHold
  <2> QED
    BY <2>1, EndTrees
<1>4. CASE WorkerGracefulFails(t)
  <2>1. /\ worker[t] = "loop" /\ Excused(t) /\ EndWorker(t, FALSE) /\ ~GroupsHold
    BY <1>4 DEF WorkerGracefulFails, GroupsHold, Excused
  <2> QED
    BY <2>1, EndTrees
<1>5. CASE WorkerCrash(t)
  <2>1. worker[t] # "none" /\ EndWorker(t, FALSE) /\ ~GroupsHold
    BY <1>5 DEF WorkerCrash, GroupsHold
  <2>2. Platform = "windows" => ~GentleFirst
    BY <1>5 DEF WorkerCrash, GentleFirst
  <2> QED
    BY <2>1, <2>2, EndTrees
<1>6. CASE WorkerForce(t) /\ Platform = "unix"
  <2>1. /\ worker' = worker /\ procs' = procs /\ reader' = reader /\ Excused(t)
        /\ doomed'[t] = doomed[t] \cup Reached(t)
    BY <1>6 DEF WorkerForce, Excused, outcomeVars
  <2>2. GroupsHold => Reached(t) = procs[t]
    BY GroupReached
  <2>3. TreeInv(t)' /\ EndInv(t)' /\ PermitInv(t)'
    BY <1>6, <2>1 DEF EndInv, Awaited, PermitInv, Reached
  <2>4. ForceInv(t)'
    BY <1>6, <2>1 DEF ForceInv, Excused
  <2>5. GroupInv(t)'
    BY <2>1, <2>2 DEF GroupInv
  <2> QED
    BY <2>3, <2>4, <2>5
<1>7. CASE WorkerForce(t) /\ Platform # "unix"
  <2>1. /\ worker[t] = "loop" /\ worker'[t] = "stuck"
        /\ procs' = procs /\ doomed' = doomed /\ reader' = reader /\ ~GroupsHold
    BY <1>7 DEF WorkerForce, GroupsHold, outcomeVars
  <2> QED
    BY <2>1 DEF ForceInv, Excused, EndInv, Awaited, Finished, GroupInv, PermitInv
<1> QED
  BY <1>1, <1>2, <1>3, <1>4, <1>5, <1>6, <1>7, StartTrees DEF WorkerStep


\* Scripts and descendants fork and exit only outside what was killed.
LEMMA ScriptTrees ==
    ASSUME NEW t \in Tasks, OthersFrame(t), NEW p, p \in {"script"} \cup DescKinds,
           worker' = worker, doomed' = doomed, reader' = reader,
           \/ procs'[t] = procs[t] \ {p} /\ p \notin doomed[t]
           \/ p # "script" /\ procs'[t] = procs[t] \cup {p} /\ ~(procs[t] \ {"worker"} \subseteq doomed[t])
    PROVE  ProcessesAt(t)'
<1> USE DEF OthersFrame, ProcessesAt, TypeOK, PipeInv, TreeInv
<1>1. p # "worker"
  BY DescKindsAssumption
<1>2. TreeInv(t)'
  BY <1>1
<1>3. ForceInv(t)'
  BY <1>1 DEF ForceInv, Excused
<1>4. EndInv(t)'
  BY <1>1 DEF EndInv, Awaited, Finished
<1>5. GroupInv(t)'
  BY <1>1 DEF GroupInv
<1>6. PermitInv(t)'
  BY <1>1 DEF PermitInv
<1> QED
  BY <1>2, <1>3, <1>4, <1>5, <1>6

\* A killed process of the tree disappears.
LEMMA DeathTrees ==
    ASSUME NEW t \in Tasks, OthersFrame(t), NEW p \in Processes, DoomedDies(t, p)
    PROVE  ProcessesAt(t)'
<1> USE DEF OthersFrame, ProcessesAt, TypeOK, PipeInv, TreeInv
<1>1. CASE p = "worker"
  <2>1. "worker" \in doomed[t] /\ "worker" \in procs[t] /\ EndWorker(t, FALSE)
    BY <1>1 DEF DoomedDies
  <2>2. worker[t] # "none" /\ (GroupsHold => procs[t] \subseteq doomed[t])
    BY <2>1 DEF GroupInv
  <2>3. "script" \in procs[t] => Excused(t)
    BY <2>1 DEF ForceInv
  <2> QED
    BY <2>1, <2>2, <2>3, EndTrees
<1>2. CASE p # "worker"
  <2>1. /\ procs'[t] = procs[t] \ {p} /\ doomed'[t] = doomed[t] \ {p}
        /\ worker' = worker /\ reader' = reader /\ p \in procs[t]
    BY <1>2 DEF DoomedDies, outcomeVars
  <2>2. TreeInv(t)'
    BY <1>2, <2>1
  <2>3. ForceInv(t)'
    BY <1>2, <2>1 DEF ForceInv, Excused
  <2>4. EndInv(t)'
    BY <1>2, <2>1 DEF EndInv, Awaited, Finished
  <2>5. GroupInv(t)'
    BY <1>2, <2>1 DEF GroupInv
  <2>6. PermitInv(t)'
    BY <1>2, <2>1 DEF PermitInv
  <2> QED
    BY <2>2, <2>3, <2>4, <2>5, <2>6
<1> QED
  BY <1>1, <1>2

\* Clients and readers leave the tree alone; a reader fails only on an error.
LEMMA ReaderTrees ==
    ASSUME NEW t \in Tasks, OthersFrame(t),
           worker' = worker, procs' = procs, doomed' = doomed,
           \A s \in StreamSet : reader'[t][s] = "failed" => reader[t][s] = "failed" \/ Failures # {}
    PROVE  ProcessesAt(t)'
<1> USE DEF OthersFrame, ProcessesAt
<1>1. TreeInv(t)' /\ ForceInv(t)' /\ EndInv(t)' /\ PermitInv(t)'
  BY DEF TreeInv, ForceInv, Excused, EndInv, Awaited, Finished, PermitInv
<1>2. GroupInv(t)'
  BY DEF GroupInv, GroupsHold
<1> QED
  BY <1>1, <1>2

\* Steps around the executor keep the invariant of their task.
LEMMA OthersTrees ==
    ASSUME TypeOK, TypeOK', NEW t \in Tasks, TreesAt(t), WorkerStep(t) \/ EnvironmentStep(t)
    PROVE  TreesAt(t)'
<1>1. control' = control
  BY DEF WorkerStep, WorkerStart, WorkerStartFails, WorkerNoticesExit, WorkerExit, WorkerForce,
         WorkerGracefulFails, EnvironmentStep, RequestStop, ScriptForks, DescendantExits, ScriptExits,
         WorkerCrash, DoomedDies, ReaderEof, ReaderFails, EndWorker, treeVars
<1>2. OthersFrame(t)
  BY <1>1, OthersStill DEF OthersFrame, TreesAt, ProcessesAt
<1>3. PipeInv(t)'
  BY <1>2 DEF OthersFrame, PipeInv, Excused
<1>4. ASSUME NEW kind \in DescKinds, ScriptForks(t, kind) \/ DescendantExits(t, kind)
      PROVE  ProcessesAt(t)'
  <2>1. kind # "script"
    BY DescKindsAssumption
  <2>2. /\ worker' = worker /\ doomed' = doomed /\ reader' = reader
        /\ \/ procs'[t] = procs[t] \ {kind} /\ kind \notin doomed[t]
           \/ procs'[t] = procs[t] \cup {kind} /\ ~(procs[t] \ {"worker"} \subseteq doomed[t])
    BY <1>4 DEF ScriptForks, DescendantExits, TypeOK, outcomeVars
  <2> QED
    BY <1>2, <2>1, <2>2, ScriptTrees
<1>5. ASSUME NEW code \in ScriptCodes, ScriptExits(t, code)
      PROVE  ProcessesAt(t)'
  <2>1. /\ worker' = worker /\ doomed' = doomed /\ reader' = reader
        /\ procs'[t] = procs[t] \ {"script"} /\ "script" \notin doomed[t]
    BY <1>5 DEF ScriptExits, TypeOK
  <2> QED
    BY <1>2, <2>1, ScriptTrees
<1>6. ASSUME NEW reason \in RequestReasons, RequestStop(t, reason)
      PROVE  ProcessesAt(t)'
  BY <1>2, <1>6, ReaderTrees DEF RequestStop, treeVars, outcomeVars
<1>7. ASSUME NEW s \in StreamSet, ReaderEof(t, s) \/ ReaderFails(t, s)
      PROVE  ProcessesAt(t)'
  <2>1. worker' = worker /\ procs' = procs /\ doomed' = doomed
    BY <1>7 DEF ReaderEof, ReaderFails, treeVars
  <2>2. \A r \in StreamSet : reader'[t][r] = "failed" => reader[t][r] = "failed" \/ Failures # {}
    BY <1>7 DEF ReaderEof, ReaderFails, TypeOK
  <2> QED
    BY <1>2, <2>1, <2>2, ReaderTrees
<1> QED
  BY <1>2, <1>3, <1>4, <1>5, <1>6, <1>7, WorkerTrees, DeathTrees DEF EnvironmentStep, ProcessesAt, TreesAt


-----------------------------------------------------------------------------
(* The semaphores.                                                            *)

\* Permits grow only where the handler acquires one.
LEMMA PermitsShrink ==
    ASSUME TypeOK, NEW t \in Tasks, ~AcquireGlobal(t), ~AcquireRoute(t),
           HandlerStep(t) \/ ExecutorStep(t) \/ WorkerStep(t) \/ EnvironmentStep(t),
           NEW u \in Tasks
    PROVE  permits'[u] \subseteq permits[u]
<1> USE DEF TypeOK
<1>1. CASE HandlerStep(t)
  BY <1>1 DEF HandlerStep, RejectGlobal, RejectRoute, CreateTask, CreateFails
<1>2. CASE ExecutorStep(t) /\ ~ReleasePermits(t) /\ ~AbortRun(t)
  BY <1>2 DEF ExecutorStep, ProgressStep, SpawnWorker, SpawnFails, InitWorker, InitFails, MarkRunning, ChildExits,
         DeadlineFires, StopReceived, LingerEmpty, LingerQueryFails, EnterDrain, LingerExpires, LingerRecord,
         WaitFails, BeginGraceful, SignalGraceful, GraceWorkerExits, GraceTreeEmpty, GraceExpires,
         KillReceived, BeginForce, ForceTree, ReapTree, JoinReaders, Publish, PublishError, MarkFinished
<1>3. CASE ReleasePermits(t) \/ AbortRun(t)
  BY <1>3 DEF ReleasePermits, AbortRun
<1>4. CASE WorkerStep(t) \/ EnvironmentStep(t)
  BY <1>4, OthersStill
<1> QED
  BY <1>1, <1>2, <1>3, <1>4

\* try_acquire_owned never hands out more permits than a semaphore has.
LEMMA LimitStep ==
    ASSUME TypeOK, Limited, Next
    PROVE  Limited'
<1> DEFINE Global == {t \in Tasks : "global" \in permits[t]}
           OnRoute(r) == {t \in Tasks : RouteOf[t] = r /\ "route" \in permits[t]}
<1>1. IsFiniteSet(Global) /\ \A r \in Routes : IsFiniteSet(OnRoute(r))
  BY TasksAssumption, FS_Subset
<1>2. Cardinality(Global) \in Nat /\ \A r \in Routes : Cardinality(OnRoute(r)) \in Nat
  BY <1>1, FS_CardinalityType
<1>3. /\ Cardinality(Global) <= MaxTotal
      /\ \A r \in Routes : Cardinality(OnRoute(r)) <= MaxRoute[r]
  BY DEF Limited, GlobalInUse, RouteInUse
<1>4. SUFFICES /\ Cardinality(Global') <= MaxTotal
               /\ \A r \in Routes : Cardinality(OnRoute(r)') <= MaxRoute[r]
  BY DEF Limited, GlobalInUse, RouteInUse
<1>5. MaxTotal \in Nat /\ \A r \in Routes : MaxRoute[r] \in Nat
  BY LimitsAssumption
<1> HIDE DEF Global, OnRoute
<1>6. ASSUME Global' \subseteq Global
      PROVE  Cardinality(Global') <= MaxTotal
  <2>1. Cardinality(Global') <= Cardinality(Global) /\ Cardinality(Global') \in Nat
    BY <1>1, <1>6, FS_Subset, FS_CardinalityType
  <2> QED
    BY <1>2, <1>3, <1>5, <2>1
<1>7. ASSUME NEW r \in Routes, OnRoute(r)' \subseteq OnRoute(r)
      PROVE  Cardinality(OnRoute(r)') <= MaxRoute[r]
  <2>1. Cardinality(OnRoute(r)') <= Cardinality(OnRoute(r)) /\ Cardinality(OnRoute(r)') \in Nat
    BY <1>1, <1>7, FS_Subset, FS_CardinalityType
  <2> QED
    BY <1>2, <1>3, <1>5, <2>1
<1>8. CASE \E t \in Tasks : AcquireGlobal(t)
  <2>1. PICK t \in Tasks : AcquireGlobal(t)
    BY <1>8
  <2>2. Global' \subseteq Global \cup {t} /\ \A r \in Routes : OnRoute(r)' \subseteq OnRoute(r)
    BY <2>1 DEF AcquireGlobal, TypeOK, Global, OnRoute
  <2>3. Cardinality(Global) < MaxTotal
    BY <2>1 DEF AcquireGlobal, GlobalInUse, Global
  <2>4. CASE t \in Global
    BY <1>6, <1>7, <2>2, <2>4
  <2>5. CASE t \notin Global
    <3>1. IsFiniteSet(Global \cup {t}) /\ Cardinality(Global \cup {t}) = Cardinality(Global) + 1
      BY <1>1, <2>5, FS_AddElement
    <3>2. Cardinality(Global') <= Cardinality(Global) + 1 /\ Cardinality(Global') \in Nat
      BY <2>2, <3>1, FS_Subset, FS_CardinalityType
    <3> QED
      BY <1>2, <1>5, <1>7, <2>2, <2>3, <3>2
  <2> QED
    BY <2>4, <2>5
<1>9. CASE \E t \in Tasks : AcquireRoute(t)
  <2>1. PICK t \in Tasks : AcquireRoute(t)
    BY <1>9
  <2>2. /\ Global' \subseteq Global
        /\ \A r \in Routes : OnRoute(r)' \subseteq OnRoute(r) \/ r = RouteOf[t]
        /\ OnRoute(RouteOf[t])' \subseteq OnRoute(RouteOf[t]) \cup {t}
    BY <2>1 DEF AcquireRoute, TypeOK, Global, OnRoute
  <2>3. /\ RouteOf[t] \in Routes
        /\ Cardinality(OnRoute(RouteOf[t])) < MaxRoute[RouteOf[t]]
    BY <2>1, RoutesAssumption DEF AcquireRoute, RouteInUse, OnRoute
  <2>4. Cardinality(OnRoute(RouteOf[t])') <= MaxRoute[RouteOf[t]]
    <3>1. CASE t \in OnRoute(RouteOf[t])
      BY <1>7, <2>2, <2>3, <3>1
    <3>2. CASE t \notin OnRoute(RouteOf[t])
      <4>1. /\ IsFiniteSet(OnRoute(RouteOf[t]) \cup {t})
            /\ Cardinality(OnRoute(RouteOf[t]) \cup {t}) = Cardinality(OnRoute(RouteOf[t])) + 1
        BY <1>1, <2>3, <3>2, FS_AddElement
      <4>2. /\ Cardinality(OnRoute(RouteOf[t])') <= Cardinality(OnRoute(RouteOf[t])) + 1
            /\ Cardinality(OnRoute(RouteOf[t])') \in Nat
        BY <2>2, <4>1, FS_Subset, FS_CardinalityType
      <4> QED
        BY <1>2, <1>5, <2>3, <4>2
    <3> QED
      BY <3>1, <3>2
  <2> QED
    BY <1>6, <1>7, <2>2, <2>4
<1>10. CASE \A u \in Tasks : permits'[u] \subseteq permits[u]
  <2>1. Global' \subseteq Global /\ \A r \in Routes : OnRoute(r)' \subseteq OnRoute(r)
    BY <1>10 DEF Global, OnRoute
  <2> QED
    BY <1>6, <1>7, <2>1
<1>11. CASE Quiescent
  BY <1>10, <1>11 DEF Quiescent, vars, executorVars
<1> QED
  BY <1>8, <1>9, <1>10, <1>11, PermitsShrink DEF Next

-----------------------------------------------------------------------------
(* The invariant is inductive.                                                *)

\* Nothing runs and nothing is held in the beginning.
LEMMA TreesInit == Init => TreesInv
<1> SUFFICES ASSUME Init PROVE TreesInv
  OBVIOUS
<1>1. ASSUME NEW t \in Tasks PROVE TreesAt(t)
  BY DEF Init, TreesAt, PipeInv, TreeInv, ForceInv, EndInv, GroupInv, PermitInv, HandlerPoints
<1>2. {t \in Tasks : "global" \in permits[t]} = {}
  BY DEF Init
<1>3. \A r \in Routes : {t \in Tasks : RouteOf[t] = r /\ "route" \in permits[t]} = {}
  BY DEF Init
<1>4. GlobalInUse = 0 /\ \A r \in Routes : RouteInUse(r) = 0
  <2>1. Cardinality({}) = 0
    BY FS_EmptySet
  <2>2. GlobalInUse = 0
    BY <1>2, <2>1 DEF GlobalInUse
  <2>3. ASSUME NEW r \in Routes PROVE RouteInUse(r) = 0
    <3>1. {t \in Tasks : RouteOf[t] = r /\ "route" \in permits[t]} = {}
      BY <1>3
    <3> QED
      BY <2>1, <3>1 DEF RouteInUse
  <2> QED
    BY <2>2, <2>3
<1>5. Limited
  BY <1>4, LimitsAssumption DEF Limited
<1> QED
  BY <1>1, <1>5, InvInit DEF TreesInv

\* Every step preserves the invariant.
LEMMA TreesStep ==
    ASSUME TreesInv, [Next]_vars
    PROVE  TreesInv'
<1>1. IInv'
  BY InvStep DEF TreesInv
<1>2. CASE UNCHANGED vars
  BY <1>1, <1>2 DEF vars, executorVars, recordVars, treeVars, outcomeVars, TreesInv, Limited, GlobalInUse,
         RouteInUse, TreesAt, PipeInv, TreeInv, ForceInv, EndInv, Awaited, GroupInv, PermitInv, Excused, Finished
<1>3. ASSUME NEW t \in Tasks, HandlerStep(t) \/ ExecutorStep(t)
      PROVE  TreesAt(t)'
  <2>1. TypeOK /\ WorkerGone /\ ShapedAt(t) /\ TreesAt(t)
    BY DEF TreesInv, IInv, Shaped
  <2> QED
    BY <1>3, <2>1, PipeStep, TreeStep, ForceStep, EndStep, GroupStep, PermitStep DEF TreesAt
<1>4. ASSUME NEW t \in Tasks,
             HandlerStep(t) \/ ExecutorStep(t) \/ WorkerStep(t) \/ EnvironmentStep(t)
      PROVE  \A u \in Tasks : TreesAt(u)'
  <2>1. TreesAt(t)'
    BY <1>1, <1>3, <1>4, OthersTrees DEF TreesInv, IInv
  <2> QED
    BY <1>4, <2>1, ElsewhereTrees DEF TreesInv, IInv
<1>5. CASE Next /\ ~Quiescent
  BY <1>1, <1>4, <1>5, LimitStep DEF TreesInv, IInv, Next
<1> QED
  BY <1>2, <1>5 DEF Quiescent

\* Pipe, worker, processes, kills and permits of every task agree in every
\* reachable state, and no semaphore is overdrawn.
THEOREM TreesInvariant == Spec => []TreesInv
<1>1. TreesInv /\ [Next]_vars => TreesInv'
  BY TreesStep
<1> QED
  BY TreesInit, <1>1, PTL DEF Spec

-----------------------------------------------------------------------------
(* What holds of the trees.                                                   *)

\* stop_process kills a script only after its gentle request, on unix whatever
\* fails, on Windows as long as nobody else kills the worker.
THEOREM GracefulBeforeForceHolds ==
    ASSUME GentleFirst
    PROVE  Spec => []GracefulBeforeForce
<1>1. TreesInv => GracefulBeforeForce
  BY DEF TreesInv, TreesAt, ForceInv, Excused, GracefulBeforeForce
<1> QED
  BY <1>1, TreesInvariant, PTL

\* On Windows the terminal status of a stopped task, and the last count of any
\* task, mean that the job has been ended: wait_empty has seen it empty, or
\* run_task has dropped the ProcessTree, whatever failed on the way.
THEOREM FinishedTreesAreDyingHolds ==
    ASSUME Platform = "windows"
    PROVE  Spec => []FinishedTreesAreDying
<1>1. ASSUME TreesInv PROVE FinishedTreesAreDying
  <2> SUFFICES ASSUME NEW t \in Tasks, Finished(t), stopReason[t] # "none" \/ pc[t] = "done"
               PROVE  procs[t] \ {"worker"} \subseteq doomed[t]
    BY DEF FinishedTreesAreDying
  <2>1. pc[t] \in {"err", "errpublish", "mark", "done"}
    BY <1>1 DEF TreesInv, IInv, Shaped, ShapedAt, Shape, Finished
  <2> QED
    BY <1>1, <2>1 DEF TreesInv, TreesAt, EndInv, Awaited
<1> QED
  BY <1>1, TreesInvariant, PTL

\* The concurrency limits bound the trees that run: a permit is dropped only
\* when its tree is gone or killed, for any number of requests, routes and
\* permits, under the conditions of PermitsCover.
THEOREM LiveTreesBoundedHolds ==
    ASSUME PermitsCover
    PROVE  Spec => []LiveTreesBounded
<1>1. ASSUME TreesInv PROVE LiveTreesBounded
  <2> DEFINE Live(S) == {t \in S : procs[t] \ doomed[t] # {}}
             Global == {t \in Tasks : "global" \in permits[t]}
             OnRoute(r) == {t \in Tasks : RouteOf[t] = r /\ "route" \in permits[t]}
  <2>1. \A t \in Tasks : procs[t] \ doomed[t] # {} => "global" \in permits[t] /\ "route" \in permits[t]
    BY <1>1 DEF TreesInv, TreesAt, PermitInv, Both
  <2>2. /\ Live(Tasks) \subseteq Global
        /\ \A r \in Routes : Live({t \in Tasks : RouteOf[t] = r}) \subseteq OnRoute(r)
    BY <2>1
  <2>3. IsFiniteSet(Global) /\ \A r \in Routes : IsFiniteSet(OnRoute(r))
    BY TasksAssumption, FS_Subset
  <2>4. /\ Cardinality(Global) <= MaxTotal /\ Cardinality(Global) \in Nat
        /\ \A r \in Routes : Cardinality(OnRoute(r)) <= MaxRoute[r] /\ Cardinality(OnRoute(r)) \in Nat
    BY <1>1, <2>3, FS_CardinalityType DEF TreesInv, Limited, GlobalInUse, RouteInUse
  <2>5. MaxTotal \in Nat /\ \A r \in Routes : MaxRoute[r] \in Nat
    BY LimitsAssumption
  <2> HIDE DEF Live, Global, OnRoute
  <2>6. Cardinality(Live(Tasks)) <= Cardinality(Global) /\ Cardinality(Live(Tasks)) \in Nat
    BY <2>2, <2>3, FS_Subset, FS_CardinalityType
  <2>7. ASSUME NEW r \in Routes
        PROVE  /\ Cardinality(Live({t \in Tasks : RouteOf[t] = r})) <= Cardinality(OnRoute(r))
               /\ Cardinality(Live({t \in Tasks : RouteOf[t] = r})) \in Nat
    BY <2>2, <2>3, FS_Subset, FS_CardinalityType
  <2>8. /\ Cardinality(Live(Tasks)) <= MaxTotal
        /\ \A r \in Routes : Cardinality(Live({t \in Tasks : RouteOf[t] = r})) <= MaxRoute[r]
    BY <2>4, <2>5, <2>6, <2>7
  <2> QED
    BY <2>8 DEF LiveTreesBounded, Live
<1> QED
  BY <1>1, TreesInvariant, PTL

-----------------------------------------------------------------------------
(* The output and the exit code behind a status.                              *)

\* The readers of a task exist from the spawn of its worker on, have all seen
\* the end of their pipe before run_task publishes, and once one has, nobody is
\* left who could write into it.
ReadersAt(t) ==
    /\ pc[t] \in HandlerPoints \cup {"spawned"} => \A s \in StreamSet : reader[t][s] = "none"
    /\ pc[t] \in {"release", "publish"} \/ (Finished(t) /\ status[t] # "Failed")
          => \A s \in StreamSet : reader[t][s] = "eof"
    /\ (\E s \in StreamSet : reader[t][s] = "eof") => ~PipesHeld(t)

\* A worker that ended well did so after its script, with a code that main
\* clamps to zero.
CodeAt(t) ==
    /\ workerOk[t] => worker[t] = "exited" /\ ClampedCode(scriptCode[t]) = 0 /\ "script" \notin procs[t]
    /\ scriptCode[t] \in ScriptCodes \cup {1}

OutcomeAt(t) == ReadersAt(t) /\ CodeAt(t)

OutcomeInv == TreesInv /\ \A t \in Tasks : OutcomeAt(t)

\* Of the executor's steps only the spawn touches processes, readers or codes,
\* and one that fails only readers.
LEMMA ExecutorLeaves ==
    ASSUME NEW t \in Tasks, HandlerStep(t) \/ ExecutorStep(t)
    PROVE  /\ scriptCode' = scriptCode /\ workerOk' = workerOk
           /\ SpawnWorker(t) \/ UNCHANGED <<worker, procs>>
           /\ SpawnWorker(t) \/ SpawnFails(t) \/ UNCHANGED reader
<1> USE DEF recordVars, treeVars, outcomeVars
<1>1. CASE HandlerStep(t)
  BY <1>1 DEF HandlerStep, AcquireGlobal, RejectGlobal, AcquireRoute, RejectRoute, CreateTask,
         CreateFails, NoTaskYet
<1>2. CASE ExecutorStep(t)
  BY <1>2 DEF ExecutorStep, ProgressStep, SpawnWorker, SpawnFails, InitWorker, InitFails, MarkRunning, ChildExits,
         DeadlineFires, StopReceived, LingerEmpty, LingerQueryFails, EnterDrain, LingerExpires, LingerRecord,
         WaitFails, BeginGraceful, SignalGraceful, GraceWorkerExits, GraceTreeEmpty, GraceExpires, KillReceived,
         BeginForce, ForceTree, ReapTree, JoinReaders, ReleasePermits, Publish, AbortRun,
         PublishError, MarkFinished
<1> QED
  BY <1>1, <1>2

\* A terminal status other than a failure is published from "publish" only.
LEMMA PublishedFrom ==
    ASSUME TypeOK, NEW t \in Tasks, HandlerStep(t) \/ ExecutorStep(t),
           Finished(t)', status'[t] # "Failed"
    PROVE  status'[t] = status[t] \/ pc[t] = "publish"
<1> USE DEF TypeOK, Finished, FinishedStatuses, Statuses, recordVars, At
<1>1. CASE HandlerStep(t)
  BY <1>1 DEF HandlerStep, AcquireGlobal, RejectGlobal, AcquireRoute, RejectRoute, CreateTask,
         CreateFails, NoTaskYet
<1>2. CASE MarkRunning(t) \/ LingerRecord(t) \/ BeginGraceful(t) \/ BeginForce(t)
  BY <1>2 DEF MarkRunning, LingerRecord, BeginGraceful, BeginForce, RecordStopping
<1>3. CASE Publish(t) \/ PublishError(t)
  BY <1>3 DEF Publish, PublishError
<1>4. CASE SpawnWorker(t) \/ SpawnFails(t) \/ InitWorker(t) \/ InitFails(t) \/ ChildExits(t)
           \/ DeadlineFires(t) \/ StopReceived(t) \/ LingerEmpty(t) \/ LingerExpires(t)
           \/ LingerQueryFails(t) \/ WaitFails(t)
           \/ SignalGraceful(t) \/ GraceWorkerExits(t) \/ GraceTreeEmpty(t) \/ GraceExpires(t)
           \/ KillReceived(t) \/ ForceTree(t) \/ ReapTree(t) \/ JoinReaders(t) \/ ReleasePermits(t)
           \/ AbortRun(t) \/ MarkFinished(t)
  BY <1>4 DEF SpawnWorker, SpawnFails, InitWorker, InitFails, ChildExits, DeadlineFires, StopReceived,
         LingerEmpty, LingerQueryFails, EnterDrain, LingerExpires, WaitFails, SignalGraceful, GraceWorkerExits, GraceTreeEmpty,
         GraceExpires, KillReceived, ForceTree, ReapTree, JoinReaders, ReleasePermits, AbortRun, MarkFinished
<1> QED
  BY <1>1, <1>2, <1>3, <1>4 DEF ExecutorStep, ProgressStep

\* run_task reaches its end only through the join of the readers.
LEMMA JoinedBefore ==
    ASSUME TypeOK, NEW t \in Tasks, HandlerStep(t) \/ ExecutorStep(t)
    PROVE  /\ pc'[t] \in HandlerPoints \cup {"spawned"} => pc[t] \in HandlerPoints
           /\ pc'[t] \in {"release", "publish"} =>
                 pc[t] = "release" \/ \A s \in StreamSet : reader[t][s] = "eof"
<1> DEFINE Middle == ExecutorPoints \ {"spawned", "release", "publish"}
<1>1. CASE HandlerStep(t)
  BY <1>1 DEF HandlerStep, AcquireGlobal, RejectGlobal, AcquireRoute, RejectRoute, CreateTask, CreateFails,
         TypeOK, HandlerPoints, At
<1>2. ASSUME \E q \in Middle : pc' = [pc EXCEPT ![t] = q]
      PROVE  pc'[t] \notin HandlerPoints \cup {"spawned", "release", "publish"}
  BY <1>2 DEF TypeOK, HandlerPoints, ExecutorPoints
<1>3. CASE SpawnWorker(t) \/ SpawnFails(t) \/ InitWorker(t) \/ InitFails(t) \/ MarkRunning(t)
  BY <1>2, <1>3 DEF SpawnWorker, SpawnFails, InitWorker, InitFails, MarkRunning, Proceed, ExecutorPoints
<1>4. CASE ChildExits(t) \/ DeadlineFires(t) \/ StopReceived(t) \/ LingerEmpty(t)
           \/ LingerQueryFails(t) \/ LingerExpires(t) \/ LingerRecord(t) \/ WaitFails(t)
  <2>1. \E q \in Middle : pc' = [pc EXCEPT ![t] = q]
    BY <1>4 DEF ChildExits, DeadlineFires, StopReceived, StopEntry, LingerEmpty, LingerQueryFails,
           EnterDrain, LingerExpires, LingerRecord, WaitFails, Proceed, ExecutorPoints
  <2> QED
    BY <1>2, <2>1
<1>5. CASE BeginGraceful(t) \/ SignalGraceful(t) \/ GraceWorkerExits(t) \/ GraceTreeEmpty(t)
           \/ GraceExpires(t) \/ KillReceived(t)
  <2>1. \E q \in Middle : pc' = [pc EXCEPT ![t] = q]
    BY <1>5 DEF BeginGraceful, SignalGraceful, GraceWorkerExits, GraceTreeEmpty, EnterDrain,
           GraceExpires, KillReceived, Proceed, ExecutorPoints
  <2> QED
    BY <1>2, <2>1
<1>6. CASE BeginForce(t) \/ ForceTree(t) \/ ReapTree(t)
  <2>1. \E q \in Middle : pc' = [pc EXCEPT ![t] = q]
    BY <1>6 DEF BeginForce, ForceTree, ReapTree, EnterDrain, Proceed, ExecutorPoints
  <2> QED
    BY <1>2, <2>1
<1>7. CASE JoinReaders(t)
  <2>1. \/ pc' = [pc EXCEPT ![t] = "err"]
        \/ pc' = [pc EXCEPT ![t] = "release"] /\ \A s \in StreamSet : reader[t][s] = "eof"
    BY <1>7 DEF JoinReaders
  <2> QED
    BY <2>1 DEF TypeOK, HandlerPoints
<1>8. CASE ReleasePermits(t)
  BY <1>8 DEF ReleasePermits, TypeOK, HandlerPoints, At
<1>9. CASE Publish(t) \/ AbortRun(t) \/ PublishError(t) \/ MarkFinished(t)
  BY <1>9 DEF Publish, AbortRun, PublishError, MarkFinished, Proceed, TypeOK, HandlerPoints, At
<1> QED
  BY <1>1, <1>3, <1>4, <1>5, <1>6, <1>7, <1>8, <1>9 DEF ExecutorStep, ProgressStep

\* Handler and executor keep what readers and exit codes say.
LEMMA ExecutorOutcome ==
    ASSUME TypeOK, NEW t \in Tasks, ShapedAt(t), PipeInv(t), TreeInv(t), OutcomeAt(t),
           HandlerStep(t) \/ ExecutorStep(t)
    PROVE  OutcomeAt(t)'
<1> USE DEF OutcomeAt
<1>1. CASE SpawnWorker(t)
  <2>1. pc[t] = "spawned" /\ pc'[t] = "started" /\ status'[t] = "Starting"
    BY <1>1 DEF SpawnWorker, At, TypeOK, ShapedAt, Shape, recordVars
  <2>2. worker[t] = "none"
    BY <2>1 DEF PipeInv, TreeInv
  <2>3. ~workerOk'[t] /\ scriptCode' = scriptCode
    BY <1>1, <2>2 DEF SpawnWorker, CodeAt
  <2>4. \A s \in StreamSet : reader'[t][s] = "reading"
    BY <1>1 DEF SpawnWorker, TypeOK
  <2>5. ReadersAt(t)'
    BY <2>1, <2>4 DEF ReadersAt, HandlerPoints, Finished, FinishedStatuses
  <2> QED
    BY <2>3, <2>5 DEF CodeAt
<1>3. CASE SpawnFails(t)
  <2>1. pc[t] = "spawned" /\ pc'[t] = "err" /\ status'[t] = "Starting"
    BY <1>3 DEF SpawnFails, At, TypeOK, ShapedAt, Shape, recordVars
  <2>2. UNCHANGED <<worker, procs, scriptCode, workerOk>>
    BY <1>3 DEF SpawnFails, treeVars
  <2>3. \A s \in StreamSet : reader'[t][s] \in {"none", "reading"}
    BY <1>3 DEF SpawnFails, TypeOK
  <2>4. ReadersAt(t)'
    BY <2>1, <2>3 DEF ReadersAt, HandlerPoints, Finished, FinishedStatuses
  <2> QED
    BY <2>2, <2>4 DEF CodeAt
<1>2. CASE ~SpawnWorker(t) /\ ~SpawnFails(t)
  <2>1. UNCHANGED <<worker, procs, reader, scriptCode, workerOk>>
    BY <1>2, ExecutorLeaves
  <2>2. CodeAt(t)'
    BY <2>1 DEF CodeAt
  <2>3. pc'[t] \in HandlerPoints \cup {"spawned"} => \A s \in StreamSet : reader'[t][s] = "none"
    BY <2>1, JoinedBefore DEF ReadersAt
  <2>4. pc'[t] \in {"release", "publish"} => \A s \in StreamSet : reader'[t][s] = "eof"
    BY <2>1, JoinedBefore DEF ReadersAt
  <2>5. Finished(t)' /\ status'[t] # "Failed" => \A s \in StreamSet : reader'[t][s] = "eof"
    BY <2>1, PublishedFrom DEF ReadersAt, Finished
  <2>6. (\E s \in StreamSet : reader'[t][s] = "eof") => ~PipesHeld(t)'
    BY <2>1 DEF ReadersAt, PipesHeld
  <2> QED
    BY <2>2, <2>3, <2>4, <2>5, <2>6 DEF ReadersAt
<1> QED
  BY <1>1, <1>2, <1>3

\* A step around the executor that leaves readers and codes to the invariant:
\* the worker's exit status may be lost, but no new writer of the pipes appears.
LEMMA QuietOutcome ==
    ASSUME NEW t \in Tasks, OutcomeAt(t), UNCHANGED <<pc, status, reader>>,
           procs'[t] \subseteq procs[t],
           workerOk'[t] => workerOk[t] /\ worker'[t] = "exited",
           scriptCode'[t] = scriptCode[t]
    PROVE  OutcomeAt(t)'
<1>1. PipesHeld(t)' => PipesHeld(t)
  BY DEF PipesHeld
<1>2. ReadersAt(t)'
  BY <1>1 DEF OutcomeAt, ReadersAt, Finished
<1>3. CodeAt(t)'
  BY DEF OutcomeAt, CodeAt
<1> QED
  BY <1>2, <1>3 DEF OutcomeAt

\* Worker steps: only an exit after the script, with a code clamped to zero, is
\* a success.
LEMMA WorkerOutcome ==
    ASSUME TypeOK, NEW t \in Tasks, TreeInv(t), OutcomeAt(t), WorkerStep(t) \/ WorkerCrash(t)
    PROVE  OutcomeAt(t)'
<1>0. UNCHANGED <<pc, status, reader, scriptCode>>
  BY DEF WorkerStep, WorkerStart, WorkerStartFails, WorkerNoticesExit, WorkerExit, WorkerForce,
         WorkerGracefulFails, WorkerCrash, EndWorker, executorVars, recordVars, outcomeVars
<1>1. CASE WorkerStart(t)
  <2>1. /\ procs[t] = {"worker"} /\ worker[t] = "init"
        /\ UNCHANGED workerOk
    BY <1>1 DEF WorkerStart, TreeInv, outcomeVars
  <2>2. PipesHeld(t) /\ ~workerOk[t]
    BY <2>1 DEF PipesHeld, Redirected, OutcomeAt, CodeAt
  <2>3. ReadersAt(t)'
    BY <1>0, <2>2 DEF OutcomeAt, ReadersAt, Finished
  <2>4. CodeAt(t)'
    BY <1>0, <2>1, <2>2 DEF OutcomeAt, CodeAt
  <2> QED
    BY <2>3, <2>4 DEF OutcomeAt
<1>2. CASE WorkerNoticesExit(t) \/ WorkerForce(t)
  <2>1. procs' = procs /\ workerOk' = workerOk /\ worker[t] = "loop"
    BY <1>2 DEF WorkerNoticesExit, WorkerForce, outcomeVars
  <2>2. ~workerOk[t]
    BY <2>1 DEF OutcomeAt, CodeAt
  <2> QED
    BY <1>0, <2>1, <2>2, QuietOutcome
<1>3. CASE EndWorker(t, FALSE)
  <2>1. procs'[t] \subseteq procs[t] /\ ~workerOk'[t]
    BY <1>3 DEF EndWorker, TypeOK
  <2> QED
    BY <1>0, <2>1, QuietOutcome
<1>4. CASE WorkerExit(t)
  <2>1. /\ worker[t] = "reap" /\ worker'[t] = "exited" /\ procs'[t] = procs[t] \ {"worker"}
        /\ workerOk'[t] = (ClampedCode(scriptCode[t]) = 0)
    BY <1>4 DEF WorkerExit, EndWorker, TypeOK
  <2>2. "script" \notin procs'[t] /\ (PipesHeld(t)' => PipesHeld(t))
    BY <2>1 DEF TreeInv, PipesHeld
  <2>3. ReadersAt(t)'
    BY <1>0, <2>2 DEF OutcomeAt, ReadersAt, Finished
  <2>4. CodeAt(t)'
    BY <1>0, <2>1, <2>2 DEF OutcomeAt, CodeAt
  <2> QED
    BY <2>3, <2>4 DEF OutcomeAt
<1> QED
  BY <1>1, <1>2, <1>3, <1>4 DEF WorkerStep, WorkerCrash, WorkerStartFails, WorkerGracefulFails

\* A process without the pipes forks none that has them.
LEMMA ForkOutcome ==
    ASSUME TypeOK, NEW t \in Tasks, NEW kind \in DescKinds, OutcomeAt(t), ScriptForks(t, kind)
    PROVE  OutcomeAt(t)'
<1>0. UNCHANGED <<pc, status, reader, scriptCode, workerOk, worker>> /\ procs'[t] = procs[t] \cup {kind}
  BY DEF ScriptForks, executorVars, recordVars, outcomeVars, TypeOK
<1>1. PICK parent \in procs[t] : MayFork(parent, kind)
  BY DEF ScriptForks
<1>2. PipesHeld(t)' => PipesHeld(t)
  BY <1>0, <1>1 DEF PipesHeld, MayFork
<1>3. ReadersAt(t)'
  BY <1>0, <1>2 DEF OutcomeAt, ReadersAt, Finished
<1>4. kind # "script"
  BY DescKindsAssumption
<1>5. CodeAt(t)'
  BY <1>0, <1>4 DEF OutcomeAt, CodeAt
<1> QED
  BY <1>3, <1>5 DEF OutcomeAt

\* A reader that sees the end of its pipe, or fails, was still reading.
LEMMA ReaderOutcome ==
    ASSUME TypeOK, NEW t \in Tasks, NEW s \in StreamSet, OutcomeAt(t), ReaderEof(t, s) \/ ReaderFails(t, s)
    PROVE  OutcomeAt(t)'
<1>0. UNCHANGED <<pc, status, procs, scriptCode, workerOk, worker>> /\ reader[t][s] = "reading"
  BY DEF ReaderEof, ReaderFails, executorVars, recordVars, treeVars
<1>1. CodeAt(t)'
  BY <1>0 DEF OutcomeAt, CodeAt
<1>2. pc[t] \notin HandlerPoints \cup {"spawned", "release", "publish"} /\ (Finished(t) => status[t] = "Failed")
  BY <1>0 DEF OutcomeAt, ReadersAt
<1>3. \A r \in StreamSet : reader'[t][r] = "eof" => reader[t][r] = "eof" \/ ~PipesHeld(t)
  BY DEF ReaderEof, ReaderFails, TypeOK
<1>4. ReadersAt(t)'
  BY <1>0, <1>2, <1>3 DEF OutcomeAt, ReadersAt, Finished, PipesHeld
<1> QED
  BY <1>1, <1>4 DEF OutcomeAt

\* Steps around the executor keep the invariant.
LEMMA EnvironmentOutcome ==
    ASSUME TypeOK, NEW t \in Tasks, TreeInv(t), OutcomeAt(t), EnvironmentStep(t)
    PROVE  OutcomeAt(t)'
<1>1. ASSUME NEW reason \in RequestReasons, RequestStop(t, reason)
      PROVE  OutcomeAt(t)'
  <2>1. UNCHANGED <<pc, status, reader, procs, workerOk, worker, scriptCode>>
    BY <1>1 DEF RequestStop, treeVars, outcomeVars
  <2> QED
    BY <2>1, QuietOutcome DEF OutcomeAt, CodeAt
<1>2. ASSUME NEW kind \in DescKinds, DescendantExits(t, kind)
      PROVE  OutcomeAt(t)'
  <2>1. UNCHANGED <<pc, status, reader, workerOk, worker, scriptCode>> /\ procs'[t] \subseteq procs[t]
    BY <1>2 DEF DescendantExits, executorVars, recordVars, outcomeVars, TypeOK
  <2> QED
    BY <2>1, QuietOutcome DEF OutcomeAt, CodeAt
<1>3. ASSUME NEW code \in ScriptCodes, ScriptExits(t, code)
      PROVE  OutcomeAt(t)'
  <2>1. /\ UNCHANGED <<pc, status, reader, workerOk, worker>> /\ procs'[t] \subseteq procs[t]
        /\ "script" \in procs[t] /\ scriptCode'[t] = code
    BY <1>3 DEF ScriptExits, executorVars, recordVars, TypeOK
  <2>2. CodeAt(t)'
    BY <2>1 DEF OutcomeAt, CodeAt
  <2>3. PipesHeld(t)' => PipesHeld(t)
    BY <2>1 DEF PipesHeld
  <2>4. ReadersAt(t)'
    BY <2>1, <2>3 DEF OutcomeAt, ReadersAt, Finished
  <2> QED
    BY <2>2, <2>4 DEF OutcomeAt
<1>4. ASSUME NEW p \in Processes, DoomedDies(t, p)
      PROVE  OutcomeAt(t)'
  <2>1. UNCHANGED <<pc, status, reader, scriptCode>> /\ procs'[t] \subseteq procs[t]
    BY <1>4 DEF DoomedDies, EndWorker, executorVars, recordVars, outcomeVars, TypeOK
  <2>2. ~workerOk'[t] \/ UNCHANGED <<worker, workerOk>>
    BY <1>4 DEF DoomedDies, EndWorker, outcomeVars, TypeOK
  <2> QED
    BY <2>1, <2>2, QuietOutcome DEF OutcomeAt, CodeAt
<1> QED
  BY <1>1, <1>2, <1>3, <1>4, WorkerOutcome, ForkOutcome, ReaderOutcome DEF EnvironmentStep

\* No reader and no success is there in the beginning, and no step breaks the
\* invariant.
LEMMA OutcomeInit == Init => OutcomeInv
<1> SUFFICES ASSUME Init PROVE OutcomeInv
  OBVIOUS
<1>1. ASSUME NEW t \in Tasks PROVE OutcomeAt(t)
  BY DEF Init, OutcomeAt, ReadersAt, CodeAt, Finished, FinishedStatuses, Statuses
<1> QED
  BY <1>1, TreesInit DEF OutcomeInv

\* Readers and exit codes of every task agree with its tree and its status after
\* every step.
LEMMA OutcomeStep ==
    ASSUME OutcomeInv, [Next]_vars
    PROVE  OutcomeInv'
<1>0. TypeOK /\ \A t \in Tasks : ShapedAt(t) /\ PipeInv(t) /\ TreeInv(t) /\ OutcomeAt(t)
  BY DEF OutcomeInv, TreesInv, TreesAt, IInv, Shaped
<1>1. TreesInv'
  BY TreesStep DEF OutcomeInv
<1>2. CASE Quiescent \/ UNCHANGED vars
  BY <1>0, <1>1, <1>2 DEF Quiescent, vars, executorVars, recordVars, treeVars, outcomeVars, OutcomeInv,
         OutcomeAt, ReadersAt, CodeAt, Finished, PipesHeld
<1>3. ASSUME NEW t \in Tasks,
             HandlerStep(t) \/ ExecutorStep(t) \/ WorkerStep(t) \/ EnvironmentStep(t)
      PROVE  \A u \in Tasks : OutcomeAt(u)'
  <2>1. OutcomeAt(t)'
    BY <1>0, <1>3, ExecutorOutcome, WorkerOutcome, EnvironmentOutcome
  <2>2. ASSUME NEW u \in Tasks, u # t PROVE OutcomeAt(u)'
    <3>1. OutcomeAt(u)
      BY <1>0
    <3> QED
      BY <1>0, <1>3, <2>2, <3>1, Elsewhere DEF OutcomeAt, ReadersAt, CodeAt, Finished, PipesHeld
  <2> QED
    BY <2>1, <2>2
<1> QED
  BY <1>1, <1>2, <1>3 DEF Next, OutcomeInv

\* What readers, exit codes and pipes of a task say holds in every reachable state.
THEOREM OutcomeInvariant == Spec => []OutcomeInv
<1>1. OutcomeInv /\ [Next]_vars => OutcomeInv'
  BY OutcomeStep
<1> QED
  BY OutcomeInit, <1>1, PTL DEF Spec

\* The output behind a status other than failed is complete: every reader has
\* read its pipe to the end, and no process of the tree is left that could
\* write into it, not even one that left the process group.
OutputComplete ==
    \A t \in Tasks :
        Finished(t) /\ status[t] # "Failed" =>
            (\A s \in StreamSet : reader[t][s] = "eof") /\ ~PipesHeld(t)

\* run_task joins its readers before it publishes, whatever was stopped, killed
\* or left running on the way; a client that sees such a status has the output.
THEOREM OutputCompleteHolds == Spec => []OutputComplete
<1>1. ASSUME OutcomeInv PROVE OutputComplete
  <2> SUFFICES ASSUME NEW t \in Tasks, Finished(t), status[t] # "Failed"
               PROVE  (\A s \in StreamSet : reader[t][s] = "eof") /\ ~PipesHeld(t)
    BY DEF OutputComplete
  <2>1. \A s \in StreamSet : reader[t][s] = "eof"
    BY <1>1 DEF OutcomeInv, OutcomeAt, ReadersAt
  <2>2. \E s \in StreamSet : TRUE
    <3>1. 1 \in DOMAIN Streams
      <4>1. CASE Streams = <<"combined">>
        BY <4>1
      <4>2. CASE Streams = <<"stdout", "stderr">>
        BY <4>2
      <4> QED
        BY <4>1, <4>2, StreamsAssumption
    <3> QED
      BY <3>1 DEF StreamSet
  <2> QED
    BY <1>1, <2>1, <2>2 DEF OutcomeInv, OutcomeAt, ReadersAt
<1> QED
  BY <1>1, OutcomeInvariant, PTL

\* Where no exit code is negative, as on unix, a task that succeeded had a script
\* that ended with zero; only the clamp of negative codes in main stands between
\* the two on Windows.
THEOREM SucceededMeansZeroHolds ==
    ASSUME ScriptCodes \subseteq Nat
    PROVE  Spec => []SucceededMeansZero
<1>1. ASSUME OutcomeInv PROVE SucceededMeansZero
  <2> SUFFICES ASSUME NEW t \in Tasks, status[t] = "Succeeded"
               PROVE  scriptCode[t] = 0
    BY DEF SucceededMeansZero
  <2>1. workerOk[t]
    BY <1>1 DEF OutcomeInv, TreesInv, IInv, Shaped, ShapedAt, Consistent
  <2>2. CodeAt(t)
    BY <1>1 DEF OutcomeInv, OutcomeAt
  <2>3. ClampedCode(scriptCode[t]) = 0
    BY <2>1, <2>2, Zenon DEF CodeAt
  <2>4. scriptCode[t] \in ScriptCodes \cup {1}
    BY <2>2 DEF CodeAt
  <2>5. scriptCode[t] \in Nat
    <3>1. ScriptCodes \cup {1} \subseteq Nat
      OBVIOUS
    <3> QED
      BY <2>4, <3>1, Zenon
  <2> QED
    BY <2>3, <2>5 DEF ClampedCode
<1> QED
  BY <1>1, OutcomeInvariant, PTL

-----------------------------------------------------------------------------
(* The accounts of the store.                                                 *)

\* A step that keeps every status, stop request and the count, and ends no
\* executor, is none of the ledger.
LEMMA LedgerStill ==
    ASSUME UNCHANGED <<status, stop, active>>, \A u \in Tasks : pc'[u] = "done" <=> pc[u] = "done"
    PROVE  UNCHANGED Ledger!ledgerVars
<1>1. Lives' = Lives
  BY DEF Lives, Finished
<1>2. StopAsked' = StopAsked
  BY DEF StopAsked
<1> QED
  BY <1>1, <1>2 DEF Ledger!ledgerVars

\* Where t is in its life decides its entry; the others keep theirs.
LEMMA LivesUpdate ==
    ASSUME NEW t \in Tasks, NEW life,
           \A u \in Tasks : u # t => pc'[u] = pc[u] /\ status'[u] = status[u],
           Lives'[t] = life
    PROVE  Lives' = [Lives EXCEPT ![t] = life]
<1>1. \A u \in Tasks : Lives'[u] = [Lives EXCEPT ![t] = life][u]
  BY DEF Lives, Finished
<1> QED
  BY <1>1 DEF Lives

\* A stop that is sent, by a client, the service or a reader.
LEMMA LedgerAsk ==
    ASSUME TypeOK, NEW t \in Tasks, status[t] # "Absent", NEW reason, reason # "none",
           stop' = [stop EXCEPT ![t] = reason], UNCHANGED <<pc, status, active>>
    PROVE  Ledger!Next
<1>1. Lives' = Lives /\ Lives[t] # "none"
  BY DEF Lives, Finished
<1>2. \A u \in Tasks : (stop'[u] # "none") = [StopAsked EXCEPT ![t] = TRUE][u]
  BY DEF StopAsked, TypeOK
<1>3. StopAsked' = [StopAsked EXCEPT ![t] = TRUE]
  BY <1>2 DEF StopAsked
<1>4. Ledger!Ask(t)
  BY <1>1, <1>3 DEF Ledger!Ask
<1> QED
  BY <1>4 DEF Ledger!Next

\* The handler enters a task with its creation and does nothing else the ledger
\* knows of.
LEMMA LedgerHandler ==
    ASSUME IInv, NEW t \in Tasks, HandlerStep(t)
    PROVE  Ledger!Next \/ UNCHANGED Ledger!ledgerVars
<1>0. TypeOK /\ Shape(pc[t], permits[t] # {}, stopReason[t], status[t], term[t])
  BY DEF IInv, Shaped, ShapedAt
<1>1. CASE CreateTask(t)
  <2>1. /\ status[t] = "Absent" /\ status'[t] = "Starting" /\ pc'[t] = "spawned"
        /\ stop' = stop /\ active' = active + 1
    BY <1>0, <1>1 DEF CreateTask, At, Shape, HandlerPoints, TypeOK
  <2>2. \A u \in Tasks : u # t => pc'[u] = pc[u] /\ status'[u] = status[u]
    BY <1>0, OnlyOwnTask
  <2>3. Lives[t] = "none" /\ Lives'[t] = "running"
    BY <2>1 DEF Lives, Finished, FinishedStatuses
  <2>4. Lives' = [Lives EXCEPT ![t] = "running"]
    BY <2>2, <2>3, LivesUpdate
  <2>5. Ledger!Enter(t)
    BY <2>1, <2>3, <2>4 DEF Ledger!Enter, StopAsked
  <2> QED
    BY <2>5 DEF Ledger!Next
<1>2. CASE ~CreateTask(t)
  <2>1. UNCHANGED <<status, stop, active>>
    BY <1>2 DEF HandlerStep, AcquireGlobal, RejectGlobal, AcquireRoute, RejectRoute, CreateFails, NoTaskYet,
           recordVars
  <2>2. \A u \in Tasks : pc'[u] = "done" <=> pc[u] = "done"
    BY <1>0, <1>2, HandlerMoves DEF TypeOK, HandlerPoints
  <2> QED
    BY <2>1, <2>2, LedgerStill
<1> QED
  BY <1>1, <1>2

\* A status that stays active, or stays terminal, is none of the ledger.
LEMMA LedgerSameLife ==
    ASSUME TypeOK, NEW t \in Tasks, ExecutorStep(t), UNCHANGED <<stop, active>>,
           pc[t] # "done", pc'[t] # "done",
           \/ status'[t] = status[t]
           \/ status[t] \in ActiveStatuses /\ status'[t] \in ActiveStatuses
    PROVE  UNCHANGED Ledger!ledgerVars
<1>1. \A u \in Tasks : u # t => pc'[u] = pc[u] /\ status'[u] = status[u]
  BY OnlyOwnTask
<1>2. Lives'[t] = Lives[t]
  BY DEF Lives, Finished, ActiveStatuses, FinishedStatuses, Statuses
<1>3. Lives' = Lives
  BY <1>1, <1>2, LivesUpdate DEF Lives
<1> QED
  BY <1>3 DEF Ledger!ledgerVars, StopAsked

\* A task whose executor publishes a terminal status has run until then.
LEMMA LedgerPublish ==
    ASSUME TypeOK, NEW t \in Tasks, ExecutorStep(t), UNCHANGED <<stop, active>>,
           pc[t] # "done", pc'[t] # "done",
           status[t] \in ActiveStatuses, status'[t] \in FinishedStatuses
    PROVE  Ledger!Next
<1>1. \A u \in Tasks : u # t => pc'[u] = pc[u] /\ status'[u] = status[u]
  BY OnlyOwnTask
<1>2. Lives[t] = "running" /\ Lives'[t] = "published"
  BY DEF Lives, Finished, ActiveStatuses, FinishedStatuses, Statuses
<1>3. Lives' = [Lives EXCEPT ![t] = "published"]
  BY <1>1, <1>2, LivesUpdate
<1>4. Ledger!Publish(t)
  BY <1>2, <1>3 DEF Ledger!Publish, StopAsked
<1> QED
  BY <1>4 DEF Ledger!Next

\* run_task and start_task publish, and then count out, once, on every path.
LEMMA LedgerExecutor ==
    ASSUME IInv, NEW t \in Tasks, ExecutorStep(t)
    PROVE  Ledger!Next \/ UNCHANGED Ledger!ledgerVars
<1>0. TypeOK /\ Shape(pc[t], permits[t] # {}, stopReason[t], status[t], term[t])
  BY DEF IInv, Shaped, ShapedAt
<1>1. CASE MarkFinished(t)
  <2>1. pc[t] = "mark" /\ pc'[t] = "done" /\ status' = status /\ stop' = stop /\ active' = active - 1
    BY <1>0, <1>1 DEF MarkFinished, At, TypeOK, recordVars
  <2>2. Finished(t)
    BY <1>0, <2>1 DEF Shape, Finished
  <2>3. Lives[t] = "published" /\ Lives'[t] = "out"
    BY <2>1, <2>2 DEF Lives, Finished, FinishedStatuses, Statuses
  <2>4. \A u \in Tasks : u # t => pc'[u] = pc[u] /\ status'[u] = status[u]
    BY <1>0, OnlyOwnTask
  <2>5. Lives' = [Lives EXCEPT ![t] = "out"]
    BY <2>3, <2>4, LivesUpdate
  <2>6. Ledger!CountOut(t)
    BY <2>1, <2>3, <2>5 DEF Ledger!CountOut, StopAsked
  <2> QED
    BY <2>6 DEF Ledger!Next
<1>2. CASE ~MarkFinished(t)
  <2>1. pc[t] # "done" /\ pc'[t] # "done" /\ active' = active /\ pc[t] \notin HandlerPoints
    BY <1>0, <1>2, ExecutorMoves DEF ExecutorPoints, HandlerPoints, TypeOK
  <2>2. stop' = stop
    BY <1>2 DEF ExecutorStep, ProgressStep, SpawnWorker, SpawnFails, InitWorker, InitFails, MarkRunning, ChildExits,
           DeadlineFires, StopReceived, LingerEmpty, LingerQueryFails, EnterDrain, LingerExpires, LingerRecord,
           WaitFails, BeginGraceful, SignalGraceful, GraceWorkerExits, GraceTreeEmpty, GraceExpires, KillReceived,
           BeginForce, ForceTree, ReapTree, JoinReaders, ReleasePermits, Publish, AbortRun,
           PublishError, recordVars
  <2>3. status[t] \in ActiveStatuses \cup FinishedStatuses
    BY <1>0, <2>1 DEF TypeOK, Shape, ActiveStatuses, FinishedStatuses, Statuses
  <2>4. CASE MarkRunning(t) \/ LingerRecord(t) \/ BeginGraceful(t) \/ BeginForce(t)
    <3>1. status'[t] \in {"Running", "Stopping"}
      BY <1>0, <2>4 DEF MarkRunning, LingerRecord, BeginGraceful, BeginForce, RecordStopping, TypeOK
    <3>2. status[t] \notin FinishedStatuses
      BY <1>0, <2>4 DEF MarkRunning, LingerRecord, BeginGraceful, BeginForce, At, Shape
    <3> QED
      BY <1>0, <2>1, <2>2, <2>3, <3>1, <3>2, LedgerSameLife DEF ActiveStatuses, FinishedStatuses, Statuses
  <2>5. CASE Publish(t)
    <3>1. status'[t] \in FinishedStatuses
      BY <1>0, <2>5 DEF Publish, TypeOK, FinalStatus, FinishedStatuses, Statuses
    <3>2. status[t] \notin FinishedStatuses
      BY <1>0, <2>5 DEF Publish, At, Shape
    <3> QED
      BY <1>0, <2>1, <2>2, <2>3, <3>1, <3>2, LedgerPublish
  <2>6. CASE PublishError(t)
    <3>1. status'[t] = IF status[t] \in FinishedStatuses THEN status[t] ELSE "Failed"
      BY <1>0, <2>6 DEF PublishError, TypeOK
    <3>2. "Failed" \in FinishedStatuses
      BY DEF FinishedStatuses, Statuses
    <3> QED
      BY <1>0, <2>1, <2>2, <2>3, <3>1, <3>2, LedgerPublish, LedgerSameLife
  <2>7. CASE ~MarkRunning(t) /\ ~LingerRecord(t) /\ ~BeginGraceful(t) /\ ~BeginForce(t) /\ ~Publish(t)
             /\ ~PublishError(t)
    <3>1. status' = status
      BY <1>2, <2>7 DEF ExecutorStep, ProgressStep, SpawnWorker, SpawnFails, InitWorker, InitFails, ChildExits,
             DeadlineFires, StopReceived, LingerEmpty, LingerQueryFails, EnterDrain, LingerExpires,
             WaitFails, SignalGraceful,
             GraceWorkerExits, GraceTreeEmpty, GraceExpires, KillReceived, ForceTree, ReapTree,
             JoinReaders, ReleasePermits, AbortRun, recordVars
    <3> QED
      BY <1>0, <2>1, <2>2, <3>1, LedgerSameLife
  <2> QED
    BY <2>4, <2>5, <2>6, <2>7
<1> QED
  BY <1>1, <1>2

\* The worker and the scripts do not touch the ledger; clients, the service and
\* failing readers ask, and only a task that exists can be asked.
LEMMA LedgerOthers ==
    ASSUME OutcomeInv, NEW t \in Tasks, WorkerStep(t) \/ EnvironmentStep(t)
    PROVE  Ledger!Next \/ UNCHANGED Ledger!ledgerVars
<1>0. TypeOK /\ UNCHANGED <<pc, status, active>>
  BY OthersStill DEF OutcomeInv, TreesInv, IInv
<1>1. ASSUME NEW reason \in RequestReasons, RequestStop(t, reason)
      PROVE  Ledger!Next
  <2>1. status[t] # "Absent" /\ stop' = [stop EXCEPT ![t] = reason]
    BY <1>1 DEF RequestStop, ActiveStatuses, Statuses
  <2>2. reason # "none"
    BY ReasonsAssumption
  <2> QED
    BY <1>0, <2>1, <2>2, LedgerAsk
<1>2. ASSUME NEW s \in StreamSet, ReaderFails(t, s)
      PROVE  Ledger!Next
  <2>1. pc[t] \notin HandlerPoints
    BY <1>2 DEF ReaderFails, OutcomeInv, OutcomeAt, ReadersAt
  <2>2. status[t] # "Absent"
    BY <2>1 DEF OutcomeInv, TreesInv, IInv, Shaped, ShapedAt, Shape
  <2>3. stop' = [stop EXCEPT ![t] = "LoggingFailure"]
    BY <1>2 DEF ReaderFails
  <2> QED
    BY <1>0, <2>2, <2>3, LedgerAsk
<1>3. CASE stop' = stop
  BY <1>0, <1>3, LedgerStill
<1>4. CASE WorkerStep(t)
  <2>1. stop' = stop
    BY <1>4 DEF WorkerStep, WorkerStart, WorkerStartFails, WorkerNoticesExit, WorkerExit, WorkerForce,
           WorkerGracefulFails, EndWorker, recordVars
  <2> QED
    BY <1>3, <2>1
<1>5. CASE EnvironmentStep(t)
  <2>1. \/ \E reason \in RequestReasons : RequestStop(t, reason)
        \/ \E s \in StreamSet : ReaderFails(t, s)
        \/ stop' = stop
    BY <1>5 DEF EnvironmentStep, ScriptForks, DescendantExits, ScriptExits, WorkerCrash, DoomedDies,
           ReaderEof, EndWorker, recordVars
  <2> QED
    BY <1>1, <1>2, <1>3, <2>1
<1> QED
  BY <1>4, <1>5

\* The executors keep the accounts of TaskLedger: a task is entered, published
\* and counted out once and in this order on every path of start_task and
\* run_task, and what asks a task to stop is never taken back.  ServiceRuntime
\* keeps the same accounts, so what run waits for is what the executors do.
THEOREM ExecutorImplementsLedger == Spec => ImplementsLedger
<1>1. Init => Ledger!Init
  <2> SUFFICES ASSUME Init PROVE Ledger!Init
    OBVIOUS
  <2>1. Lives = [t \in Tasks |-> "none"]
    BY DEF Init, Lives
  <2>2. StopAsked = [t \in Tasks |-> FALSE]
    BY DEF Init, StopAsked
  <2> QED
    BY <2>1, <2>2 DEF Init, Ledger!Init
<1>2. OutcomeInv /\ [Next]_vars => [Ledger!Next]_(Ledger!ledgerVars)
  <2> SUFFICES ASSUME OutcomeInv, [Next]_vars
               PROVE  Ledger!Next \/ UNCHANGED Ledger!ledgerVars
    OBVIOUS
  <2>1. IInv
    BY DEF OutcomeInv, TreesInv
  <2>2. CASE Quiescent \/ UNCHANGED vars
    BY <2>2, LedgerStill DEF Quiescent, vars, executorVars, recordVars
  <2> QED
    BY <2>1, <2>2, LedgerHandler, LedgerExecutor, LedgerOthers DEF Next
<1> QED
  BY <1>1, <1>2, OutcomeInvariant, PTL DEF Spec, ImplementsLedger, Ledger!Spec
=============================================================================
