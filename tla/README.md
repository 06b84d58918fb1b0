# Verification of command-api

`command-api` is an HTTP service that runs preconfigured scripts as tasks. This
directory holds TLA+ specifications translated from its source, TLC models of
them, and TLAPS proofs. Paths below are relative to the repository (`src/` in
`PROJECT.json`).

## The system

| Part | State it keeps | Operations | What makes it correct |
|---|---|---|---|
| HTTP application (`src/app.rs`) | two semaphores, lifecycle flag, management channel, cooldown table | execute, cancel, kill, views, stop, restart, authenticate | limits hold for the trees that run; what is answered with 202 happens |
| Task executor (`src/process/mod.rs`) | one future per task: stop reason in hand, permits, control pipe, process tree | start, select loop, graceful and forced stop, join readers, publish, error path | every task ends once with a status that fits its termination, after its permits are free |
| Worker (`src/process/mod.rs`, `platform.rs`) | own process: stop flag, script, grace timer | read spec, spawn script, notice exit or stop, force, wait for descendants | no process outlives its task |
| Output capture (`src/process/mod.rs`) | blocking reader per pipe; shared byte budget, size counters, truncation flag | read, reserve, write, count, flag | files are prefixes, together within the limit; flag and sizes are exact |
| Task store (`src/store.rs`) | one directory and event log per task, map of records, watch channel and snapshot per record, active count, lock file | open/recover, create, transition/persist, request_stop, cancel_all, wait_until_idle, expiry | a record survives crashes and torn appends until its retention time is over; a zero count means idle |
| Output pages (`src/store.rs`) | none: a page is made of a snapshot and a file that change meanwhile | output_chunk | a client that follows `next_offset` gets every byte once, whole code units, and `eof` only at the end |
| Authentication (`src/app.rs`, `src/secret.rs`) | cooldown table, cached fingerprint | normalize and check the address, cooldown, verify, record a failure | only the token is admitted; a failure keeps its address out for the configured time; the table is bounded |
| Service runtime (`src/runtime.rs`) | generation's configuration, action of the generation | open, serve, choose action, drain, cancel, wait, force, restart | a stop leaves no task behind; a restart serves the accepted configuration |
| Configuration (`src/config.rs`) | none that changes while serving | load and validate a file, validate request arguments | what is accepted can be served; only allowed arguments reach a script |
| CLI (`src/main.rs`), secret commands (`src/secret.rs`), Windows service (`src/service.rs`) | none | parse, make secrets, SCM events | I/O around the parts above |

Interactions: a handler takes the permits, creates the record in the store and
spawns the executor. Handlers, readers and the runtime reach an executor only
through the *watch* channel of its record, which holds one value. The executor
reaches its worker through a pipe and signals; the worker is a separate process
with a grace timer of its own. Executors reach the runtime through
`active_count` and a `Notify`. Handlers reach the runtime through a channel of
capacity one guarded by a compare-and-swap.

What is hard here: three timers (deadline, grace period, worker's own grace
period) race with exits and stop requests; a transition may fail after it
changed the snapshot in memory; readers and descendants outlive the script;
requests in flight overlap the shutdown; a wait is woken by notifications that
are not stored; a crash may cut an append anywhere; a page reads the status
before the file; the cooldown table is judged with times read before its lock. `PROJECT.json`
lists each such point at its line as a hazard.

## Modules

| Module | Models |
|---|---|
| `TaskModel` | statuses, stop reasons, terminations of `model.rs` |
| `TaskContract` | abstract specification: what a client may rely on for a task's status, termination and slot |
| `TaskLedger` | abstract specification: how the store accounts for tasks (entered, asked, published, counted out); implemented by `TaskExecutor` and by `ServiceRuntime` |
| `TaskExecutor` | admission, executor, worker, process tree, readers and stop requests of any number of tasks, on unix or Windows |
| `MCTaskExecutor` | its instances |
| `TaskExecutorProofs` | inductive invariant and theorems about it, refinement of `TaskContract` |
| `TaskTreeProofs` | inductive invariants of the process trees, the readers and the exit codes on top of it, and theorems about them; refinement of `TaskLedger` |
| `OutputCapture` | `copy_output` and the terminal snapshot's truncation flag |
| `OutputCaptureProofs` | inductive invariant and theorems about it |
| `ServiceRuntime` | `runtime::run` over generations, management requests, shutdown |
| `MCServiceRuntime` | its instances |
| `ServiceRuntimeProofs` | inductive invariant and theorems about it, refinement of `TaskLedger` |
| `OutputPaging` | a client of `output_chunk` on top of `OutputCapture` |
| `OutputPagingProofs` | refinement of `OutputCapture`, inductive invariant and theorems about it |
| `TaskStore` | directories, event logs, map, recovery and expiry over crashes and restarts |
| `TaskStoreProofs` | inductive invariant and theorems about it |
| `ConfigRules` | the rules of `config.rs` and the registration of routes, as pure operators |
| `FrontDoor` | a configuration file through `load` and `build`, then concurrent requests through `authenticate` |
| `MCFrontDoor` | its instance: configuration files, addresses, tokens, arguments |
| `FrontDoorProofs` | inductive invariant and theorems about it |
| `ArgumentProofs` | what the loop of `validate_request_args` decides, for every list |

Definitions whose comment begins with "Faulty variant" are plausible mistakes in
the definition that follows them. No specification uses them; `PROJECT.json`
pairs each with the property that notices it.

### TaskExecutor

`pc[t]` is the await point at which the handler or the executor of request `t`
is. Each action is the code between two await points at which other actors can
interfere; a status transition is one action that updates the snapshot and
appends to the log, and with `"io"` in `Failures` the append may fail, which
leaves the update in memory and aborts `run_task` as the `?` does. The order on
the error path (drop permits and tree, publish `Failed`, count down) is
`AbortRun`, `PublishError`, `MarkFinished`.

`stop[t]` and `seen[t]` are the watch channel: the last value and whether the
receiver has seen it. `procs[t]` are the live processes of the tree; `doomed[t]`
those already sent SIGKILL, or whose job object was ended. A descendant is one
of four kinds: it keeps or redirects the output, and stays in or leaves the
process group. Timers are nondeterministic. `control[t]` is the pipe to the
worker, `worker[t]` its loop. Platform differences: on unix a signal reaches the
group, `wait_empty` returns at once and the worker waits for all descendants as
their subreaper; on Windows the job holds every process, `wait_empty` polls it,
and dropping the tree ends it: in `AbortRun` on the error path, with the end of
`run_task` (`MarkFinished`) on the regular one.

With `"os"` in `Failures` a wait for the worker or the tree may fail as well.
Where the code passes the error on, `run_task` gives up (`WaitFails`). The wait
after the worker's exit looks only at the time limit and takes an error of the
query for an empty tree (`LingerQueryFails`). A start that fails may already have
its readers (`SpawnFails`).

Abstracted: command lines, environment, encodings, the wording and the method
names of terminations, timestamps, exit codes other than what success needs.

### OutputCapture

Bytes are counted. A reader's loop is split where the other reader can
interfere: reservation in `captured_bytes` (`ReadChunk`), write (`WriteChunk`,
which may fail part-way), size counter (`CountChunk`), flag (`FlagChunk`).
`MaxBytes` bounds what a script writes to one stream.

### ServiceRuntime

`phase` is where `run` is. Connections deliver requests until
`graceful_shutdown`; a handler may still run when the action has been chosen,
and `server.await` returns when none is left. The compare-and-swap and the
`try_send` of a management request are two steps. `wait_until_idle` is three:
load, creation of the `Notified` future, sleep; `mark_finished` is two, and the
end of the task's future, which drops its reference to the store and its lock,
a third. A configuration is a name that may or may not load, keep the log
directory, have routes the router takes (`Routable`), readable TLS files and
free ports. `Faults` are what else may go wrong: a reader fails and its
`LoggingFailure` replaces the reason in a task's channel (`ReaderFails`), the
store cannot read or write its files (`StoreFails`), another instance holds the
lock (`OtherInstance`). The check at the top of the
loop for a moved log directory cannot fail, since the restart handler has
compared the same value, so it is not an action. `MaxGenerations` bounds the
restarts. Tasks move by themselves; their inner steps are `TaskExecutor`'s.

### OutputPaging

`OutputCapture` goes on as it is (`Capturing`) while a client reads pages. A
page is three steps, as `output_chunk` is: clone the snapshot, open the file and
take its size, read. Between any two of them the readers may append and the
executor may publish the end. `PageBytes`, `After` and `PageEof` are the
arithmetic of a page. Decoding a page to text is left out. A refused request
changes nothing and is no action; that the client's own offset is never refused
is part of `PagingTypeOK`.

### TaskStore

`log[t]` is the sequence of lines of `events.jsonl`: snapshots, lines that are
not JSON (`Garbled`), lines that are not UTF-8 (`NotText`); `ended[t]` says
whether the last one has its newline, because the next append is glued to one
that has not. An append that fails, or that a crash cuts, leaves one of `Tears`:
nothing, a prefix, a prefix cut inside a character (only lines with a message
have characters of several bytes), or all but the newline. A transition is two
steps, the visible update and the append; the error path publishes `Failed` only
where no final status is visible, as `start_task` does. A reader may set the
truncation flag as long as there can be one (`Reading`): until the regular end,
before which `run_task` joins them, and after an error end, which leaves them
alone. `Lost` is the crash:
memory goes, the disk stays. `Open`, `Recover`, `SkipDirectory`, `RecoverTorn`,
`RecoverFails`, `SweepFirst` and `Serve` are `open`. `remove_dir_all` may remove
all, nothing, or the log only.

`told`, `due`, `damaged` and `safe` are history: the last final status a client
could read, its first `finished_at`, the tasks one of whose appends failed, and
final snapshots that are durable. Left out: the sizes that
`refresh_output_sizes` recomputes, durations in views, and the executor's inner
steps, which are `TaskExecutor`'s. `Successors` are the statuses it publishes:
`Stopping` may be appended twice, by `stop_process` and by `force_stop_process`,
and nothing goes back, which is `RecordsAdvanceHolds` of `TaskExecutorProofs`.

### ConfigRules and FrontDoor

Texts are abstract: a path is what `split('/')` makes of it; a token, an
argument or a program is a value with the features that the rules look at; a
script, a working directory, a log directory, a pattern or a TLS file is usable
or not. Beside the usable tokens there are those that `validate_token` refuses
(`Malformed`, and `"short"`), and those that it accepts and `HeaderValue::to_str` does not read, since they are not visible ASCII
(`Unreadable`). A PHC hash is accepted by its form, so that any of them may be
the configured one; no request can present one of `Unpresentable`.
`Accepted` is `load` with `resolve`, `RequestArgsAccepted` the loop of
`validate_request_args`, `Registers` what `Router::route` accepts (a library,
modelled from how `build` uses it).

In `FrontDoor` a request is at one of the points between which others can
interfere: after the CIDR check, with a time read and the lock not yet taken
(`cooldown`, `record`), before the token check (`verify`), and in
`spawn_blocking` (`hash`). `CheckCooldown` and `Record` are what happens under
the lock. `promised` and `forgotten` are history: the end of each address's last
cooldown, and the addresses evicted since. YAML syntax, default values and path
arithmetic are left out, and so are hashing and DPAPI.

## Runs

Each run is `tlc -config <name>.cfg <module>`.

| Run | Instance | Shows |
|---|---|---|
| `ExecutorUnix` | one task, three reasons, all failures | consistent permits, statuses, terminations and count; gentle before force; contract implemented |
| `ExecutorWindows` | one task, all failures, Windows, fair | tasks end, unless an ignored query error cost the time limit; the tree of a task that was stopped or counted out is ended |
| `ExecutorAdmission` | three requests, two routes | limits bound process trees |
| `ExecutorLiveUnix` | one task, failing logs and system calls, descendants in the group, fair | tasks end, permits return, no script stays of any task and no process of one that did not end as failed |
| `OutputPaging` | two readers, limit reached in mid-buffer, failures, a client, two encodings, fair | limit, sizes, truncation; output frozen after a regular end; pages whole, `eof` exact and reached |
| `ServiceLifecycle` | two tasks, two connections, two generations, six configurations, failing readers, a failing disk, a second instance, fair | no task left behind, every task asked, accepted actions performed, shutdown completes, restarts serve |
| `TaskStore` | one task, three crashes, every tear, fair | answered tasks are kept until due; durable ends survive; lost ones become interrupted, only; every answered task settles |
| `FrontDoor` | 92 configuration files, three requests, four addresses, no token or one of three | accepted literal routes register; only allowed arguments pass; only the token is admitted; the cooldown holds, its table is bounded and forgets only by overflow |

Bounds.

- Tasks interact only through the semaphores and the active count, so one task
  shows everything about an executor, and three requests on two routes (two
  permits in all, one per route) make both limits refuse while a task runs. One
  process of each kind is enough, because what matters of a tree is whether some
  process of a kind is left.
- In `OutputPaging` the limit is not a multiple of the buffer, so it is crossed
  inside a buffer and by either reader; pages of one to three bytes are shorter
  than, equal to and longer than a code unit and end inside one.
- Two generations contain a restart with everything before and after it. Two
  connections let a management call race another call or a task's creation.
- On disk tasks share nothing, so `TaskStore` has one. Three crashes reach a
  crash in the append, another in the recovery's own append, and a third after
  it. With a retention of one and a clock up to three a task expires while its
  executor still has to append, and a recovered task expires after a restart.
- The files of `FrontDoor` differ from a good one in one place, and each rule is
  broken by some file. Requests are followed for the seven files (`Served`) that
  differ in what `authenticate` does, two of which configure a token that no
  request can present. Of such tokens one is carried, since `authenticate`
  answers all of them alike, before any comparison. With a table of one every second address
  overflows; with a table of two and three addresses there is a choice whom to
  evict. The cooldown is two ticks of three, so that it ends within a run, and an
  address comes as IPv4 and as its IPv6-mapped form. Requests are
  interchangeable, hence the symmetry; the properties checked with it are
  invariants and properties of single steps.

Fairness. The runtime polls a future that is ready, timers fire, blocking
readers run, the kernel delivers SIGKILL and closes the pipes of dead processes:
weak fairness of the executor, worker, reader and kernel steps. No fairness is
given to scripts, descendants, clients or failures. `ServiceLifecycle` assumes
that a handler finishes and that a task that was asked to stop ends, which is
`TaskTerminates` where that holds. `TaskStore` assumes the same of executors,
and that a process that is down is started again and goes on in `open`; crashes
are bounded. `OutputPaging` assumes a client that goes on asking and, again and
again, leaves room for a code unit (strong fairness, since pages of one byte may
come in between); it assumes nothing of the script, and `FollowerReachesEof`
starts from an end that was published.

### Statements the code does not keep

These runs end with a counterexample.

- `KillDowngraded`: the stop channel keeps one value, and a cancel or a shutdown
  sent after a kill replaces it before the executor looks. The kill was answered
  with 202, the task gets its grace period and ends as cancelled.
- `WindowsExitCode`: `main` clamps the worker's code to a byte, so a negative
  exit code of a script becomes success.
- `LockRace`: the last task counts itself out while its future still owns the
  store. A restart may try the lock before it is dropped, and the service ends.
- `TruncationForgotten`: a recovered record starts with `output_truncated` false
  and a snapshot takes the flag from there, so a task with truncated output is
  shown as complete after a restart.

Other weaknesses that the models show and that no run is kept for. The
properties name them as exceptions, or the instances leave them out:

- On unix a descendant that has called `setsid` and kept the output pipe is not
  reached by `killpg`, and the readers are joined without a deadline: the task
  never ends. With this kind of descendant `TaskTerminates` fails.
- On Windows a worker killed from outside leaves its script to the deadline,
  which ends the job without a gentle request.
- On unix a worker killed from outside is taken for the end of the tree. Its
  script goes on, and if it keeps the output, the readers are joined without a
  deadline: with `"crash"` in `Failures` `TaskTerminates` fails.
- On Windows `run_task` ignores an error of the job's query after the worker's
  exit. The end is reported and the permits are returned while descendants with
  redirected output still run, until `run_task` returns and drops the job; and a
  descendant that keeps the output is waited for without the time limit
  (`TimeLimitLost`). `FinishedTreesAreDying` and `TaskTerminates` except this.
- When the record of the stop cannot be appended, or the worker is killed,
  `run_task` returns on unix without signalling the group; the task is reported
  as failed and descendants stay (`StoppedTreesDisappear` excepts failed tasks).
- A line cut inside a character makes `lines()` fail and with it `open`: the
  service no longer starts with this log directory (`RecoverFails`), although
  other unreadable lines are skipped. `Settles` excepts it.
- After an append that failed half-way the next record is glued to the rest of
  the line. Its append succeeds and recovery ignores it: the end of the task is
  lost and it becomes interrupted. `FinalSurvives` is about undamaged logs.
- A directory whose `create` failed or was cut before its first line is never
  removed (`SkipDirectory`), and neither is one that `remove_dir_all` could not
  remove when the log is gone.
- A task that ends by the error path may still have a reader at work; `eof` of a
  page is then too early. `EofIsTheEnd` is about regular ends. A truncation that
  this reader meets is shown while the process lives and never reaches the log.
- At an odd end of UTF-16LE output the last byte is never served and `eof` is
  never reached.
- Two routes such as `/{x}` and `/{y}`, or a segment the router cannot parse,
  pass `load` and make `build` panic, in a restart after it was answered with
  202. `RoutesRegister` excepts paths with braces and the like.
- A token with a character that is not visible ASCII passes `load`; the service
  starts and refuses every request with 401, since `to_str` does not read the
  header. `OnlyTheToken` excepts it.
- A failure recorded with a time read before a later one shortens the cooldown
  by the wait for the lock, and requests that passed the check before a failure
  was recorded are still verified.
- `Config::load` checks that the TLS files exist; their content is read when the
  previous generation is gone (`TlsFails`), so a restart with a broken
  certificate, or with a port that is taken, ends the service after a 202, where
  the repository's README promises a 409. So do routes the router refuses, files
  of the store that cannot be read or written, and another instance that takes
  the lock in between. `RestartServes` names these ends.
- A reader that fails while `run` waits replaces `force_killed` by
  `LoggingFailure`: a task that had not yet taken up the kill gets its grace
  period instead, and if that is longer than the wait, `run` ends with an error.
  `EveryoneAsked` excepts this reason.
- A task that ends between the load of the count (`LoadBusy`) and the creation of
  the `Notified` future (`Register`) wakes nobody. In the first wait this costs
  the whole timeout; in the second, `run` fails although nothing is left.
- A request that never finishes holds `server.await`, and the shutdown timeout
  does not start. `ServiceLifecycle` assumes that handlers finish.

## Proofs

`TaskExecutorProofs` holds for any finite set of tasks, any routes and limits,
either platform, and any failures, scripts and clients (the named assumptions of
`TaskExecutor`):

- `TypeCorrect`: the types, and with them that the active count does not wrap;
- `FinishedReleasesPermitsHolds`, `StatusMatchesTerminationHolds`,
  `IdleMeansFinishedHolds`, `TerminalIsFinalHolds`;
- `ExecutorImplementsContract`: `TaskExecutor` implements `TaskContract`;
- `RecordsAdvanceHolds`: a record only moves forward through the statuses;
- `ControlAdvancesHolds`: each step of a handler or an executor goes deeper
  (`Depth` of its control point), so no path loops and a task takes at most
  twenty steps of its own. That it takes them is fairness, and TLC's;
- `KillTakenUpIsKeptHolds`: once `run_task` has a kill in hand, no later request
  and no failure replaces it, the task never sits in a grace period, and it ends
  as killed or, if the executor fails, as failed. So what `KillDowngraded` shows
  can happen only before the executor has looked at the channel.

None of these is inductive. `IInv` adds, for each control point, what permits,
stop reason, status and termination can be there (`Shape`): for example that in
the grace period the recorded termination is gentle and for the reason in hand,
so that only the forced stop or an overtaking kill can follow. `Counted` says
that `active` is the number of executors that run, which needs the cardinality
lemmas of the library. `WorkerGone` says that an exited worker is no process any
more, so the exit status on which `Succeeded` rests cannot change. The
refinement uses the invariant to show that each transition happens in a state
in which the contract allows it; all other steps stutter.

`OutputCaptureProofs` holds for any limit, buffer size and amount of output, in
both modes. `IInv` relates the budget to the files: bytes in the files and bytes
reserved but not yet written are together at most the smaller of the limit and
the bytes captured, and equal to it while no reader has failed. From it follow
`WithinLimitHolds`, `FilesArePrefixesHolds`, `SizesAreServableHolds`,
`NothingLostHolds` and `TruncationReportedHolds`.
`FinishedOutputFrozenHolds` rests on an invariant of its own, `Ended`.

`TerminalIsFinalHolds` and `FilesArePrefixesHolds` state properties that no run
repeats: the first is implied by the contract that `ExecutorUnix` checks, the
second by the inductive invariant.

`TaskTreeProofs` adds `TreesAt`, what the pipe to the worker, the worker, the
processes and the permits say of each other at each control point:

- `GracefulBeforeForceHolds`, on unix whatever fails, on Windows if nobody kills
  the worker from outside (`GentleFirst`). A kill needs an excuse, and so does
  the kill of a worker, since it leaves a script that the deadline will end.
- `FinishedTreesAreDyingHolds`, on Windows, of tasks that were stopped and of all
  that are counted out: the tree is empty when the readers are joined, unless a
  failed query was taken for that (`Awaited`), and ended when the executor drops
  it, and a worker that was never attached can no longer start a script.
- `LiveTreesBoundedHolds`: no semaphore is overdrawn (`Limited`, by cardinality),
  and a tree with a live process has both permits. The second half needs
  `PermitsCover`: on unix that nothing fails and no descendant leaves the process
  group; on Windows that a worker can be attached to its job and the job queried.

The three conditions are needed. TLC finds a counterexample when any one is
dropped: on unix one failure of any kind, or a daemon and a kill, is enough to
let processes run behind a task that has returned its permits. These are the
weaknesses listed above, seen from the limits.

A second invariant of that module, `OutcomeInv`, follows readers, script codes
and the worker's report (`ReadersAt`, `CodeAt`, `OutcomeAt`):

- `OutputCompleteHolds`: when a task has ended other than as failed, each reader
  has met the end of its pipe and no process holds a pipe, on either platform and
  with descendants of every kind. Failed tasks are excepted because the error
  path joins no reader.
- `SucceededMeansZeroHolds`: if no exit code is negative, success means that the
  script ended with zero. The clamp that `WindowsExitCode` shows is the only way
  to a false success.
- `ExecutorImplementsLedger`, with `Lives` and `StopAsked` as the mapping.

`ServiceRuntimeProofs` holds for any tasks, connections, configurations and
number of generations: `TypeCorrect`, `NoneLeftBehindHolds`,
`EveryoneAskedHolds`, `AcceptedIsPerformedHolds`, `ErrorsExplainedHolds`,
`RuntimeImplementsLedger`. `IInv` says that `active` is the
number of tasks that are created and not yet counted out (`Counted`), that the
channel holds what was answered with 202 and nothing else (`Choice`), which
phases have no request and no task left (`Place`), and that a task that still
runs after the choice was asked, or is still to be visited by `cancel_all`
(`Asked`); what its channel holds then is the reason of this round or a reader's
`LoggingFailure`. `ErrorsExplainedHolds` gives each error of `run` its cause. It
delimits the `LockRace`: the process misses its own lock only after a restart,
and only to tasks that are already published and counted out and have yet to
drop their future; another instance is to blame only when no task of this one
has it. A generation that gives up waiting has sent `force_killed` to every task
that runs, and only a failing reader can have replaced it.

`ServiceRuntime` has tasks that move by themselves where `TaskExecutor` has
executors. `TaskLedger` is what the two have in common: both implement it, so a
task that `run` waits for is entered, asked, published and counted out in the
order in which its executor does it, once, over all restarts. No run is kept for
`ImplementsLedger`.

`OutputPagingProofs`: every behaviour with a client is a behaviour of
`OutputCapture` (`PagingIsCapture`), so its theorems hold here as well.
`EofIsTheEndHolds` needs `SizeTaken`: the size was taken after the status, so when
the status was final and the readers had been joined, it is the size of the
file for good. `PagingTypeCorrect` and `UnitsNeverSplitHolds` rest on the same
invariant and on the arithmetic of even numbers.

`TaskStoreProofs` holds for any tasks, tears and outcomes, and any number of
crashes: `TypeCorrect`, `RetainedUntilDueHolds`, `FinalSurvivesHolds`,
`PhantomsAreInterruptedHolds`, `FinalOnlyLostHolds`, `TruncationKeptByProcess`. `IInv` has, per task, what the
lines of the log can be at each step (`LogInv`, `LineInv`), what the record and
the client's last answer say of each other (`RecordInv`), that a durable final
line stays (`SafeInv`), with none after it that reports another end, and where an
answered task can be found while `open` has come only half-way (`KeptInv`). That
recovery takes the last snapshot of a log needs a least element of a set of
positions, which is `WFMin` of the library. `TruncationKeptByProcess` delimits
`TruncationForgotten`: as long as there was no crash, `output_truncated` of a
finished task is reported.

`FrontDoorProofs` holds for any configuration files, requests and finite set of
addresses: `TypeCorrect`, `TableBoundedHolds`, `RoutesRegisterHolds`,
`OnlyTheTokenHolds`, `CooldownHoldsAlways`, `OnlyOverflowForgetsHolds`. `IInv` says
that the cache holds the configured token or nothing, that a request at
`record` was refused rightly, and that an entry of the table is the end of its
address's last cooldown, while a missing one is over or was evicted
(`TableInv`). `OnlyOverflowForgetsHolds` speaks of the very request that evicts,
by the time it has read: the entry it drops was not over then, and the table was
full of such entries. `RoutesRegisterHolds` needs no induction: it is a fact about
`Accepted` and `Registers`. `RawAssumption` states what serde has checked of a
file before `load` sees it: that counts are unsigned, paths are texts and an
executor is one of the enum's.

`ArgumentProofs` adds the arguments: `LoopDecides` says that the fold that stands
for the loop of `validate_request_args` accepts a list exactly when it is empty or
arguments are enabled, it has at most `max_count` arguments, each passes on its
own, and the sizes sum up to at most `max_total_bytes`, for every list and every
route. The prover has no usable induction over lists, so the proof
takes the shortest prefix at which fold and reference disagree (a least element,
`WFMin` again) and shows that the prefix before it disagrees already.
`AdmittedArgsAllowedHolds` follows. `ArgumentAssumption` says that arguments are
texts with a size.

Only model-checked:

- liveness and everything that needs fairness (`TaskTerminates`, `PermitsReturn`,
  `StoppedTreesDisappear`, `FollowerReachesEof`, `ShutdownCompletes`,
  `RestartServes`, `Settles`): beyond the prover;
- the runs that end with a counterexample; four theorems say where the
  statements they refute do hold (`KillTakenUpIsKeptHolds`,
  `SucceededMeansZeroHolds`, `ErrorsExplainedHolds`, `TruncationKeptByProcess`).

## Plan

Every component that keeps state is modelled, and every safety property of a
passing run is proved. What may follow:

1. The records of `TaskStore` as a refinement of what `TaskContract` promises of
   one process, extended by crashes.
2. A contract of the output that `OutputCapture` and the readers of
   `TaskExecutor` both implement, as `TaskLedger` is one of the accounts.

## Not modelled

- Cryptography, TLS and DPAPI: libraries without state of the program's own. A
  verification is a comparison of tokens, a file loads or does not.
- The command line and the commands that make secrets: I/O. The exit code of the
  worker is in `TaskExecutor`.
- Windows service control (`src/service.rs`): its Stop control is the shutdown
  signal of `ServiceRuntime`; the rest is a sequence of status reports. One
  order of them is worth knowing: the thread that reports `StopPending` may do so
  after the main thread has reported `Stopped`, when a Stop control arrives while
  a stop over HTTP ends.
- Log files, JSON shapes, links and messages: formatting. `index`, `healthz`,
  `get_task` and `fallback` change nothing.
- Durations: timers fire or do not, and clocks count ticks.
