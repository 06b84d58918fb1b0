--------------------------- MODULE ServiceRuntime ---------------------------
(* The life of the service (runtime::run): each generation opens the task     *)
(* store, serves HTTP until a management request or a shutdown signal, drains *)
(* the requests, stops every task, waits until none is active, and then ends  *)
(* or opens the next generation with the configuration of a restart request.  *)
(* Tasks are seen from the outside: TaskExecutor has their inner steps.       *)

EXTENDS Integers

CONSTANTS
    Tasks,              \* tasks that may be created, over all generations
    Clients,            \* connections that may carry a request at one time
    Configs,            \* contents the configuration file may have
    FirstConfig,        \* the content it has when the process starts
    Loadable,           \* contents Config::load accepts
    SameDirectory,      \* contents that keep logging.directory
    Routable,           \* contents whose routes app::build registers without a panic
    TlsLoads,           \* contents whose TLS files load_tls_config accepts
    Binds,              \* contents whose listeners can all be bound
    Faults,             \* subset of {"reader", "disk", "instance"}: what may go wrong
    MaxGenerations      \* bound: restarts after which no more are asked for

ASSUME ConfigsAssumption ==
    /\ Loadable \subseteq Configs
    /\ SameDirectory \subseteq Configs
    /\ Routable \subseteq Configs
    /\ TlsLoads \subseteq Configs
    /\ Binds \subseteq Configs
    /\ FirstConfig \in Loadable \cap SameDirectory
    /\ Configs \cap {"none", "stop"} = {}

\* A reader cannot write its output, a file operation of TaskStore::open fails,
\* another instance works on the same log directory.
ASSUME FaultsAssumption == Faults \subseteq {"reader", "disk", "instance"}

ASSUME GenerationsAssumption == MaxGenerations \in Nat \ {0}

VARIABLES
    phase,              \* where run is in its loop
    generation,         \* turns of the loop so far
    config,             \* the configuration of this generation
    failure,            \* why run returned an error, or "none"
    external,           \* external_shutdown: a shutdown signal has arrived
    watching,           \* the action task has passed its first look at external
    lifecycle,          \* AppState::lifecycle_state
    queue,              \* the management channel, of capacity one
    chosen,             \* the action of this generation, once chosen
    closed,             \* graceful_shutdown called and the channel's receiver gone
    accepted,           \* history: the action answered with 202
    request,            \* what each connection's handler is doing
    wanted,             \* the action of a handler between its CAS and try_send
    task,               \* the outer life of each task
    stop,               \* TaskRecord::stop
    active,             \* TaskStore::active_count
    pending,            \* records cancel_all has still to visit
    round,              \* 1: first cancel_all; 2: the forced one
    notified            \* the waiter's Notified future has been woken

runVars == <<phase, generation, config, failure>>
actionVars == <<external, watching, lifecycle, queue, chosen, closed, accepted>>
requestVars == <<request, wanted>>
taskVars == <<task, stop, active>>
waitVars == <<pending, round, notified>>
vars == <<phase, generation, config, failure, external, watching, lifecycle, queue, chosen,
          closed, accepted, request, wanted, task, stop, active, pending, round, notified>>

-----------------------------------------------------------------------------
Phases == {"open", "tls", "serving", "cancelling", "load", "register", "sleep",
           "closing", "stopped", "failed"}

Actions == {"none", "stop"} \cup Configs

\* running: registered and counted; published: terminal status visible;
\* subtracted and notified: the two halves of mark_finished; gone: the task's
\* future, and with it its reference to the store, has been dropped.
TaskStates == {"none", "running", "published", "subtracted", "notified", "gone"}

Reasons == {"none", "user_cancelled", "force_killed", "server_shutdown", "server_restart",
            "logging_failure"}

Errors == {"lock", "instance", "store", "panic", "tls", "bind", "busy"}

TypeOK ==
    /\ phase \in Phases
    /\ generation \in 1..MaxGenerations
    /\ config \in Loadable \cap SameDirectory
    /\ failure \in Errors \cup {"none"}
    /\ external \in BOOLEAN
    /\ watching \in BOOLEAN
    /\ lifecycle \in {0, 1}
    /\ queue \in Actions
    /\ chosen \in Actions
    /\ closed \in BOOLEAN
    /\ accepted \in Actions
    /\ request \in [Clients -> {"idle", "handling", "sending"}]
    /\ wanted \in [Clients -> Actions]
    /\ task \in [Tasks -> TaskStates]
    /\ stop \in [Tasks -> Reasons]
    /\ active \in Nat
    /\ pending \subseteq Tasks
    /\ round \in {1, 2}
    /\ notified \in BOOLEAN

Init ==
    /\ phase = "open" /\ generation = 1 /\ config = FirstConfig /\ failure = "none"
    /\ external = FALSE /\ watching = FALSE /\ lifecycle = 0
    /\ queue = "none" /\ chosen = "none" /\ closed = FALSE /\ accepted = "none"
    /\ request = [c \in Clients |-> "idle"]
    /\ wanted = [c \in Clients |-> "none"]
    /\ task = [t \in Tasks |-> "none"]
    /\ stop = [t \in Tasks |-> "none"]
    /\ active = 0
    /\ pending = {} /\ round = 1 /\ notified = FALSE

-----------------------------------------------------------------------------
(* The start of a generation.                                                 *)

Alive == phase \notin {"stopped", "failed"}

\* Tasks whose future still refers to the store, and so keeps its lock file open.
Holders == {t \in Tasks : task[t] \in {"running", "published", "subtracted", "notified"}}

Fail(why) ==
    /\ phase' = "failed"
    /\ failure' = why
    /\ UNCHANGED <<generation, config, actionVars, requestVars, taskVars, waitVars>>

\* TaskStore::open takes the lock of the log directory.
OpenStore ==
    /\ phase = "open"
    /\ Holders = {}
    /\ phase' = "tls"
    /\ UNCHANGED <<generation, config, failure, actionVars, requestVars, taskVars, waitVars>>

\* try_lock_exclusive fails: the previous store has not been dropped yet.
LockTaken ==
    /\ phase = "open"
    /\ Holders # {}
    /\ Fail("lock")

\* try_lock_exclusive fails with the same error: another instance has the lock,
\* from the start or since the previous generation let it go.
OtherInstance ==
    /\ phase = "open"
    /\ "instance" \in Faults
    /\ Holders = {}
    /\ Fail("instance")

\* The directory or the lock file cannot be created, or recover or the first
\* cleanup meets a file it cannot read, decode, remove or append to.
StoreFails ==
    /\ phase = "open"
    /\ "disk" \in Faults
    /\ Fail("store")

\* app::build registers a path that the router refuses, which panics.
BuildPanics ==
    /\ phase = "tls"
    /\ config \notin Routable
    /\ Fail("panic")

\* app::build, the TLS files and the listeners; the action task is spawned.
StartServer ==
    /\ phase = "tls"
    /\ config \in Routable \cap TlsLoads
    /\ phase' = "serving"
    /\ UNCHANGED <<generation, config, failure, actionVars, requestVars, taskVars, waitVars>>

TlsFails ==
    /\ phase = "tls"
    /\ config \in Routable \ TlsLoads
    /\ Fail("tls")

\* A listener cannot be bound: the error ends run, whatever the others served.
ServerFails ==
    /\ phase = "serving"
    /\ config \notin Binds
    /\ Fail("bind")

-----------------------------------------------------------------------------
(* Requests.                                                                  *)

\* A connection delivers a request; none is accepted after graceful_shutdown.
Receive(c) ==
    /\ phase = "serving"
    /\ ~closed
    /\ request[c] = "idle"
    /\ request' = [request EXCEPT ![c] = "handling"]
    /\ UNCHANGED <<runVars, actionVars, wanted, taskVars, waitVars>>

Answer(c) == request' = [request EXCEPT ![c] = "idle"]

Handling(c) == Alive /\ request[c] = "handling"

\* Any answer that changes nothing here: a view, a 4xx, a configuration that
\* does not load or moves the log directory, a management call that finds the
\* lifecycle taken, a task that cannot be created.
Reply(c) ==
    /\ Handling(c)
    /\ Answer(c)
    /\ UNCHANGED <<runVars, actionVars, wanted, taskVars, waitVars>>

\* Faulty variant: the task is registered but the count is left to its executor.
ExecuteUncounted(c, t) ==
    /\ Handling(c)
    /\ task[t] = "none"
    /\ task' = [task EXCEPT ![t] = "running"]
    /\ Answer(c)
    /\ UNCHANGED <<runVars, actionVars, wanted, stop, active, waitVars>>

\* execute: create registers and counts the task, start_task spawns it.
Execute(c, t) ==
    /\ Handling(c)
    /\ task[t] = "none"
    /\ task' = [task EXCEPT ![t] = "running"]
    /\ active' = active + 1
    /\ Answer(c)
    /\ UNCHANGED <<runVars, actionVars, wanted, stop, waitVars>>

\* cancel_task and kill_task: request_stop of an unfinished task.
UserStop(c, t, reason) ==
    /\ Handling(c)
    /\ task[t] = "running"
    /\ stop' = [stop EXCEPT ![t] = reason]
    /\ Answer(c)
    /\ UNCHANGED <<runVars, actionVars, wanted, task, active, waitVars>>

\* The compare_exchange of request_management_action.
TakeLifecycle(c, action) ==
    /\ Handling(c)
    /\ lifecycle = 0
    /\ lifecycle' = 1
    /\ request' = [request EXCEPT ![c] = "sending"]
    /\ wanted' = [wanted EXCEPT ![c] = action]
    /\ UNCHANGED <<runVars, external, watching, queue, chosen, closed, accepted, taskVars, waitVars>>

AskStop(c) == TakeLifecycle(c, "stop")

AskRestart(c, next) ==
    /\ generation < MaxGenerations
    /\ next \in Loadable \cap SameDirectory
    /\ TakeLifecycle(c, next)

\* try_send succeeds and the client gets 202.
Send(c) ==
    /\ Alive
    /\ request[c] = "sending"
    /\ ~closed
    /\ queue = "none"
    /\ queue' = wanted[c]
    /\ accepted' = wanted[c]
    /\ Answer(c)
    /\ wanted' = [wanted EXCEPT ![c] = "none"]
    /\ UNCHANGED <<runVars, external, watching, lifecycle, chosen, closed, taskVars, waitVars>>

\* try_send fails: the lifecycle is given back and the client gets 503.
SendFails(c) ==
    /\ Alive
    /\ request[c] = "sending"
    /\ closed \/ queue # "none"
    /\ lifecycle' = 0
    /\ Answer(c)
    /\ wanted' = [wanted EXCEPT ![c] = "none"]
    /\ UNCHANGED <<runVars, external, watching, queue, chosen, closed, accepted, taskVars, waitVars>>

HandlerStep(c) ==
    \/ Reply(c)
    \/ \E t \in Tasks : Execute(c, t)
    \/ \E t \in Tasks, reason \in {"user_cancelled", "force_killed"} : UserStop(c, t, reason)
    \/ AskStop(c)
    \/ \E next \in Configs : AskRestart(c, next)
    \/ Send(c)
    \/ SendFails(c)

-----------------------------------------------------------------------------
(* The choice of the action that ends the generation.                         *)

ShutdownSignal ==
    /\ Alive
    /\ ~external
    /\ external' = TRUE
    /\ UNCHANGED <<runVars, watching, lifecycle, queue, chosen, closed, accepted,
                   requestVars, taskVars, waitVars>>

\* The action goes to run through the oneshot, graceful_shutdown is called and
\* the end of the action task drops the channel's receiver.
Choose(action) ==
    /\ phase = "serving"
    /\ chosen = "none"
    /\ chosen' = action
    /\ closed' = TRUE
    /\ UNCHANGED <<runVars, external, watching, lifecycle, queue, accepted,
                   requestVars, taskVars, waitVars>>

\* The action task starts: a signal that came earlier needs no waiting.
BeginWatch ==
    /\ phase = "serving"
    /\ ~watching
    /\ ~external
    /\ watching' = TRUE
    /\ UNCHANGED <<runVars, external, lifecycle, queue, chosen, closed, accepted,
                   requestVars, taskVars, waitVars>>

\* Faulty variant: only a change of the watch channel after its clone counts.
ChooseExternalChanged == watching /\ external /\ Choose("stop")

ChooseExternal == external /\ Choose("stop")

\* Faulty variant: only a stop is taken out of the channel.
ChooseQueuedStop == watching /\ queue = "stop" /\ Choose(queue)

ChooseQueued == watching /\ queue # "none" /\ Choose(queue)

-----------------------------------------------------------------------------
(* Stopping the tasks.                                                        *)

\* Records in the store's map.
Known == {t \in Tasks : task[t] # "none"}

\* Faulty variant: run goes on as soon as the listeners are closed.
ServerDrainedEarly ==
    /\ phase = "serving"
    /\ closed
    /\ phase' = "cancelling"
    /\ pending' = Known
    /\ round' = 1
    /\ UNCHANGED <<generation, config, failure, actionVars, requestVars, taskVars, notified>>

\* graceful_shutdown(None) lets server.await return when no request is left;
\* cancel_all takes the records.
ServerDrained ==
    /\ phase = "serving"
    /\ closed
    /\ \A c \in Clients : request[c] = "idle"
    /\ phase' = "cancelling"
    /\ pending' = Known
    /\ round' = 1
    /\ UNCHANGED <<generation, config, failure, actionVars, requestVars, taskVars, notified>>

Reason ==
    IF round = 2 THEN "force_killed"
    ELSE IF chosen = "stop" THEN "server_shutdown" ELSE "server_restart"

\* One turn of cancel_all's loop: a finished task is passed over.
CancelOne(t) ==
    /\ phase = "cancelling"
    /\ t \in pending
    /\ pending' = pending \ {t}
    /\ stop' = IF task[t] = "running" THEN [stop EXCEPT ![t] = Reason] ELSE stop
    /\ UNCHANGED <<runVars, actionVars, requestVars, task, active, round, notified>>

CancelDone ==
    /\ phase = "cancelling"
    /\ pending = {}
    /\ phase' = "load"
    /\ UNCHANGED <<generation, config, failure, actionVars, requestVars, taskVars, waitVars>>

\* Faulty variant: the wait ends when one task is left.
LoadIdleTooEarly ==
    /\ phase = "load"
    /\ active <= 1
    /\ phase' = "closing"
    /\ UNCHANGED <<generation, config, failure, actionVars, requestVars, taskVars, waitVars>>

\* wait_until_idle: the count is zero.
LoadIdle ==
    /\ phase = "load"
    /\ active = 0
    /\ phase' = "closing"
    /\ UNCHANGED <<generation, config, failure, actionVars, requestVars, taskVars, waitVars>>

LoadBusy ==
    /\ phase = "load"
    /\ active # 0
    /\ phase' = "register"
    /\ UNCHANGED <<generation, config, failure, actionVars, requestVars, taskVars, waitVars>>

\* active_changed.notified(): woken by the notify_waiters calls from here on.
Register ==
    /\ phase = "register"
    /\ phase' = "sleep"
    /\ notified' = FALSE
    /\ UNCHANGED <<generation, config, failure, actionVars, requestVars, taskVars, pending, round>>

Wake ==
    /\ phase = "sleep"
    /\ notified
    /\ phase' = "load"
    /\ UNCHANGED <<generation, config, failure, actionVars, requestVars, taskVars, waitVars>>

\* shutdown_timeout_seconds are over: everything left is force killed.
FirstWaitExpires ==
    /\ phase = "sleep" /\ round = 1
    /\ ~notified
    /\ phase' = "cancelling"
    /\ pending' = Known
    /\ round' = 2
    /\ UNCHANGED <<generation, config, failure, actionVars, requestVars, taskVars, notified>>

\* Five more seconds are over: run gives up.
SecondWaitExpires ==
    /\ phase = "sleep" /\ round = 2
    /\ ~notified
    /\ Fail("busy")

\* The store and the application are dropped and the process ends.
Stop ==
    /\ phase = "closing"
    /\ chosen = "stop"
    /\ phase' = "stopped"
    /\ UNCHANGED <<generation, config, failure, actionVars, requestVars, taskVars, waitVars>>

\* Faulty variant: the next generation runs with the old configuration.
RestartUnchanged ==
    /\ phase = "closing"
    /\ chosen # "stop"
    /\ phase' = "open"
    /\ generation' = generation + 1
    /\ watching' = FALSE /\ lifecycle' = 0 /\ queue' = "none"
    /\ chosen' = "none" /\ closed' = FALSE /\ accepted' = "none"
    /\ UNCHANGED <<config, failure, external, requestVars, taskVars, waitVars>>

\* The next generation has a new application, channel and lifecycle.
Restart ==
    /\ phase = "closing"
    /\ chosen # "stop"
    /\ phase' = "open"
    /\ generation' = generation + 1
    /\ config' = chosen
    /\ watching' = FALSE /\ lifecycle' = 0 /\ queue' = "none"
    /\ chosen' = "none" /\ closed' = FALSE /\ accepted' = "none"
    /\ UNCHANGED <<failure, external, requestVars, taskVars, waitVars>>

-----------------------------------------------------------------------------
(* Tasks, as the store sees them.                                             *)

TaskMoves(t, from, to) ==
    /\ Alive
    /\ task[t] = from
    /\ task' = [task EXCEPT ![t] = to]

\* The task's executor publishes a terminal status.
Publish(t) ==
    /\ TaskMoves(t, "running", "published")
    /\ UNCHANGED <<runVars, actionVars, requestVars, stop, active, waitVars>>

\* mark_finished: fetch_sub.
Subtract(t) ==
    /\ TaskMoves(t, "published", "subtracted")
    /\ active' = active - 1
    /\ UNCHANGED <<runVars, actionVars, requestVars, stop, waitVars>>

\* mark_finished: notify_waiters wakes a waiter that has registered.
NotifyWaiters(t) ==
    /\ TaskMoves(t, "subtracted", "notified")
    /\ notified' = (notified \/ phase = "sleep")
    /\ UNCHANGED <<runVars, actionVars, requestVars, stop, active, pending, round>>

DropFuture(t) ==
    /\ TaskMoves(t, "notified", "gone")
    /\ UNCHANGED <<runVars, actionVars, requestVars, stop, active, waitVars>>

\* A reader of the task's output fails and calls request_stop_now: its reason
\* replaces whatever the channel holds, a kill too.  (After the terminal status
\* nobody looks at the channel any more.)
ReaderFails(t) ==
    /\ Alive
    /\ "reader" \in Faults
    /\ task[t] = "running"
    /\ stop[t] # "logging_failure"
    /\ stop' = [stop EXCEPT ![t] = "logging_failure"]
    /\ UNCHANGED <<runVars, actionVars, requestVars, task, active, waitVars>>

TaskStep(t) == Publish(t) \/ Subtract(t) \/ NotifyWaiters(t) \/ DropFuture(t)

-----------------------------------------------------------------------------
RunStep ==
    \/ OpenStore \/ LockTaken \/ OtherInstance \/ StoreFails
    \/ BuildPanics \/ StartServer \/ TlsFails \/ ServerFails
    \/ ServerDrained \/ (\E t \in Tasks : CancelOne(t)) \/ CancelDone
    \/ LoadIdle \/ LoadBusy \/ Register \/ Wake \/ FirstWaitExpires \/ SecondWaitExpires
    \/ Stop \/ Restart

ActionStep == BeginWatch \/ ChooseExternal \/ ChooseQueued

Quiescent == ~Alive /\ UNCHANGED vars

Next ==
    \/ RunStep
    \/ ActionStep
    \/ ShutdownSignal
    \/ \E c \in Clients : Receive(c) \/ HandlerStep(c)
    \/ \E t \in Tasks : TaskStep(t) \/ ReaderFails(t)
    \/ Quiescent

Spec == Init /\ [][Next]_vars

\* run, the action task and the handlers are polled; timers fire; a task that
\* was asked to stop ends (TaskTerminates of TaskExecutor) and then leaves the
\* store.  No request and no end of an unasked task is taken for granted.
Fairness ==
    /\ WF_vars(RunStep)
    /\ WF_vars(ActionStep)
    /\ \A c \in Clients : WF_vars(HandlerStep(c))
    /\ \A t \in Tasks :
          /\ WF_vars(stop[t] # "none" /\ Publish(t))
          /\ WF_vars(Subtract(t) \/ NotifyWaiters(t) \/ DropFuture(t))

FairSpec == Spec /\ Fairness

-----------------------------------------------------------------------------
(* Properties.                                                                *)

\* A generation that closes, and a process that stops, leaves no task whose
\* terminal status is not visible (cancel_all, wait_until_idle).
NoneLeftBehind ==
    phase \in {"closing", "stopped", "open"} => \A t \in Tasks : task[t] # "running"

\* While run waits for its tasks, every unfinished one has been asked to stop for
\* the reason of this round: no request of a client can have overwritten it, only
\* a reader's LoggingFailure can.
EveryoneAsked ==
    phase \in {"load", "register", "sleep"} =>
        \A t \in Tasks : task[t] = "running" => stop[t] \in {Reason, "logging_failure"}

\* What a client was told with 202 is what happens: the next generation runs
\* the accepted configuration, and the process stops only when a stop was
\* accepted or a signal arrived.
AcceptedIsPerformed ==
    [][/\ generation' # generation => config' = accepted
       /\ phase # "stopped" /\ phase' = "stopped" => accepted = "stop" \/ external]_vars

\* A shutdown signal, at whatever moment of whatever generation, ends the process.
ShutdownCompletes == external ~> phase \in {"stopped", "failed"}

\* An accepted restart is followed by a generation that serves, unless a signal
\* came or the process ended for something that was not looked at before the
\* 202: routes the router refuses, the content of the TLS files, a port, the
\* store's lock or files, or a task that does not end (restart_service, run).
RestartServes ==
    \A g \in 1..(MaxGenerations - 1) :
        generation = g /\ accepted \in Configs ~>
            \/ generation > g /\ phase = "serving"
            \/ external
            \/ failure \in {"lock", "instance", "store", "busy"}
            \/ config \notin Routable \cap TlsLoads \cap Binds

\* A restart releases the task store before it opens it again.
StoreIsReleased == failure # "lock"

-----------------------------------------------------------------------------
(* The accounts of the store.                                                 *)

Lives == [t \in Tasks |-> IF task[t] \in {"subtracted", "notified", "gone"} THEN "out" ELSE task[t]]

StopAsked == [t \in Tasks |-> stop[t] # "none"]

Ledger == INSTANCE TaskLedger WITH life <- Lives, asked <- StopAsked

\* The tasks that run waits for are entered, published and counted out as their
\* executors do it, over all generations.
ImplementsLedger == Ledger!Spec
=============================================================================
