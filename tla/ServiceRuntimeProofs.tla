------------------------ MODULE ServiceRuntimeProofs ------------------------
(* Proofs about ServiceRuntime, for any number of tasks, connections and      *)
(* generations and any configurations that restarts may find.                 *)

EXTENDS ServiceRuntime, FiniteSetTheorems, TLAPS

-----------------------------------------------------------------------------
(* The inductive invariant.                                                   *)

\* Tasks that create has counted and mark_finished has not uncounted.
Busy == {t \in Tasks : task[t] \in {"running", "published"}}

\* active_count is their number.
Counted == IsFiniteSet(Busy) /\ active = Cardinality(Busy)

Acceptable == Loadable \cap SameDirectory

\* What a management request may ask for: a stop, or a configuration that the
\* restart handler has loaded.
Askable(a) == a = "stop" \/ (a \in Acceptable /\ generation < MaxGenerations)

\* A connection asks for something exactly while it is between its
\* compare-and-swap and its try_send.
Asking ==
    \A c \in Clients :
        IF request[c] = "sending" THEN Askable(wanted[c]) ELSE wanted[c] = "none"

\* What was answered with 202 is what is in the channel; what was chosen is
\* that, or a stop for a signal; and the channel is closed from then on.
Choice ==
    /\ accepted = queue
    /\ queue # "none" => Askable(queue)
    /\ closed <=> chosen # "none"
    /\ chosen # "none" => Askable(chosen) /\ (chosen = accepted \/ (chosen = "stop" /\ external))

\* Phases in which no request is being handled, and those after the choice.
Drained == {"open", "tls", "cancelling", "load", "register", "sleep", "closing", "stopped"}
Ending == {"cancelling", "load", "register", "sleep", "closing", "stopped"}

Place ==
    /\ phase \in Drained => \A c \in Clients : request[c] = "idle"
    /\ phase \in {"open", "tls"} => chosen = "none" /\ queue = "none"
    /\ phase \in Ending => chosen # "none"
    /\ phase \in {"open", "tls", "closing", "stopped"} => Busy = {}

\* A running task is asked to stop in this round, or still to be visited, or one
\* of its readers has failed.
Asked ==
    phase \in {"cancelling", "load", "register", "sleep"} =>
        \A t \in Tasks : task[t] = "running" =>
            \/ stop[t] = Reason
            \/ "reader" \in Faults /\ stop[t] = "logging_failure"
            \/ phase = "cancelling" /\ t \in pending

IInv == TypeOK /\ Counted /\ Asking /\ Choice /\ Place /\ Asked

-----------------------------------------------------------------------------
(* The initial state.                                                         *)

\* A process that starts has an open channel, no task and no request.
LEMMA InvInit == Init => IInv
<1> SUFFICES ASSUME Init PROVE IInv
  OBVIOUS
<1> USE DEF Init
<1>1. TypeOK
  <2>1. generation \in 1..MaxGenerations
    BY GenerationsAssumption
  <2>2. /\ request \in [Clients -> {"idle", "handling", "sending"}]
        /\ wanted \in [Clients -> Actions]
        /\ task \in [Tasks -> TaskStates]
        /\ stop \in [Tasks -> Reasons]
    BY DEF Actions, TaskStates, Reasons
  <2> QED
    BY <2>1, <2>2, ConfigsAssumption DEF TypeOK, Phases, Actions
<1>2. Busy = {}
  BY DEF Busy
<1>3. Counted
  BY <1>2, FS_EmptySet DEF Counted
<1>4. Asking /\ Choice /\ Place /\ Asked
  BY <1>2 DEF Asking, Choice, Place, Asked, Drained, Ending
<1> QED
  BY <1>1, <1>3, <1>4 DEF IInv

-----------------------------------------------------------------------------
(* Counting.                                                                  *)

\* Steps of run, of the action task and of signals move no task.
LEMMA TasksStill ==
    ASSUME RunStep \/ ActionStep \/ ShutdownSignal
    PROVE  UNCHANGED <<task, active>>
<1>1. CASE RunStep
  BY <1>1 DEF RunStep, OpenStore, LockTaken, OtherInstance, StoreFails, BuildPanics, StartServer, TlsFails,
         ServerFails, Fail, ServerDrained, CancelOne, CancelDone, LoadIdle, LoadBusy, Register, Wake, FirstWaitExpires,
         SecondWaitExpires, Stop, Restart, taskVars
<1>2. CASE ActionStep \/ ShutdownSignal
  BY <1>2 DEF ActionStep, BeginWatch, ChooseExternal, ChooseQueued, Choose, ShutdownSignal, taskVars
<1> QED
  BY <1>1, <1>2

\* Of the handlers only execute changes a task.
LEMMA HandlersStill ==
    ASSUME NEW c \in Clients, Receive(c) \/ HandlerStep(c), ~\E t \in Tasks : Execute(c, t)
    PROVE  UNCHANGED <<task, active>>
BY DEF HandlerStep, Receive, Reply, UserStop, AskStop, AskRestart, TakeLifecycle, Send, SendFails, taskVars

\* Every task is counted by create and uncounted once by mark_finished, so the
\* count that wait_until_idle loads is the number of unfinished tasks.
LEMMA CountStep ==
    ASSUME TypeOK, Counted, [Next]_vars
    PROVE  Counted' /\ active' \in Nat
<1>1. active \in Nat
  BY DEF TypeOK
<1>2. ASSUME UNCHANGED <<task, active>>
      PROVE  Counted' /\ active' \in Nat
  BY <1>1, <1>2 DEF Counted, Busy
<1>3. ASSUME NEW c \in Clients, NEW t \in Tasks, Execute(c, t)
      PROVE  Counted' /\ active' \in Nat
  <2>1. Busy' = Busy \cup {t} /\ t \notin Busy
    BY <1>3 DEF Execute, Busy, TypeOK
  <2>2. active' = active + 1
    BY <1>3 DEF Execute
  <2>3. /\ IsFiniteSet(Busy \cup {t})
        /\ Cardinality(Busy \cup {t}) = Cardinality(Busy) + 1
    BY <2>1, FS_AddElement DEF Counted
  <2> QED
    BY <1>1, <2>1, <2>2, <2>3 DEF Counted
<1>4. ASSUME NEW t \in Tasks, Subtract(t)
      PROVE  Counted' /\ active' \in Nat
  <2>1. Busy' = Busy \ {t} /\ t \in Busy
    BY <1>4 DEF Subtract, TaskMoves, Busy, TypeOK
  <2>2. active' = active - 1
    BY <1>4 DEF Subtract
  <2>3. /\ IsFiniteSet(Busy \ {t})
        /\ Cardinality(Busy \ {t}) = Cardinality(Busy) - 1
    BY <2>1, FS_RemoveElement DEF Counted
  <2>4. Cardinality(Busy \ {t}) \in Nat
    BY <2>3, FS_CardinalityType
  <2> QED
    BY <2>1, <2>2, <2>3, <2>4 DEF Counted
<1>5. ASSUME NEW t \in Tasks, Publish(t) \/ NotifyWaiters(t) \/ DropFuture(t)
      PROVE  Counted' /\ active' \in Nat
  <2>1. Busy' = Busy /\ active' = active
    BY <1>5 DEF Publish, NotifyWaiters, DropFuture, TaskMoves, Busy, TypeOK
  <2> QED
    BY <1>1, <2>1 DEF Counted
<1>6. CASE RunStep \/ ActionStep \/ ShutdownSignal
  BY <1>2, <1>6, TasksStill
<1>7. ASSUME NEW c \in Clients, Receive(c) \/ HandlerStep(c)
      PROVE  Counted' /\ active' \in Nat
  BY <1>2, <1>3, <1>7, HandlersStill
<1>8. CASE Quiescent \/ UNCHANGED vars
  BY <1>2, <1>8 DEF Quiescent, vars
<1>9. ASSUME NEW t \in Tasks, ReaderFails(t)
      PROVE  Counted' /\ active' \in Nat
  BY <1>2, <1>9 DEF ReaderFails
<1> QED
  BY <1>4, <1>5, <1>6, <1>7, <1>8, <1>9 DEF Next, TaskStep

-----------------------------------------------------------------------------
(* The steps of run.                                                          *)

\* A generation that fails to start or to end leaves everything else alone.
LEMMA FailStep ==
    ASSUME IInv, NEW why \in Errors, Fail(why), active' \in Nat
    PROVE  TypeOK' /\ Asking' /\ Choice' /\ Place' /\ Asked'
BY DEF IInv, TypeOK, Fail, Phases, actionVars, requestVars, taskVars, waitVars,
       Asking, Choice, Place, Asked, Askable, Drained, Ending

\* Steps of run that only move it to its next phase.
LEMMA RunStepInv ==
    ASSUME IInv, RunStep, active' \in Nat, Counted'
    PROVE  IInv'
<1> USE DEF IInv, runVars, actionVars, requestVars, taskVars, waitVars
<1>1. CASE LockTaken \/ OtherInstance \/ StoreFails \/ BuildPanics \/ TlsFails \/ ServerFails \/ SecondWaitExpires
  BY <1>1, FailStep DEF LockTaken, OtherInstance, StoreFails, BuildPanics, TlsFails, ServerFails,
         SecondWaitExpires, Errors
<1>2. CASE OpenStore \/ StartServer
  BY <1>2 DEF OpenStore, StartServer, TypeOK, Phases, Asking, Askable, Choice, Place, Asked, Busy, Drained, Ending
<1>3. CASE ServerDrained
  BY <1>3 DEF ServerDrained, TypeOK, Phases, Known, Asking, Askable, Choice, Place, Asked, Busy, Drained, Ending
<1>4. ASSUME NEW t \in Tasks, CancelOne(t)
      PROVE  IInv'
  <2>1. Reason \in Reasons /\ Reason' = Reason
    BY <1>4 DEF CancelOne, Reason, Reasons
  <2>2. stop' \in [Tasks -> Reasons]
    BY <1>4, <2>1 DEF CancelOne, TypeOK
  <2>3. TypeOK'
    BY <1>4, <2>2 DEF CancelOne, TypeOK
  <2>4. Asked'
    BY <1>4, <2>1 DEF CancelOne, Asked, TypeOK
  <2> QED
    BY <1>4, <2>3, <2>4 DEF CancelOne, Asking, Askable, Choice, Place, Busy
<1>5. CASE CancelDone
  BY <1>5 DEF CancelDone, TypeOK, Phases, Asking, Askable, Choice, Place, Asked, Reason, Busy, Drained, Ending
<1>6. CASE LoadIdle
  <2>1. Busy = {}
    BY <1>6, FS_EmptySet DEF LoadIdle, Counted
  <2> QED
    BY <1>6, <2>1 DEF LoadIdle, TypeOK, Phases, Asking, Askable, Choice, Place, Asked, Busy, Drained, Ending
<1>7. CASE LoadBusy \/ Register \/ Wake
  <2>1. TypeOK'
    BY <1>7 DEF LoadBusy, Register, Wake, TypeOK, Phases
  <2> QED
    BY <1>7, <2>1 DEF LoadBusy, Register, Wake, Asking, Askable, Choice, Place, Asked, Reason, Busy,
           Drained, Ending
<1>8. CASE FirstWaitExpires
  BY <1>8 DEF FirstWaitExpires, TypeOK, Phases, Known, Asking, Askable, Choice, Place, Asked, Busy, Drained, Ending
<1>9. CASE Stop
  BY <1>9 DEF Stop, TypeOK, Phases, Asking, Askable, Choice, Place, Asked, Busy, Drained, Ending
<1>10. CASE Restart
  <2>1. chosen \in Acceptable /\ generation < MaxGenerations
    BY <1>10 DEF Restart, Choice, Place, Askable, Ending
  <2>2. generation' \in 1..MaxGenerations
    BY <1>10, <2>1, GenerationsAssumption DEF Restart, TypeOK
  <2>3. TypeOK'
    BY <1>10, <2>1, <2>2 DEF Restart, TypeOK, Phases, Actions, Acceptable
  <2> QED
    BY <1>10, <2>3 DEF Restart, Asking, Askable, Choice, Place, Asked, Busy, Drained, Ending
<1> QED
  BY <1>1, <1>2, <1>3, <1>4, <1>5, <1>6, <1>7, <1>8, <1>9, <1>10 DEF RunStep

-----------------------------------------------------------------------------
(* The other actors.                                                          *)

\* A signal, and the action task that chooses how the generation ends.
LEMMA ActionStepInv ==
    ASSUME IInv, ActionStep \/ ShutdownSignal, active' \in Nat, Counted'
    PROVE  IInv'
<1> USE DEF IInv, runVars, requestVars, taskVars, waitVars
<1>1. CASE BeginWatch
  BY <1>1 DEF BeginWatch, TypeOK, Asking, Askable, Choice, Place, Asked, Reason, Busy
<1>2. CASE ShutdownSignal
  BY <1>2 DEF ShutdownSignal, TypeOK, Asking, Askable, Choice, Place, Asked, Reason, Busy
<1>3. ASSUME NEW action \in {"stop", queue}, action # "none", action = "stop" => external \/ action = queue,
             Choose(action)
      PROVE  IInv'
  <2>1. phase = "serving" /\ phase' = phase
    BY <1>3 DEF Choose
  <2>2. TypeOK'
    BY <1>3 DEF Choose, TypeOK, Actions
  <2> QED
    BY <1>3, <2>1, <2>2 DEF Choose, Asking, Askable, Choice, Place, Asked, Drained, Ending
<1>4. CASE ChooseExternal
  BY <1>3, <1>4 DEF ChooseExternal
<1>5. CASE ChooseQueued
  BY <1>3, <1>5 DEF ChooseQueued
<1> QED
  BY <1>1, <1>2, <1>4, <1>5 DEF ActionStep

\* A request in hand means that the generation is still serving or has failed.
LEMMA HandledWhileServing ==
    ASSUME IInv, NEW c \in Clients, request[c] # "idle", Alive
    PROVE  phase = "serving"
BY DEF IInv, TypeOK, Phases, Place, Drained, Alive

\* Requests: a task is created, asked to stop or a management action is asked
\* for only before the requests have drained.
LEMMA HandlerStepInv ==
    ASSUME IInv, NEW c \in Clients, Receive(c) \/ HandlerStep(c), active' \in Nat, Counted'
    PROVE  IInv'
<1> USE DEF IInv, runVars, actionVars, taskVars, waitVars
<1>0. phase = "serving" /\ phase' = "serving" /\ UNCHANGED <<generation, config>>
  <2>1. CASE Receive(c)
    BY <2>1 DEF Receive
  <2>2. CASE HandlerStep(c)
    <3>1. Alive /\ request[c] # "idle"
      BY <2>2 DEF HandlerStep, Reply, Execute, UserStop, AskStop, AskRestart, TakeLifecycle, Send, SendFails, Handling
    <3>2. UNCHANGED <<phase, generation, config>>
      BY <2>2 DEF HandlerStep, Reply, Execute, UserStop, AskStop, AskRestart, TakeLifecycle, Send, SendFails
    <3> QED
      BY <3>1, <3>2, HandledWhileServing
  <2> QED
    BY <2>1, <2>2
<1>1. Place' /\ Asked'
  <2>1. UNCHANGED <<chosen, closed>>
    BY DEF Receive, HandlerStep, Reply, Execute, UserStop, AskStop, AskRestart, TakeLifecycle, Send, SendFails
  <2> QED
    BY <1>0, <2>1 DEF Place, Asked, Drained, Ending
<1>2. CASE Receive(c) \/ Reply(c)
  <2>1. TypeOK'
    BY <1>2 DEF Receive, Reply, Answer, TypeOK
  <2>2. Asking'
    BY <1>2 DEF Receive, Reply, Handling, Answer, TypeOK, Asking, Askable
  <2> QED
    BY <1>1, <1>2, <2>1, <2>2 DEF Receive, Reply, Choice, Askable
<1>3. ASSUME NEW t \in Tasks, Execute(c, t)
      PROVE  IInv'
  <2>1. TypeOK'
    BY <1>3 DEF Execute, Answer, TypeOK, TaskStates
  <2>2. Asking'
    BY <1>3 DEF Execute, Handling, Answer, TypeOK, Asking, Askable
  <2> QED
    BY <1>1, <1>3, <2>1, <2>2 DEF Execute, Choice, Askable
<1>4. ASSUME NEW t \in Tasks, NEW reason \in {"user_cancelled", "force_killed"}, UserStop(c, t, reason)
      PROVE  IInv'
  <2>1. TypeOK'
    BY <1>4 DEF UserStop, Answer, TypeOK, Reasons
  <2>2. Asking'
    BY <1>4 DEF UserStop, Handling, Answer, TypeOK, Asking, Askable
  <2> QED
    BY <1>1, <1>4, <2>1, <2>2 DEF UserStop, Choice, Askable
<1>5. ASSUME NEW action, Askable(action), TakeLifecycle(c, action)
      PROVE  IInv'
  <2>1. action \in Actions
    BY <1>5, ConfigsAssumption DEF Askable, Acceptable, Actions
  <2>2. TypeOK'
    BY <1>5, <2>1 DEF TakeLifecycle, TypeOK
  <2>3. Asking'
    BY <1>0, <1>5 DEF TakeLifecycle, TypeOK, Asking, Askable
  <2> QED
    BY <1>0, <1>1, <1>5, <2>2, <2>3 DEF TakeLifecycle, Choice, Askable
<1>6. CASE AskStop(c)
  BY <1>5, <1>6 DEF AskStop, Askable
<1>7. ASSUME NEW next \in Configs, AskRestart(c, next)
      PROVE  IInv'
  BY <1>5, <1>7 DEF AskRestart, Askable, Acceptable
<1>8. CASE Send(c)
  <2>1. Askable(wanted[c]) /\ wanted[c] \in Actions /\ "none" \in Actions
    BY <1>8 DEF Send, Asking, TypeOK, Actions
  <2>2. TypeOK'
    BY <1>8, <2>1 DEF Send, Answer, TypeOK
  <2>3. Asking'
    BY <1>0, <1>8 DEF Send, Answer, TypeOK, Asking, Askable
  <2>4. Choice'
    BY <1>0, <1>8, <2>1 DEF Send, Choice, Askable
  <2> QED
    BY <1>1, <2>2, <2>3, <2>4
<1>9. CASE SendFails(c)
  <2>1. TypeOK'
    BY <1>9 DEF SendFails, Answer, TypeOK, Actions
  <2>2. Asking'
    BY <1>0, <1>9 DEF SendFails, Answer, TypeOK, Asking, Askable
  <2> QED
    BY <1>0, <1>1, <1>9, <2>1, <2>2 DEF SendFails, Choice, Askable
<1> QED
  BY <1>2, <1>3, <1>4, <1>6, <1>7, <1>8, <1>9 DEF HandlerStep

\* Tasks only ever leave the set of unfinished ones.
LEMMA TaskStepInv ==
    ASSUME IInv, NEW t \in Tasks, TaskStep(t), active' \in Nat, Counted'
    PROVE  IInv'
<1> USE DEF IInv, runVars, actionVars, requestVars, waitVars
<1>1. PICK to \in TaskStates : task' = [task EXCEPT ![t] = to] /\ to \notin {"none", "running"}
                               /\ (to = "published" => task[t] = "running")
  BY DEF TaskStep, Publish, Subtract, NotifyWaiters, DropFuture, TaskMoves, TaskStates
<1>2. UNCHANGED <<runVars, actionVars, requestVars, stop, pending, round>>
  BY DEF TaskStep, Publish, Subtract, NotifyWaiters, DropFuture
<1>3. notified' \in BOOLEAN
  BY DEF TaskStep, Publish, Subtract, NotifyWaiters, DropFuture, TypeOK
<1>4. TypeOK'
  BY <1>1, <1>2, <1>3 DEF TypeOK
<1>5. Busy' \subseteq Busy
  BY <1>1 DEF Busy, TypeOK
<1>6. Asking' /\ Choice' /\ Place'
  BY <1>2, <1>5 DEF Asking, Choice, Place, Askable
<1>7. Asked'
  BY <1>1, <1>2 DEF Asked, Reason, TypeOK
<1> QED
  BY <1>4, <1>6, <1>7

\* A failed reader puts its own reason in the place of whatever was asked.
LEMMA ReaderStepInv ==
    ASSUME IInv, NEW t \in Tasks, ReaderFails(t), active' \in Nat, Counted'
    PROVE  IInv'
<1> USE DEF IInv, ReaderFails, runVars, actionVars, requestVars, waitVars
<1>1. TypeOK'
  BY DEF TypeOK, Reasons
<1>2. Asked'
  BY DEF Asked, Reason, TypeOK
<1> QED
  BY <1>1, <1>2 DEF Asking, Askable, Choice, Place, Busy

\* Every step preserves the invariant.
LEMMA InvStep ==
    ASSUME IInv, [Next]_vars
    PROVE  IInv'
<1>1. Counted' /\ active' \in Nat
  BY CountStep DEF IInv
<1>2. CASE Quiescent \/ UNCHANGED vars
  BY <1>1, <1>2 DEF Quiescent, vars, IInv, TypeOK, Asking, Askable, Choice, Place, Asked, Reason, Busy
<1> QED
  BY <1>1, <1>2, RunStepInv, ActionStepInv, HandlerStepInv, TaskStepInv, ReaderStepInv DEF Next

\* Phase, channel, requests, tasks and count of a generation agree in every
\* reachable state of run; a task that the shutdown has visited and that still
\* runs holds the reason of the round, or the LoggingFailure of its own reader.
THEOREM InductiveInvariant == Spec => []IInv
<1>1. IInv /\ [Next]_vars => IInv'
  BY InvStep
<1> QED
  BY InvInit, <1>1, PTL DEF Spec

-----------------------------------------------------------------------------
(* What the service promises.                                                 *)

\* Every variable of run keeps its type: a generation only ever runs with a
\* configuration that load accepted and that keeps the log directory, and
\* active_count never wraps below zero.
THEOREM TypeCorrect == Spec => []TypeOK
<1>1. IInv => TypeOK
  BY DEF IInv
<1> QED
  BY <1>1, InductiveInvariant, PTL

\* A generation closes, and the process stops, only after every task of it has
\* published its terminal status.
THEOREM NoneLeftBehindHolds == Spec => []NoneLeftBehind
<1>1. IInv => NoneLeftBehind
  BY DEF IInv, Place, Busy, NoneLeftBehind
<1> QED
  BY <1>1, InductiveInvariant, PTL

\* While run waits in wait_until_idle, every task that still runs has been
\* asked to stop, for the reason of this round or because one of its readers
\* failed: no client can put another reason in its place.
THEOREM EveryoneAskedHolds == Spec => []EveryoneAsked
<1>1. IInv => EveryoneAsked
  BY DEF IInv, Asked, EveryoneAsked
<1> QED
  BY <1>1, InductiveInvariant, PTL

\* The next generation runs the configuration that was answered with 202, and
\* the process stops only for an accepted stop or a signal.
THEOREM AcceptedIsPerformedHolds == Spec => AcceptedIsPerformed
<1> DEFINE Performed ==
        /\ generation' # generation => config' = accepted
        /\ phase # "stopped" /\ phase' = "stopped" => accepted = "stop" \/ external
<1>1. IInv /\ [Next]_vars => [Performed]_vars
  <2> SUFFICES ASSUME IInv, Next PROVE Performed
    OBVIOUS
  <2>1. CASE Restart
    BY <2>1 DEF Restart, IInv, Choice, Place, Ending
  <2>2. CASE Stop
    BY <2>2 DEF Stop, IInv, Choice
  <2>3. CASE RunStep /\ ~Restart /\ ~Stop
    BY <2>3 DEF RunStep, OpenStore, LockTaken, OtherInstance, StoreFails, BuildPanics, StartServer, TlsFails,
           ServerFails, Fail, ServerDrained, CancelOne, CancelDone, LoadIdle, LoadBusy, Register, Wake, FirstWaitExpires, SecondWaitExpires, runVars
  <2>4. CASE ActionStep \/ ShutdownSignal \/ Quiescent
    BY <2>4 DEF ActionStep, BeginWatch, ChooseExternal, ChooseQueued, Choose, ShutdownSignal, Quiescent,
           vars, runVars
  <2>5. ASSUME NEW c \in Clients, Receive(c) \/ HandlerStep(c)
        PROVE  UNCHANGED <<generation, phase>>
    BY <2>5 DEF Receive, HandlerStep, Reply, Execute, UserStop, AskStop, AskRestart, TakeLifecycle, Send,
           SendFails, runVars
  <2>6. ASSUME NEW t \in Tasks, TaskStep(t) \/ ReaderFails(t)
        PROVE  UNCHANGED <<generation, phase>>
    BY <2>6 DEF TaskStep, Publish, Subtract, NotifyWaiters, DropFuture, ReaderFails, runVars
  <2> QED
    BY <2>1, <2>2, <2>3, <2>4, <2>5, <2>6 DEF Next
<1> QED
  BY <1>1, InductiveInvariant, PTL DEF Spec, AcceptedIsPerformed


-----------------------------------------------------------------------------
(* Why run fails.                                                             *)

\* The first generation opens a store that no task has entered yet.
FirstStart == generation = 1 /\ phase = "open" => \A t \in Tasks : task[t] = "none"

\* Each error of run has its cause.  Where the process itself holds the store's
\* lock, that happens only after a restart, and only through tasks between the
\* decrement of mark_finished and the end of their future: their status is
\* published, they are no longer counted, and no running task is behind it;
\* another instance is to blame only when no task of this one holds it.  A
\* generation that gives up waiting has sent force_killed to everything that
\* still runs, and what no longer holds it holds a reader's LoggingFailure,
\* which turned the kill into a stop with a grace period.
ErrorsExplained ==
    /\ failure # "none" <=> phase = "failed"
    /\ failure = "lock" =>
          /\ generation > 1
          /\ Holders # {}
          /\ \A t \in Holders : task[t] \in {"subtracted", "notified"}
    /\ failure = "instance" => "instance" \in Faults /\ Holders = {}
    /\ failure = "store" => "disk" \in Faults
    /\ failure = "panic" => config \notin Routable
    /\ failure = "tls" => config \in Routable \ TlsLoads
    /\ failure = "bind" => config \notin Binds
    /\ failure = "busy" =>
          \A t \in Tasks : task[t] = "running" =>
              \/ stop[t] = "force_killed"
              \/ "reader" \in Faults /\ stop[t] = "logging_failure"

ErrorInv == FirstStart /\ ErrorsExplained

\* Whoever moves, a process that has not failed has no failure to explain.
LEMMA ErrorsStill ==
    ASSUME TypeOK, ErrorInv, Alive, UNCHANGED <<phase, failure>>
    PROVE  ErrorsExplained'
BY DEF TypeOK, ErrorInv, ErrorsExplained, Alive

\* Each error of run is raised where its cause is seen.
LEMMA ErrorRunStep ==
    ASSUME IInv, ErrorInv, RunStep
    PROVE  ErrorInv'
<1> USE DEF IInv, ErrorInv, FirstStart, ErrorsExplained, runVars, actionVars, requestVars, taskVars, waitVars
<1>0. failure = "none" /\ generation \in Nat
  <2>1. Alive
    BY DEF Alive, RunStep, OpenStore, LockTaken, OtherInstance, StoreFails, BuildPanics, StartServer, TlsFails,
           ServerFails, ServerDrained, CancelOne,
           CancelDone, LoadIdle, LoadBusy, Register, Wake, FirstWaitExpires, SecondWaitExpires, Stop, Restart
  <2> QED
    BY <2>1, GenerationsAssumption DEF Alive, TypeOK
<1>1. CASE LockTaken
  <2>1. \A t \in Holders : task[t] \in {"subtracted", "notified"}
    BY <1>1 DEF LockTaken, Place, Busy, Holders
  <2>2. \E t \in Tasks : task[t] # "none"
    BY <1>1 DEF LockTaken, Holders
  <2>3. generation > 1
    BY <1>0, <1>1, <2>2, GenerationsAssumption DEF LockTaken, TypeOK
  <2>4. Holders' = Holders /\ task' = task
    BY <1>1 DEF LockTaken, Fail, Holders
  <2> QED
    BY <1>1, <2>1, <2>3, <2>4 DEF LockTaken, Fail
<1>2. CASE StoreFails \/ BuildPanics \/ TlsFails \/ ServerFails
  BY <1>2 DEF StoreFails, BuildPanics, TlsFails, ServerFails, Fail
<1>3. CASE SecondWaitExpires
  <2>1. \A t \in Tasks : task[t] = "running" =>
           stop[t] = "force_killed" \/ ("reader" \in Faults /\ stop[t] = "logging_failure")
    BY <1>3 DEF SecondWaitExpires, Asked, Reason
  <2> QED
    BY <1>3, <2>1 DEF SecondWaitExpires, Fail
<1>4. CASE Restart
  <2>1. generation' # 1
    BY <1>0, <1>4, GenerationsAssumption DEF Restart, TypeOK
  <2> QED
    BY <1>0, <1>4, <2>1 DEF Restart
<1>5. CASE OtherInstance
  <2>1. Holders' = Holders
    BY <1>5 DEF OtherInstance, Fail, Holders
  <2> QED
    BY <1>5, <2>1 DEF OtherInstance, Fail
<1>6. CASE RunStep /\ ~LockTaken /\ ~OtherInstance /\ ~StoreFails /\ ~BuildPanics /\ ~TlsFails /\ ~ServerFails
           /\ ~SecondWaitExpires /\ ~Restart
  <2>1. failure' = "none" /\ phase' \notin {"open", "failed"}
    BY <1>0, <1>6 DEF RunStep, OpenStore, StartServer, ServerDrained, CancelOne, CancelDone, LoadIdle, LoadBusy,
           Register, Wake, FirstWaitExpires, Stop
  <2> QED
    BY <2>1
<1> QED
  BY <1>1, <1>2, <1>3, <1>4, <1>5, <1>6

\* The other actors move only while nothing has failed.
LEMMA ErrorStep ==
    ASSUME IInv, ErrorInv, [Next]_vars
    PROVE  ErrorInv'
<1> USE DEF runVars
<1>1. ASSUME NEW c \in Clients, Receive(c) \/ HandlerStep(c)
      PROVE  ErrorInv'
  <2>1. Alive /\ (Receive(c) \/ request[c] # "idle")
    BY <1>1 DEF Receive, HandlerStep, Reply, Execute, UserStop, AskStop, AskRestart, TakeLifecycle, Send,
           SendFails, Handling, Alive
  <2>2. UNCHANGED <<phase, failure>>
    BY <1>1 DEF Receive, HandlerStep, Reply, Execute, UserStop, AskStop, AskRestart, TakeLifecycle, Send, SendFails
  <2>3. phase = "serving"
    BY <2>1, HandledWhileServing DEF Receive
  <2> QED
    BY <2>1, <2>2, <2>3, ErrorsStill DEF IInv, ErrorInv, FirstStart
<1>2. ASSUME NEW t \in Tasks, TaskStep(t) \/ ReaderFails(t)
      PROVE  ErrorInv'
  <2>1. Alive /\ task[t] # "none" /\ UNCHANGED <<phase, failure, generation>>
    BY <1>2 DEF TaskStep, Publish, Subtract, NotifyWaiters, DropFuture, TaskMoves, ReaderFails
  <2> QED
    BY <2>1, ErrorsStill DEF IInv, ErrorInv, FirstStart
<1>3. CASE ActionStep \/ ShutdownSignal
  <2>1. Alive /\ UNCHANGED <<phase, failure, generation, task>>
    BY <1>3 DEF ActionStep, BeginWatch, ChooseExternal, ChooseQueued, Choose, ShutdownSignal, Alive, taskVars
  <2> QED
    BY <2>1, ErrorsStill DEF IInv, ErrorInv, FirstStart
<1>4. CASE Quiescent \/ UNCHANGED vars
  BY <1>4 DEF Quiescent, vars, ErrorInv, FirstStart, ErrorsExplained, Holders
<1> QED
  BY <1>1, <1>2, <1>3, <1>4, ErrorRunStep DEF Next

\* Every error that ends run has the cause it names; the lock race that a restart
\* has with itself is confined to the tail of mark_finished.
THEOREM ErrorsExplainedHolds == Spec => []ErrorsExplained
<1>1. Init => ErrorInv
  BY DEF Init, ErrorInv, FirstStart, ErrorsExplained, Holders
<1>2. IInv /\ ErrorInv /\ [Next]_vars => ErrorInv'
  BY ErrorStep
<1>3. ErrorInv => ErrorsExplained
  BY DEF ErrorInv
<1> QED
  BY <1>1, <1>2, <1>3, InductiveInvariant, PTL DEF Spec


-----------------------------------------------------------------------------
(* The accounts of the store.                                                 *)

\* A step that touches no task, count or stop request is none of the ledger.
LEMMA LedgerStill ==
    ASSUME UNCHANGED <<task, stop, active>>
    PROVE  UNCHANGED Ledger!ledgerVars
BY DEF Ledger!ledgerVars, Lives, StopAsked

\* A request to stop a task that runs, from a client or from cancel_all.
LEMMA LedgerAsk ==
    ASSUME TypeOK, NEW t \in Tasks, task[t] = "running", NEW reason, reason # "none",
           stop' = [stop EXCEPT ![t] = reason], UNCHANGED <<task, active>>
    PROVE  Ledger!Next
<1>1. Lives' = Lives /\ Lives[t] = "running"
  BY DEF Lives
<1>2. StopAsked' = [StopAsked EXCEPT ![t] = TRUE]
  BY DEF StopAsked, TypeOK
<1>3. Ledger!Ask(t)
  BY <1>1, <1>2 DEF Ledger!Ask
<1> QED
  BY <1>3 DEF Ledger!Next

\* create enters a task, and counts it, in one step for the ledger.
LEMMA LedgerExecute ==
    ASSUME TypeOK, NEW c \in Clients, NEW t \in Tasks, Execute(c, t)
    PROVE  Ledger!Next
<1>1. Lives' = [Lives EXCEPT ![t] = "running"] /\ Lives[t] = "none"
  BY DEF Execute, Lives, TypeOK
<1>2. StopAsked' = StopAsked /\ active' = active + 1
  BY DEF Execute, StopAsked
<1>3. Ledger!Enter(t)
  BY <1>1, <1>2 DEF Ledger!Enter
<1> QED
  BY <1>3 DEF Ledger!Next

\* A task publishes before it is counted out; what follows is not accounted for.
LEMMA LedgerTask ==
    ASSUME TypeOK, NEW t \in Tasks, TaskStep(t)
    PROVE  Ledger!Next \/ UNCHANGED Ledger!ledgerVars
<1>1. StopAsked' = StopAsked
  BY DEF TaskStep, Publish, Subtract, NotifyWaiters, DropFuture, StopAsked
<1>2. CASE Publish(t)
  <2>1. Lives' = [Lives EXCEPT ![t] = "published"] /\ Lives[t] = "running" /\ active' = active
    BY <1>2 DEF Publish, TaskMoves, Lives, TypeOK
  <2>2. Ledger!Publish(t)
    BY <1>1, <2>1 DEF Ledger!Publish
  <2> QED
    BY <2>2 DEF Ledger!Next
<1>3. CASE Subtract(t)
  <2>1. Lives' = [Lives EXCEPT ![t] = "out"] /\ Lives[t] = "published" /\ active' = active - 1
    BY <1>3 DEF Subtract, TaskMoves, Lives, TypeOK
  <2>2. Ledger!CountOut(t)
    BY <1>1, <2>1 DEF Ledger!CountOut
  <2> QED
    BY <2>2 DEF Ledger!Next
<1>4. CASE NotifyWaiters(t) \/ DropFuture(t)
  <2>1. Lives' = Lives /\ active' = active
    BY <1>4 DEF NotifyWaiters, DropFuture, TaskMoves, Lives, TypeOK
  <2> QED
    BY <1>1, <2>1 DEF Ledger!ledgerVars
<1> QED
  BY <1>2, <1>3, <1>4 DEF TaskStep

\* Every step of run, of a handler or of a task is a step of the ledger or none.
LEMMA LedgerStep ==
    ASSUME TypeOK, [Next]_vars
    PROVE  Ledger!Next \/ UNCHANGED Ledger!ledgerVars
<1>1. ASSUME NEW t \in Tasks, CancelOne(t)
      PROVE  Ledger!Next \/ UNCHANGED Ledger!ledgerVars
  <2>1. Reason # "none"
    BY DEF Reason
  <2>2. CASE task[t] = "running"
    BY <1>1, <2>1, <2>2, LedgerAsk DEF CancelOne
  <2>3. CASE task[t] # "running"
    BY <1>1, <2>3, LedgerStill DEF CancelOne
  <2> QED
    BY <2>2, <2>3
<1>2. CASE RunStep /\ ~\E t \in Tasks : CancelOne(t)
  <2>1. UNCHANGED <<task, stop, active>>
    BY <1>2 DEF RunStep, OpenStore, LockTaken, OtherInstance, StoreFails, BuildPanics, StartServer, TlsFails,
           ServerFails, Fail, ServerDrained, CancelDone, LoadIdle, LoadBusy, Register, Wake, FirstWaitExpires, SecondWaitExpires, Stop, Restart,
           taskVars
  <2> QED
    BY <2>1, LedgerStill
<1>3. CASE ActionStep \/ ShutdownSignal \/ Quiescent \/ UNCHANGED vars
  <2>1. UNCHANGED <<task, stop, active>>
    BY <1>3 DEF ActionStep, BeginWatch, ChooseExternal, ChooseQueued, Choose, ShutdownSignal, Quiescent, vars,
           taskVars
  <2> QED
    BY <2>1, LedgerStill
<1>4. ASSUME NEW c \in Clients, NEW t \in Tasks, NEW reason \in {"user_cancelled", "force_killed"},
             UserStop(c, t, reason)
      PROVE  Ledger!Next
  BY <1>4, LedgerAsk DEF UserStop
<1>5. ASSUME NEW c \in Clients, Receive(c) \/ HandlerStep(c)
      PROVE  Ledger!Next \/ UNCHANGED Ledger!ledgerVars
  <2>1. CASE \E t \in Tasks : Execute(c, t)
    BY <2>1, LedgerExecute
  <2>2. CASE \E t \in Tasks, reason \in {"user_cancelled", "force_killed"} : UserStop(c, t, reason)
    BY <1>4, <2>2
  <2>3. CASE Receive(c) \/ Reply(c) \/ AskStop(c) \/ (\E next \in Configs : AskRestart(c, next))
             \/ Send(c) \/ SendFails(c)
    <3>1. UNCHANGED <<task, stop, active>>
      BY <2>3 DEF Receive, Reply, AskStop, AskRestart, TakeLifecycle, Send, SendFails, taskVars
    <3> QED
      BY <3>1, LedgerStill
  <2> QED
    BY <1>5, <2>1, <2>2, <2>3 DEF HandlerStep
<1>6. ASSUME NEW t \in Tasks, ReaderFails(t)
      PROVE  Ledger!Next
  BY <1>6, LedgerAsk DEF ReaderFails
<1> QED
  BY <1>1, <1>2, <1>3, <1>5, <1>6, LedgerTask DEF Next

\* Over all its generations, restarts and timeouts, the service keeps the
\* accounts of TaskLedger: no restart forgets, re-enters or uncounts a task, and
\* a stop that was asked for is not taken back.
THEOREM RuntimeImplementsLedger == Spec => ImplementsLedger
<1>1. Init => Ledger!Init
  <2> SUFFICES ASSUME Init PROVE Ledger!Init
    OBVIOUS
  <2>1. Lives = [t \in Tasks |-> "none"]
    BY DEF Init, Lives
  <2>2. StopAsked = [t \in Tasks |-> FALSE]
    BY DEF Init, StopAsked
  <2> QED
    BY <2>1, <2>2 DEF Init, Ledger!Init
<1>2. TypeOK /\ [Next]_vars => [Ledger!Next]_(Ledger!ledgerVars)
  BY LedgerStep
<1> QED
  BY <1>1, <1>2, TypeCorrect, PTL DEF Spec, Ledger!Spec, ImplementsLedger
=============================================================================
