----------------------------- MODULE TaskLedger -----------------------------
(* The accounts of tasks between the executors and the service, as the store  *)
(* keeps them: create enters a task and counts it, its executor publishes a   *)
(* terminal status, and mark_finished takes it out of the count afterwards.   *)
(* TaskExecutor and ServiceRuntime are both shown to implement this, so that  *)
(* the tasks whose end ServiceRuntime waits for are the ones TaskExecutor     *)
(* runs.                                                                      *)

EXTENDS Integers

CONSTANT Tasks      \* requests that may become tasks

VARIABLES
    life,           \* "none", "running", "published" (terminal status visible) or "out"
    asked,          \* a stop was asked for
    active          \* TaskStore::active_count

ledgerVars == <<life, asked, active>>

-----------------------------------------------------------------------------
Init ==
    /\ life = [t \in Tasks |-> "none"]
    /\ asked = [t \in Tasks |-> FALSE]
    /\ active = 0

\* TaskStore::create
Enter(t) ==
    /\ life[t] = "none"
    /\ life' = [life EXCEPT ![t] = "running"]
    /\ active' = active + 1
    /\ UNCHANGED asked

\* TaskRecord::request_stop; a request is never taken back.
Ask(t) ==
    /\ life[t] # "none"
    /\ asked' = [asked EXCEPT ![t] = TRUE]
    /\ UNCHANGED <<life, active>>

\* The transition to a terminal status.
Publish(t) ==
    /\ life[t] = "running"
    /\ life' = [life EXCEPT ![t] = "published"]
    /\ UNCHANGED <<asked, active>>

\* TaskStore::mark_finished: once for each task, and after its status.
CountOut(t) ==
    /\ life[t] = "published"
    /\ life' = [life EXCEPT ![t] = "out"]
    /\ active' = active - 1
    /\ UNCHANGED asked

Next == \E t \in Tasks : Enter(t) \/ Ask(t) \/ Publish(t) \/ CountOut(t)

Spec == Init /\ [][Next]_ledgerVars
=============================================================================
