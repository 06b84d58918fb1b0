-------------------------- MODULE TaskStoreProofs --------------------------
(* Proofs about TaskStore, for any set of tasks, any outcomes, retention time *)
(* and way to tear a line, and any number of crashes.                         *)

EXTENDS TaskStore, WellFoundedInduction, TLAPS

-----------------------------------------------------------------------------
(* The inductive invariant.                                                   *)

Lines == Snapshots \cup {Garbled, NotText}

\* Two snapshots report the same end; output_truncated may differ.
Same(a, b) == a.status = b.status /\ a.at = b.at

\* Every final line of l reports the end that s reports.
FinalsAre(l, s) == \A i \in 1..Len(l) : Finished(l[i]) => Same(l[i], s)

NoFinals(l) == \A i \in 1..Len(l) : ~Finished(l[i])

\* After a final line every snapshot reports the same end.
FinalStays(l) ==
    \A i \in 1..Len(l) : \A j \in 1..Len(l) :
        i < j /\ Finished(l[i]) /\ l[j] \in Snapshots => Same(l[j], l[i])

\* The clock has passed retention, counted from what a client read.
Due(t) == due[t] # Never /\ clock - due[t] >= Retention

\* What open collects exists only while it runs, and an executor runs only
\* while the process is up.
Shape ==
    /\ process \in {"down", "scan", "failed"} => expired = {}
    /\ process \in {"down", "sweep", "up"} => toScan = {}
    /\ process = "down" => map = {}
    /\ process # "up" => \A t \in Tasks : step[t] \in {"none", "left"}

\* The lines of a log and where its task is.
LogInv(t) ==
    /\ ~ended[t] => log[t] # <<>>
    /\ t \notin damaged => ended[t]
    /\ FinalStays(log[t])
    /\ step[t] \in {"none", "files"} => log[t] = <<>>
    /\ step[t] \in {"insert", "idle", "write"} => NoFinals(log[t])
    /\ step[t] = "retry" => FinalsAre(log[t], record[t])

\* The finished_at of a final line lies between the first one a client could
\* read and now, and its status is the one that was read or interrupted.
LineInv(t) ==
    \A i \in 1..Len(log[t]) : Finished(log[t][i]) =>
        /\ log[t][i].at <= clock
        /\ due[t] # Never => due[t] <= log[t][i].at
        /\ log[t][i].status # "Interrupted" => told[t] = log[t][i].status

\* What clients have read of a task and what its record holds.
RecordInv(t) ==
    /\ step[t] \in {"none", "files", "insert", "idle"} => told[t] = "none"
    /\ step[t] \in {"idle", "write", "retry"} => record[t] # None
    /\ step[t] = "idle" => ~Finished(record[t])
    /\ step[t] = "retry" => Finished(record[t])
    /\ step[t] \in {"write", "retry"} =>
          told[t] = IF Finished(record[t]) THEN record[t].status ELSE "none"
    /\ told[t] = "none" <=> due[t] = Never
    /\ t \in map => record[t] # None
    /\ due[t] # Never => due[t] \in 0..clock
    /\ Finished(record[t]) =>
          due[t] # Never /\ due[t] <= record[t].at /\ record[t].at <= clock

\* A task that no client was told of never gets past Starting.
PhantomInv(t) ==
    t \notin answered =>
        /\ step[t] \in {"none", "files", "insert", "left"}
        /\ \A i \in 1..Len(log[t]) :
              log[t][i] \in Snapshots => log[t][i].status \in {"Starting", "Interrupted"}
        /\ t \in map => record[t].status = "Interrupted"

\* A line that no later append can damage.
Solid(t, i) == i < Len(log[t]) \/ ended[t]

\* A final snapshot in an undamaged log is there until the log is removed, and
\* the record reports it.
SafeInv(t) ==
    /\ step[t] \notin {"ended", "left"} => safe[t] = None
    /\ safe[t] # None =>
          /\ Finished(safe[t])
          /\ log[t] = <<>> \/ \E i \in 1..Len(log[t]) : Solid(t, i) /\ Same(log[t][i], safe[t])
          /\ t \in map => Same(record[t], safe[t])

\* The first line of a log can be found again.
Durable(t) ==
    /\ t \in exists /\ log[t] # <<>>
    /\ log[t][1] \in Snapshots /\ Solid(t, 1)

\* A task that clients know is on disk and, as far as open has come, in the map.
KeptInv(t) ==
    /\ t \in answered \/ step[t] = "insert" => Durable(t) \/ Due(t)
    /\ t \in expired => Due(t)
    /\ t \in answered /\ process = "scan" => t \in map \cup toScan \/ Due(t)
    /\ t \in answered /\ process \in {"sweep", "up"} => t \in map \/ Due(t)

TaskInv(t) ==
    LogInv(t) /\ LineInv(t) /\ RecordInv(t) /\ PhantomInv(t) /\ SafeInv(t) /\ KeptInv(t)

IInv == TypeOK /\ Shape /\ \A t \in Tasks : TaskInv(t)

-----------------------------------------------------------------------------
(* Lines and snapshots.                                                       *)

\* A snapshot is final exactly when finished_at is set; the other lines are not
\* snapshots and report no end.
LEMMA LineFacts ==
    /\ \A s \in Snapshots : s.status \in Statuses /\ s.cut \in BOOLEAN
    /\ \A s \in Snapshots : Finished(s) => s.at \in Nat
    /\ \A s \in Snapshots : ~Finished(s) => s.at = Never
    /\ None \notin Snapshots /\ ~Finished(None)
    /\ Garbled \notin Snapshots /\ ~Finished(Garbled)
    /\ NotText \notin Snapshots /\ ~Finished(NotText)
<1> USE DEF Finished, Statuses, FinishedStatuses, ActiveStatuses
<1>1. \A s \in Snapshots : s.status \in Statuses /\ s.cut \in BOOLEAN
  BY DEF Snapshots
<1>2. \A s \in Snapshots : (Finished(s) => s.at \in Nat) /\ (~Finished(s) => s.at = Never)
  BY DEF Snapshots
<1>3. None.status = "none" /\ Garbled.status = "garbled" /\ NotText.status = "not text"
  BY DEF None, Garbled, NotText
<1> QED
  BY <1>1, <1>2, <1>3

\* The snapshots that the code makes.
LEMMA Made ==
    ASSUME TypeOK, NEW t \in Tasks
    PROVE  /\ FirstSnapshot \in Snapshots /\ ~Finished(FirstSnapshot)
           /\ \A status \in Statuses :
                 /\ Updated(t, status) \in Snapshots
                 /\ Updated(t, status).status = status
                 /\ Finished(Updated(t, status)) => Updated(t, status).at = clock
           /\ record[t] \in Snapshots =>
                 /\ Snapshot(t) \in Snapshots /\ Same(Snapshot(t), record[t])
                 /\ Finished(Snapshot(t)) <=> Finished(record[t])
<1> USE DEF Finished, Statuses, FinishedStatuses, ActiveStatuses
<1>1. flag[t] \in BOOLEAN /\ clock \in Nat
  BY StoreAssumption DEF TypeOK
<1>2. FirstSnapshot \in Snapshots /\ ~Finished(FirstSnapshot)
  BY DEF FirstSnapshot, Snapshots
<1>3. ASSUME NEW status \in Statuses
      PROVE  /\ Updated(t, status) \in Snapshots
             /\ Updated(t, status).status = status
             /\ Finished(Updated(t, status)) => Updated(t, status).at = clock
  BY <1>1, <1>3 DEF Updated, Snapshots
<1>4. ASSUME record[t] \in Snapshots
      PROVE  /\ Snapshot(t) \in Snapshots /\ Same(Snapshot(t), record[t])
             /\ Finished(Snapshot(t)) <=> Finished(record[t])
  BY <1>1, <1>4 DEF Snapshot, Snapshots, Same
<1> QED
  BY <1>2, <1>3, <1>4

\* Among the snapshots of a log there is a last one.
LEMMA LastSnapshot ==
    ASSUME NEW l \in Seq(Lines), \E i \in 1..Len(l) : l[i] \in Snapshots
    PROVE  \E i \in 1..Len(l) :
              l[i] \in Snapshots /\ \A j \in (i + 1)..Len(l) : l[j] \notin Snapshots
<1> DEFINE T == {Len(l) - i : i \in {k \in 1..Len(l) : l[k] \in Snapshots}}
<1>1. T \subseteq Nat /\ T # {}
  OBVIOUS
<1>2. PICK x \in T : \A y \in T : ~(<<y, x>> \in OpToRel(<, Nat))
  BY <1>1, WFMin, NatLessThanWellFounded
<1>3. \A y \in T : ~(y < x)
  BY <1>1, <1>2 DEF OpToRel
<1>4. PICK i \in 1..Len(l) : l[i] \in Snapshots /\ x = Len(l) - i
  OBVIOUS
<1>5. ASSUME NEW j \in (i + 1)..Len(l), l[j] \in Snapshots
      PROVE  FALSE
  <2>1. j \in 1..Len(l) /\ Len(l) - j < x
    BY <1>4
  <2>2. Len(l) - j \in T
    BY <1>5, <2>1
  <2> QED
    BY <1>3, <2>1, <2>2
<1> QED
  BY <1>4, <1>5

\* read_latest_snapshot returns the last snapshot, or nothing if there is none.
LEMMA LatestIs ==
    ASSUME NEW l \in Seq(Lines)
    PROVE  /\ Latest(l) = None => \A i \in 1..Len(l) : l[i] \notin Snapshots
           /\ Latest(l) # None =>
                 \E i \in 1..Len(l) :
                    /\ Latest(l) = l[i] /\ l[i] \in Snapshots
                    /\ \A j \in (i + 1)..Len(l) : l[j] \notin Snapshots
<1>1. CASE \E i \in 1..Len(l) : l[i] \in Snapshots
  <2> DEFINE i == CHOOSE i \in 1..Len(l) :
                    l[i] \in Snapshots /\ \A j \in (i + 1)..Len(l) : l[j] \notin Snapshots
  <2>1. /\ i \in 1..Len(l) /\ l[i] \in Snapshots
        /\ \A j \in (i + 1)..Len(l) : l[j] \notin Snapshots
    BY <1>1, LastSnapshot
  <2>2. Latest(l) = l[i]
    BY <1>1 DEF Latest
  <2> HIDE DEF i
  <2> QED
    BY <2>1, <2>2, LineFacts
<1>2. CASE ~\E i \in 1..Len(l) : l[i] \in Snapshots
  BY <1>2 DEF Latest
<1> QED
  BY <1>1, <1>2

-----------------------------------------------------------------------------
(* What an append does to a log.                                              *)

\* The log keeps every line that is solid, and of the snapshots in it only
\* line is new.
Adds(t, line) ==
    /\ log'[t] \in Seq(Lines)
    /\ \A i \in 1..Len(log'[t]) : log'[t][i] \in Snapshots =>
          \/ i \in 1..Len(log[t]) /\ log'[t][i] = log[t][i]
          \/ i = Len(log[t]) + 1 /\ log'[t][i] = line
    /\ \A i \in 1..Len(log[t]) : Solid(t, i) =>
          i \in 1..Len(log'[t]) /\ Solid(t, i)' /\ log'[t][i] = log[t][i]
    /\ ~ended'[t] => log'[t] # <<>>

\* A line goes into a line of its own, or spoils an unterminated one.
LEMMA WrittenLine ==
    ASSUME NEW t \in Tasks, NEW line \in Lines, log[t] \in Seq(Lines), ~ended[t] => log[t] # <<>>
    PROVE  /\ Written(t, line) \in Seq(Lines) /\ Written(t, line) # <<>>
           /\ ended[t] => Written(t, line) = Append(log[t], line)
           /\ ~ended[t] => /\ Len(Written(t, line)) = Len(log[t])
                           /\ Written(t, line)[Len(log[t])] \in {Garbled, NotText}
                           /\ \A i \in 1..(Len(log[t]) - 1) : Written(t, line)[i] = log[t][i]
<1>1. CASE ended[t]
  BY <1>1 DEF Written
<1>2. CASE ~ended[t]
  <2>1. PICK x \in {Garbled, NotText} : Written(t, line) = [log[t] EXCEPT ![Len(log[t])] = x]
    BY <1>2 DEF Written
  <2>2. x \in Lines
    BY DEF Lines
  <2>3. Len(log[t]) \in 1..Len(log[t])
    BY <1>2
  <2> QED
    BY <1>2, <2>1, <2>2, <2>3
<1> QED
  BY <1>1, <1>2

\* A log that nobody writes to.
LEMMA SameLogAdds ==
    ASSUME TypeOK, NEW t \in Tasks, NEW line, LogInv(t), log'[t] = log[t], ended'[t] = ended[t]
    PROVE  Adds(t, line)
BY DEF TypeOK, Adds, LogInv, Solid, Lines

\* Whatever is written, as a line of its own or not, terminated or not.
LEMMA WrittenAdds ==
    ASSUME TypeOK, NEW t \in Tasks, NEW line \in Lines, LogInv(t), log'[t] = Written(t, line)
    PROVE  Adds(t, line) /\ log'[t] # <<>>
<1>1. log[t] \in Seq(Lines) /\ (~ended[t] => log[t] # <<>>)
  BY DEF TypeOK, LogInv, Lines
<1>2. CASE ended[t]
  <2>1. log'[t] = Append(log[t], line)
    BY <1>1, <1>2, WrittenLine
  <2> QED
    BY <1>1, <2>1 DEF Adds, Solid
<1>3. CASE ~ended[t]
  <2>1. /\ log'[t] \in Seq(Lines) /\ log'[t] # <<>>
        /\ Len(log'[t]) = Len(log[t])
        /\ log'[t][Len(log[t])] \notin Snapshots
        /\ \A i \in 1..(Len(log[t]) - 1) : log'[t][i] = log[t][i]
    BY <1>1, <1>3, WrittenLine, LineFacts
  <2> QED
    BY <1>1, <1>3, <2>1 DEF Adds, Solid
<1> QED
  BY <1>2, <1>3

\* The whole line is written: the log ends with a newline, and if it did before,
\* with the line.
LEMMA AppendAdds ==
    ASSUME TypeOK, NEW t \in Tasks, NEW line \in Lines, LogInv(t), AppendLine(t, line)
    PROVE  /\ Adds(t, line) /\ ended'[t]
           /\ ended[t] => log'[t] = Append(log[t], line)
           /\ \A u \in Tasks \ {t} : log'[u] = log[u] /\ ended'[u] = ended[u]
<1>1. /\ log'[t] = Written(t, line) /\ ended'[t]
      /\ \A u \in Tasks \ {t} : log'[u] = log[u] /\ ended'[u] = ended[u]
  BY DEF AppendLine, TypeOK
<1>2. ended[t] => log'[t] = Append(log[t], line)
  BY <1>1 DEF Written
<1> QED
  BY <1>1, <1>2, WrittenAdds

\* Part of the line is written, or nothing.
LEMMA TearAdds ==
    ASSUME TypeOK, NEW t \in Tasks, NEW line \in Lines, NEW tear, LogInv(t), TearLine(t, line, tear)
    PROVE  /\ Adds(t, line)
           /\ tear # "nothing" => log'[t] # <<>>
           /\ \A u \in Tasks \ {t} : log'[u] = log[u] /\ ended'[u] = ended[u]
<1>1. \A u \in Tasks \ {t} : log'[u] = log[u] /\ ended'[u] = ended[u]
  BY DEF TearLine, TypeOK
<1>2. tear \in {"nothing", "prefix", "character", "newline"}
  BY StoreAssumption DEF TearLine
<1>3. CASE tear = "nothing"
  <2>1. log'[t] = log[t] /\ ended'[t] = ended[t]
    BY <1>3 DEF TearLine, TypeOK
  <2> QED
    BY <1>1, <1>3, <2>1, SameLogAdds
<1>4. ASSUME NEW x \in {Garbled, NotText}, log'[t] = Written(t, x)
      PROVE  Adds(t, line) /\ log'[t] # <<>>
  <2>1. x \in Lines /\ x \notin Snapshots
    BY LineFacts DEF Lines
  <2>2. Adds(t, x) /\ log'[t] # <<>>
    BY <1>4, <2>1, WrittenAdds
  <2> QED
    BY <2>1, <2>2 DEF Adds
<1>5. CASE tear = "prefix"
  BY <1>1, <1>4, <1>5 DEF TearLine, TypeOK
<1>6. CASE tear = "character"
  BY <1>1, <1>4, <1>6 DEF TearLine, TypeOK
<1>7. CASE tear = "newline"
  <2>1. log'[t] = Written(t, line)
    BY <1>7 DEF TearLine, TypeOK
  <2> QED
    BY <1>1, <2>1, WrittenAdds
<1> QED
  BY <1>2, <1>3, <1>5, <1>6, <1>7

-----------------------------------------------------------------------------
(* Which lines an invariant log may get.                                      *)

\* Every final line before reports the end that line reports, it may be visible
\* already, and for a task that nobody knows it is Starting or interrupted.
Fits(t, line) ==
    /\ line \in Snapshots
    /\ FinalsAre(log[t], line)
    /\ Finished(line) =>
          /\ line.at <= clock
          /\ due[t] # Never => due[t] <= line.at
          /\ line.status # "Interrupted" => told[t] = line.status
    /\ t \notin answered => line.status \in {"Starting", "Interrupted"}

\* What was written of a line that fits leaves a log in which ends agree.
LEMMA FinalStaysGrows ==
    ASSUME NEW t \in Tasks, NEW line, FinalStays(log[t]), log[t] \in Seq(Lines),
           Adds(t, line), FinalsAre(log[t], line)
    PROVE  FinalStays(log[t])'
<1> SUFFICES ASSUME NEW i \in 1..Len(log'[t]), NEW j \in 1..Len(log'[t]),
                    i < j, Finished(log'[t][i]), log'[t][j] \in Snapshots
             PROVE  Same(log'[t][j], log'[t][i])
  BY DEF FinalStays, Finished
<1>1. log'[t][i] \in Snapshots
  BY LineFacts DEF Adds, Lines
<1>2. i \in 1..Len(log[t]) /\ log'[t][i] = log[t][i]
  BY <1>1 DEF Adds
<1>3. CASE j \in 1..Len(log[t]) /\ log'[t][j] = log[t][j]
  BY <1>2, <1>3 DEF FinalStays
<1>4. CASE log'[t][j] = line
  BY <1>2, <1>4 DEF FinalsAre, Same
<1> QED
  BY <1>3, <1>4 DEF Adds

\* A final line of the new log was there before, or is the line.
LEMMA FinalLines ==
    ASSUME NEW t \in Tasks, NEW line, Adds(t, line),
           NEW i \in 1..Len(log'[t]), Finished(log'[t][i])
    PROVE  \/ i \in 1..Len(log[t]) /\ log'[t][i] = log[t][i]
           \/ log'[t][i] = line
<1>1. log'[t][i] \in Snapshots
  BY LineFacts DEF Adds, Lines
<1> QED
  BY <1>1 DEF Adds

\* The lines of a log that grows while clients read nothing new.
LEMMA LineInvGrows ==
    ASSUME TypeOK, NEW t \in Tasks, NEW line, LineInv(t), Adds(t, line),
           Fits(t, line) \/ ~Finished(line),
           told'[t] = told[t], due'[t] = due[t], clock' = clock
    PROVE  LineInv(t)'
<1> SUFFICES ASSUME NEW i \in 1..Len(log'[t]), Finished(log'[t][i])
             PROVE  /\ log'[t][i].at <= clock'
                    /\ due'[t] # Never => due'[t] <= log'[t][i].at
                    /\ log'[t][i].status # "Interrupted" => told'[t] = log'[t][i].status
  BY DEF LineInv, Finished
<1>1. CASE i \in 1..Len(log[t]) /\ log'[t][i] = log[t][i]
  BY <1>1 DEF LineInv
<1>2. CASE log'[t][i] = line
  BY <1>2 DEF Fits
<1> QED
  BY <1>1, <1>2, FinalLines

\* The log of a task that nobody knows.
LEMMA PhantomLines ==
    ASSUME NEW t \in Tasks, NEW line, PhantomInv(t), Adds(t, line),
           line \in Snapshots => line.status \in {"Starting", "Interrupted"}, t \notin answered
    PROVE  \A i \in 1..Len(log'[t]) :
              log'[t][i] \in Snapshots => log'[t][i].status \in {"Starting", "Interrupted"}
BY DEF PhantomInv, Adds

\* The line of a safe snapshot stays, and so does the first line.
LEMMA SolidStays ==
    ASSUME TypeOK, NEW t \in Tasks, NEW line, Adds(t, line)
    PROVE  /\ \A s : (\E i \in 1..Len(log[t]) : Solid(t, i) /\ Same(log[t][i], s))
                      => \E i \in 1..Len(log'[t]) : Solid(t, i)' /\ Same(log'[t][i], s)
           /\ Durable(t) /\ t \in exists' => Durable(t)'
<1>1. \A s : (\E i \in 1..Len(log[t]) : Solid(t, i) /\ Same(log[t][i], s))
              => \E i \in 1..Len(log'[t]) : Solid(t, i)' /\ Same(log'[t][i], s)
  BY DEF Adds
<1>2. ASSUME Durable(t), t \in exists'
      PROVE  Durable(t)'
  <2>1. 1 \in 1..Len(log[t])
    BY <1>2 DEF Durable, TypeOK
  <2> QED
    BY <1>2, <2>1 DEF Adds, Durable
<1> QED
  BY <1>1, <1>2

-----------------------------------------------------------------------------
(* The lines that the code writes fit.                                        *)

\* persist_snapshot of create.
LEMMA FirstFits ==
    ASSUME TypeOK, NEW t \in Tasks, TaskInv(t), step[t] = "files"
    PROVE  Fits(t, FirstSnapshot) /\ FirstSnapshot.status = "Starting" /\ log[t] = <<>> /\ ended[t]
<1>1. log[t] = <<>> /\ ended[t]
  BY DEF TaskInv, LogInv
<1>2. FinalsAre(log[t], FirstSnapshot)
  BY <1>1 DEF FinalsAre
<1> QED
  BY <1>1, <1>2, Made DEF Fits, FirstSnapshot

\* persist of a transition, and of the handler in start_task.
LEMMA SnapshotFits ==
    ASSUME TypeOK, NEW t \in Tasks, TaskInv(t), step[t] \in {"write", "retry"}
    PROVE  /\ Fits(t, Snapshot(t)) /\ t \in answered
           /\ record[t] \in Snapshots /\ Snapshot(t) \in Snapshots
           /\ Same(Snapshot(t), record[t])
           /\ Finished(Snapshot(t)) <=> Finished(record[t])
<1>1. t \in answered
  BY DEF TaskInv, PhantomInv
<1>2. record[t] \in Snapshots
  BY DEF TaskInv, RecordInv, TypeOK
<1>3. /\ Snapshot(t) \in Snapshots /\ Same(Snapshot(t), record[t])
      /\ Finished(Snapshot(t)) <=> Finished(record[t])
  BY <1>2, Made
<1>4. FinalsAre(log[t], Snapshot(t))
  BY <1>3 DEF TaskInv, LogInv, NoFinals, FinalsAre, Same
<1>5. Finished(Snapshot(t)) =>
        /\ Snapshot(t).at <= clock
        /\ due[t] # Never => due[t] <= Snapshot(t).at
        /\ Snapshot(t).status # "Interrupted" => told[t] = Snapshot(t).status
  BY <1>3 DEF TaskInv, RecordInv, Same
<1> QED
  BY <1>1, <1>2, <1>3, <1>4, <1>5 DEF Fits

\* What recover makes of a log: the end that its final lines report, or
\* interrupted now if none does.
LEMMA RecoveredIs ==
    ASSUME TypeOK, NEW t \in Tasks, TaskInv(t), Latest(log[t]) # None
    PROVE  /\ log[t] # <<>>
           /\ Recovered(t) \in Snapshots /\ Finished(Recovered(t))
           /\ FinalsAre(log[t], Recovered(t))
           /\ Recovered(t).at <= clock
           /\ due[t] # Never => due[t] <= Recovered(t).at
           /\ Recovered(t).status # "Interrupted" =>
                 told[t] = Recovered(t).status /\ t \in answered
<1>1. log[t] \in Seq(Lines)
  BY DEF TypeOK, Lines
<1>2. PICK i \in 1..Len(log[t]) :
        /\ Latest(log[t]) = log[t][i] /\ log[t][i] \in Snapshots
        /\ \A j \in (i + 1)..Len(log[t]) : log[t][j] \notin Snapshots
  BY <1>1, LatestIs
<1>3. log[t] # <<>>
  BY <1>2
<1>4. CASE Finished(log[t][i])
  <2>1. Recovered(t) = log[t][i]
    BY <1>2, <1>4 DEF Recovered
  <2>2. ASSUME NEW k \in 1..Len(log[t]), Finished(log[t][k])
        PROVE  Same(log[t][k], log[t][i])
    <3>1. log[t][k] \in Snapshots
      BY <1>1, <2>2, LineFacts DEF Lines
    <3>2. k <= i
      BY <1>2, <3>1
    <3>3. CASE k < i
      BY <1>2, <2>2, <3>3 DEF TaskInv, LogInv, FinalStays, Same
    <3>4. CASE k = i
      BY <3>4 DEF Same
    <3> QED
      BY <3>2, <3>3, <3>4
  <2>3. FinalsAre(log[t], Recovered(t))
    BY <2>1, <2>2 DEF FinalsAre
  <2>4. /\ log[t][i].at <= clock
        /\ due[t] # Never => due[t] <= log[t][i].at
        /\ log[t][i].status # "Interrupted" => told[t] = log[t][i].status
    BY <1>4 DEF TaskInv, LineInv
  <2>5. t \notin answered => log[t][i].status = "Interrupted"
    BY <1>2, <1>4 DEF TaskInv, PhantomInv, Finished, FinishedStatuses
  <2> QED
    BY <1>2, <1>3, <1>4, <2>1, <2>3, <2>4, <2>5
<1>5. CASE ~Finished(log[t][i])
  <2> DEFINE r == [log[t][i] EXCEPT !.status = "Interrupted", !.at = clock]
  <2>1. Recovered(t) = r
    BY <1>2, <1>5 DEF Recovered
  <2>2. clock \in Nat /\ "Interrupted" \in FinishedStatuses
    BY StoreAssumption DEF TypeOK, FinishedStatuses, Statuses
  <2>3. r \in Snapshots /\ r.status = "Interrupted" /\ r.at = clock
    BY <1>2, <2>2 DEF Snapshots
  <2>4. Finished(r)
    BY <2>2, <2>3 DEF Finished
  <2>5. NoFinals(log[t])
    <3> SUFFICES ASSUME NEW k \in 1..Len(log[t]), Finished(log[t][k])
                 PROVE  FALSE
      BY DEF NoFinals
    <3>1. log[t][k] \in Snapshots
      BY <1>1, LineFacts DEF Lines
    <3>2. k < i
      BY <1>2, <1>5, <3>1
    <3>3. Same(log[t][i], log[t][k])
      BY <1>2, <3>2 DEF TaskInv, LogInv, FinalStays
    <3> QED
      BY <1>5, <3>3 DEF Same, Finished
  <2>6. FinalsAre(log[t], r)
    BY <2>5 DEF FinalsAre, NoFinals
  <2>7. due[t] # Never => due[t] <= clock
    BY DEF TaskInv, RecordInv
  <2> HIDE DEF r
  <2> QED
    BY <1>3, <2>1, <2>2, <2>3, <2>4, <2>6, <2>7
<1> QED
  BY <1>4, <1>5

-----------------------------------------------------------------------------
(* Tasks that a step leaves alone.                                            *)

\* The task is as it was, on disk and in memory, and time does not go back.
Still(u) ==
    /\ log'[u] = log[u] /\ ended'[u] = ended[u]
    /\ step'[u] = step[u] /\ record'[u] = record[u]
    /\ told'[u] = told[u] /\ due'[u] = due[u] /\ safe'[u] = safe[u]
    /\ u \in exists' <=> u \in exists
    /\ u \in map' <=> u \in map
    /\ u \in answered' <=> u \in answered
    /\ u \in damaged' <=> u \in damaged
    /\ clock' \in Nat /\ clock <= clock'

\* open and cleanup_expired have not come to it either.
Unvisited(u) ==
    /\ process' = process
    /\ u \in toScan' <=> u \in toScan
    /\ u \in expired' => u \in expired

\* A retention time that is over stays over.
LEMMA DueStays ==
    ASSUME TypeOK, NEW t \in Tasks, Due(t), due'[t] = due[t], clock' \in Nat, clock <= clock'
    PROVE  Due(t)'
BY StoreAssumption DEF Due, TypeOK

\* A task keeps its invariant in the steps of others.
LEMMA StillInv ==
    ASSUME TypeOK, NEW u \in Tasks, TaskInv(u), Still(u)
    PROVE  /\ LogInv(u)' /\ LineInv(u)' /\ RecordInv(u)' /\ PhantomInv(u)' /\ SafeInv(u)'
           /\ Durable(u) => Durable(u)'
           /\ Due(u) => Due(u)'
<1>1. clock \in Nat /\ due[u] \in Int /\ record[u] \in Snapshots \cup {None} /\ log[u] \in Seq(Lines)
  BY StoreAssumption DEF TypeOK, Lines
<1>2. LogInv(u)'
  BY DEF TaskInv, LogInv, Still, FinalStays, FinalsAre, NoFinals
<1>3. LineInv(u)'
  <2>1. \A i \in 1..Len(log[u]) : Finished(log[u][i]) => log[u][i].at \in Nat
    BY <1>1, LineFacts DEF Lines
  <2> QED
    BY <1>1, <2>1 DEF TaskInv, LineInv, Still
<1>4. RecordInv(u)'
  <2>1. Finished(record[u]) => record[u].at \in Nat
    BY <1>1, LineFacts
  <2>2. /\ due[u] # Never => due[u] \in 0..clock'
        /\ Finished(record[u]) => record[u].at <= clock'
    BY <1>1, <2>1 DEF TaskInv, RecordInv, Still
  <2> QED
    BY <2>2 DEF TaskInv, RecordInv, Still
<1>5. PhantomInv(u)' /\ SafeInv(u)'
  BY DEF TaskInv, PhantomInv, SafeInv, Still, Solid
<1>6. Durable(u) => Durable(u)'
  BY DEF Durable, Still, Solid
<1>7. Due(u) => Due(u)'
  BY DueStays DEF Still
<1> QED
  BY <1>2, <1>3, <1>4, <1>5, <1>6, <1>7

\* The same with the part that looks at open and cleanup_expired.
LEMMA UnvisitedInv ==
    ASSUME TypeOK, NEW u \in Tasks, TaskInv(u), Still(u), Unvisited(u)
    PROVE  TaskInv(u)'
<1>1. KeptInv(u)'
  BY StillInv DEF TaskInv, KeptInv, Still, Unvisited
<1> QED
  BY <1>1, StillInv DEF TaskInv

-----------------------------------------------------------------------------
(* The process is lost.                                                       *)

\* The disk keeps what was written, and the part of a line that was being
\* written; nothing else of a task is left.
LEMMA LostInv ==
    ASSUME TypeOK, NEW t \in Tasks, TaskInv(t), Lost, NEW line, Adds(t, line),
           Fits(t, line) \/ (log'[t] = log[t] /\ ended'[t] = ended[t]),
           log'[t] = log[t] \/ (step[t] # "none" /\ (safe[t] = None \/ log[t] # <<>>)),
           t \notin damaged' => t \notin damaged /\ ended'[t] = ended[t]
    PROVE  TaskInv(t)'
<1> USE DEF Lost
<1>1. /\ step'[t] = IF step[t] = "none" THEN "none" ELSE "left"
      /\ record'[t] = None /\ t \notin map' /\ t \notin expired'
      /\ told'[t] = told[t] /\ due'[t] = due[t] /\ safe'[t] = safe[t]
      /\ clock' = clock /\ process' = "down"
      /\ t \in answered' <=> t \in answered
      /\ t \in exists' <=> t \in exists
  BY DEF TypeOK
<1>2. log[t] \in Seq(Lines) /\ clock \in Nat
  BY StoreAssumption DEF TypeOK, Lines
<1>3. LogInv(t)'
  <2>1. FinalStays(log[t])'
    <3>1. CASE Fits(t, line)
      BY <1>2, <3>1, FinalStaysGrows DEF TaskInv, LogInv, Fits
    <3>2. CASE log'[t] = log[t]
      BY <3>2 DEF TaskInv, LogInv, FinalStays
    <3> QED
      BY <3>1, <3>2
  <2> QED
    BY <1>1, <2>1 DEF TaskInv, LogInv, Adds
<1>4. LineInv(t)'
  <2>1. CASE Fits(t, line)
    BY <1>1, <2>1, LineInvGrows DEF TaskInv
  <2>2. CASE log'[t] = log[t]
    BY <1>1, <2>2 DEF TaskInv, LineInv
  <2> QED
    BY <2>1, <2>2
<1>5. RecordInv(t)'
  BY <1>1, LineFacts DEF TaskInv, RecordInv
<1>6. PhantomInv(t)'
  <2>1. CASE Fits(t, line)
    BY <1>1, <2>1, PhantomLines DEF TaskInv, PhantomInv, Fits
  <2>2. CASE log'[t] = log[t]
    BY <1>1, <2>2 DEF TaskInv, PhantomInv
  <2> QED
    BY <2>1, <2>2
<1>7. SafeInv(t)'
  BY <1>1, SolidStays DEF TaskInv, SafeInv
<1>8. KeptInv(t)'
  <2>1. Durable(t) => Durable(t)'
    BY <1>1, SolidStays DEF Durable
  <2>2. Due(t) => Due(t)'
    BY <1>1, <1>2, DueStays
  <2> QED
    BY <1>1, <2>1, <2>2 DEF TaskInv, KeptInv
<1> QED
  BY <1>3, <1>4, <1>5, <1>6, <1>7, <1>8 DEF TaskInv

\* A crash between two appends.
LEMMA CrashInv ==
    ASSUME TypeOK, NEW u \in Tasks, TaskInv(u), Lost,
           log'[u] = log[u], ended'[u] = ended[u], u \in damaged' <=> u \in damaged
    PROVE  TaskInv(u)'
<1>1. Adds(u, Garbled)
  BY SameLogAdds DEF TaskInv
<1> QED
  BY <1>1, LostInv

-----------------------------------------------------------------------------
(* create.                                                                    *)

\* create_dir touches nothing that a client or a later process looks at.
LEMMA MakeDirectoryInv ==
    ASSUME TypeOK, NEW t \in Tasks, \A u \in Tasks : TaskInv(u), MakeDirectory(t)
    PROVE  \A u \in Tasks : TaskInv(u)'
<1> USE DEF MakeDirectory, openVars, memoryVars, historyVars
<1>1. \A u \in Tasks \ {t} : Still(u) /\ Unvisited(u)
  BY StoreAssumption DEF Still, Unvisited, TypeOK
<1>2. step'[t] = "files" /\ step[t] = "none"
  BY DEF TypeOK
<1>3. Durable(t) => Durable(t)'
  BY DEF Durable, Solid
<1>4. LogInv(t)' /\ LineInv(t)'
  BY <1>2 DEF TaskInv, LogInv, LineInv, FinalStays
<1>5. RecordInv(t)'
  BY <1>2 DEF TaskInv, RecordInv
<1>6. PhantomInv(t)' /\ SafeInv(t)'
  BY <1>2 DEF TaskInv, PhantomInv, SafeInv, Solid
<1>7. KeptInv(t)'
  BY <1>2, <1>3 DEF TaskInv, KeptInv, Due
<1>8. TaskInv(t)'
  BY <1>4, <1>5, <1>6, <1>7 DEF TaskInv
<1> QED
  BY <1>1, <1>8, UnvisitedInv

\* The first line is terminated, so it can be found by every later process.
LEMMA PersistFirstInv ==
    ASSUME TypeOK, NEW t \in Tasks, \A u \in Tasks : TaskInv(u), PersistFirst(t)
    PROVE  \A u \in Tasks : TaskInv(u)'
<1> USE DEF PersistFirst, openVars, memoryVars, historyVars
<1>1. /\ Fits(t, FirstSnapshot) /\ FirstSnapshot.status = "Starting"
      /\ log[t] = <<>> /\ ended[t] /\ FirstSnapshot \in Lines
  BY FirstFits, Made DEF Lines
<1>2. /\ Adds(t, FirstSnapshot) /\ ended'[t]
      /\ log'[t] = Append(log[t], FirstSnapshot)
      /\ \A u \in Tasks \ {t} : log'[u] = log[u] /\ ended'[u] = ended[u]
  BY <1>1, AppendAdds DEF TaskInv
<1>3. \A u \in Tasks \ {t} : Still(u) /\ Unvisited(u)
  BY <1>2, StoreAssumption DEF Still, Unvisited, TypeOK
<1>4. step'[t] = "insert" /\ step[t] = "files"
  BY DEF TypeOK
<1>5. Len(log'[t]) = 1 /\ log'[t][1] = FirstSnapshot /\ ~Finished(FirstSnapshot)
  BY <1>1, <1>2, Made
<1>6. LogInv(t)' /\ LineInv(t)'
  BY <1>2, <1>4, <1>5 DEF LogInv, LineInv, FinalStays, NoFinals
<1>7. RecordInv(t)'
  BY <1>4 DEF TaskInv, RecordInv
<1>8. PhantomInv(t)' /\ SafeInv(t)'
  BY <1>1, <1>4, <1>5 DEF TaskInv, PhantomInv, SafeInv
<1>9. KeptInv(t)'
  <2>1. Durable(t)'
    BY <1>1, <1>2, <1>5 DEF Durable, Solid, AppendLine, Fits
  <2> QED
    BY <1>4, <2>1 DEF TaskInv, KeptInv, Due
<1>10. TaskInv(t)'
  BY <1>6, <1>7, <1>8, <1>9 DEF TaskInv
<1> QED
  BY <1>3, <1>10, UnvisitedInv

\* What a failed create leaves is at most a Starting line.
LEMMA CreateFailsInv ==
    ASSUME TypeOK, NEW t \in Tasks, NEW tear, \A u \in Tasks : TaskInv(u), CreateFails(t, tear)
    PROVE  \A u \in Tasks : TaskInv(u)'
<1> USE DEF CreateFails, openVars, memoryVars, historyVars
<1>1. /\ Fits(t, FirstSnapshot) /\ FirstSnapshot.status = "Starting"
      /\ log[t] = <<>> /\ ended[t] /\ FirstSnapshot \in Lines
  BY FirstFits, Made DEF Lines
<1>2. /\ Adds(t, FirstSnapshot)
      /\ \A u \in Tasks \ {t} : log'[u] = log[u] /\ ended'[u] = ended[u]
  BY <1>1, TearAdds DEF TaskInv
<1>3. \A u \in Tasks \ {t} : Still(u) /\ Unvisited(u)
  BY <1>2, StoreAssumption DEF Still, Unvisited, TypeOK
<1>4. step'[t] = "left" /\ step[t] = "files" /\ t \in damaged'
  BY DEF TypeOK
<1>5. log[t] \in Seq(Lines)
  BY DEF TypeOK, Lines
<1>6. LogInv(t)'
  <2>1. FinalStays(log[t])'
    BY <1>1, <1>2, <1>5, FinalStaysGrows DEF TaskInv, LogInv, Fits
  <2> QED
    BY <1>2, <1>4, <2>1 DEF LogInv, Adds
<1>7. LineInv(t)'
  BY <1>1, <1>2, LineInvGrows DEF TaskInv
<1>8. RecordInv(t)'
  BY <1>4 DEF TaskInv, RecordInv
<1>9. PhantomInv(t)'
  BY <1>1, <1>2, <1>4, PhantomLines DEF TaskInv, PhantomInv
<1>10. SafeInv(t)'
  BY <1>4 DEF TaskInv, SafeInv
<1>11. KeptInv(t)'
  <2>1. Durable(t) => Durable(t)'
    BY <1>2, SolidStays DEF Durable
  <2> QED
    BY <1>4, <2>1 DEF TaskInv, KeptInv, Due
<1>12. TaskInv(t)'
  BY <1>6, <1>7, <1>8, <1>9, <1>10, <1>11 DEF TaskInv
<1> QED
  BY <1>3, <1>12, UnvisitedInv

\* The id is answered once the task is in the map and its first line on disk.
LEMMA InsertInv ==
    ASSUME TypeOK, NEW t \in Tasks, \A u \in Tasks : TaskInv(u), Insert(t)
    PROVE  \A u \in Tasks : TaskInv(u)'
<1> USE DEF Insert, diskVars, openVars
<1>1. \A u \in Tasks \ {t} : Still(u) /\ Unvisited(u)
  BY StoreAssumption DEF Still, Unvisited, TypeOK
<1>2. step'[t] = "idle" /\ step[t] = "insert" /\ record'[t] = FirstSnapshot
  BY DEF TypeOK
<1>3. LogInv(t)' /\ LineInv(t)'
  BY <1>2 DEF TaskInv, LogInv, LineInv, FinalStays, NoFinals
<1>4. RecordInv(t)'
  BY <1>2, Made, LineFacts DEF TaskInv, RecordInv
<1>5. PhantomInv(t)' /\ SafeInv(t)'
  BY <1>2 DEF TaskInv, PhantomInv, SafeInv
<1>6. KeptInv(t)'
  BY <1>2 DEF TaskInv, KeptInv, Due, Durable, Solid
<1>7. TaskInv(t)'
  BY <1>3, <1>4, <1>5, <1>6 DEF TaskInv
<1> QED
  BY <1>1, <1>7, UnvisitedInv

-----------------------------------------------------------------------------
(* The executor.                                                              *)

\* Dropped output changes the atomic only.
LEMMA TruncateInv ==
    ASSUME TypeOK, NEW t \in Tasks, \A u \in Tasks : TaskInv(u), Truncate(t)
    PROVE  \A u \in Tasks : TaskInv(u)'
<1>1. \A u \in Tasks : Still(u) /\ Unvisited(u)
  BY StoreAssumption DEF Truncate, diskVars, openVars, historyVars, Still, Unvisited, TypeOK
<1> QED
  BY <1>1, UnvisitedInv

\* The first half of a transition: clients read a final status for the first
\* time, and the log holds none yet.
LEMMA TransitionInv ==
    ASSUME TypeOK, NEW t \in Tasks, \A u \in Tasks : TaskInv(u),
           NEW s \in Snapshots, NEW next \in {"write", "retry"},
           Finished(s) => s.at = clock, next = "retry" => Finished(s),
           Transition(t, s, next)
    PROVE  \A u \in Tasks : TaskInv(u)'
<1> USE DEF Transition, Tell, diskVars, openVars
<1>1. \A u \in Tasks \ {t} : Still(u) /\ Unvisited(u)
  BY StoreAssumption DEF Still, Unvisited, TypeOK
<1>2. step'[t] = next /\ step[t] = "idle" /\ record'[t] = s
  BY DEF TypeOK
<1>3. told[t] = "none" /\ due[t] = Never /\ NoFinals(log[t])
  BY <1>2 DEF TaskInv, RecordInv, LogInv
<1>4. /\ told'[t] = IF Finished(s) THEN s.status ELSE "none"
      /\ due'[t] = IF Finished(s) THEN clock ELSE Never
  BY <1>3 DEF TypeOK
<1>5. clock \in Nat /\ Never = -1 /\ s # None
  BY StoreAssumption, LineFacts DEF TypeOK, Never
<1>6. LogInv(t)' /\ LineInv(t)'
  BY <1>2, <1>3 DEF TaskInv, LogInv, LineInv, FinalStays, NoFinals, FinalsAre
<1>7. RecordInv(t)'
  <2>1. Finished(s) => s.status # "none"
    BY DEF Finished, FinishedStatuses, Statuses
  <2> QED
    BY <1>2, <1>4, <1>5, <2>1 DEF TaskInv, RecordInv
<1>8. PhantomInv(t)' /\ SafeInv(t)'
  BY <1>2 DEF TaskInv, PhantomInv, SafeInv
<1>9. KeptInv(t)'
  <2>1. ~Due(t)
    BY <1>3 DEF Due
  <2> QED
    BY <1>2, <2>1 DEF TaskInv, KeptInv, Durable, Solid
<1>10. TaskInv(t)'
  BY <1>6, <1>7, <1>8, <1>9 DEF TaskInv
<1> QED
  BY <1>1, <1>10, UnvisitedInv

\* The statuses that run_task and its handler publish.
LEMMA ExecutorInv ==
    ASSUME TypeOK, NEW t \in Tasks, \A u \in Tasks : TaskInv(u), Advance(t) \/ ExecutorFails(t)
    PROVE  \A u \in Tasks : TaskInv(u)'
<1>1. ASSUME NEW status \in Statuses, NEW next \in {"write", "retry"},
             next = "retry" => status \in FinishedStatuses,
             Transition(t, Updated(t, status), next)
      PROVE  \A u \in Tasks : TaskInv(u)'
  <2>1. /\ Updated(t, status) \in Snapshots
        /\ Updated(t, status).status = status
        /\ Finished(Updated(t, status)) => Updated(t, status).at = clock
    BY Made
  <2>2. next = "retry" => Finished(Updated(t, status))
    BY <1>1, <2>1 DEF Finished
  <2> QED
    BY <1>1, <2>1, <2>2, TransitionInv
<1>2. Successors(t) \subseteq Statuses
  BY StoreAssumption DEF Successors, Statuses, FinishedStatuses
<1>3. "Failed" \in Statuses /\ "Failed" \in FinishedStatuses
  BY DEF Statuses, FinishedStatuses
<1> QED
  BY <1>1, <1>2, <1>3 DEF Advance, ExecutorFails

\* The second half: the line says what the record says.
LEMMA PersistInv ==
    ASSUME TypeOK, NEW t \in Tasks, \A u \in Tasks : TaskInv(u), Persist(t)
    PROVE  \A u \in Tasks : TaskInv(u)'
<1> USE DEF Persist, openVars, memoryVars
<1> DEFINE line == Snapshot(t)
<1>1. /\ Fits(t, line) /\ t \in answered
      /\ record[t] \in Snapshots /\ line \in Snapshots /\ line \in Lines
      /\ Same(line, record[t])
      /\ Finished(line) <=> Finished(record[t])
  BY SnapshotFits DEF Lines
<1>2. /\ Adds(t, line) /\ ended'[t]
      /\ ended[t] => log'[t] = Append(log[t], line)
      /\ \A u \in Tasks \ {t} : log'[u] = log[u] /\ ended'[u] = ended[u]
  BY <1>1, AppendAdds DEF TaskInv
<1>3. \A u \in Tasks \ {t} : Still(u) /\ Unvisited(u)
  BY <1>2, StoreAssumption DEF Still, Unvisited, Keep, TypeOK
<1>4. /\ step[t] \in {"write", "retry"} /\ safe[t] = None
      /\ step'[t] = IF Finished(record[t]) THEN "ended" ELSE "idle"
      /\ safe'[t] = IF Finished(line) /\ t \notin damaged THEN line ELSE None
  BY DEF TypeOK, Gone, Keep, TaskInv, SafeInv
<1>5. log[t] \in Seq(Lines)
  BY DEF TypeOK, Lines
<1> HIDE DEF line
<1>6. LogInv(t)'
  <2>1. FinalStays(log[t])'
    BY <1>1, <1>2, <1>5, FinalStaysGrows DEF TaskInv, LogInv, Fits
  <2>2. ~Finished(record[t]) => step[t] = "write"
    BY <1>4 DEF TaskInv, RecordInv
  <2>3. ~Finished(record[t]) => NoFinals(log[t])'
    BY <1>1, <1>2, <2>2, FinalLines DEF TaskInv, LogInv, NoFinals, Finished
  <2> QED
    BY <1>2, <1>4, <2>1, <2>3 DEF LogInv, Adds
<1>7. LineInv(t)'
  BY <1>1, <1>2, LineInvGrows DEF TaskInv
<1>8. RecordInv(t)'
  BY <1>4 DEF TaskInv, RecordInv
<1>9. PhantomInv(t)'
  BY <1>1 DEF PhantomInv
<1>10. SafeInv(t)'
  <2>1. ASSUME Finished(line), t \notin damaged
        PROVE  \E i \in 1..Len(log'[t]) : Solid(t, i)' /\ Same(log'[t][i], line)
    <3>1. log'[t] = Append(log[t], line)
      BY <1>2, <2>1 DEF TaskInv, LogInv
    <3> QED
      BY <1>2, <1>5, <3>1 DEF Solid, Same
  <2> QED
    BY <1>1, <1>4, <2>1 DEF SafeInv, Same
<1>11. KeptInv(t)'
  <2>1. Durable(t) => Durable(t)'
    BY <1>2, SolidStays DEF Durable
  <2> QED
    BY <1>1, <1>4, <2>1 DEF TaskInv, KeptInv, Due
<1>12. TaskInv(t)'
  BY <1>6, <1>7, <1>8, <1>9, <1>10, <1>11 DEF TaskInv
<1> QED
  BY <1>3, <1>12, UnvisitedInv

\* A failed append: what clients read becomes Failed unless it was final.
LEMMA PersistFailsInv ==
    ASSUME TypeOK, NEW t \in Tasks, NEW tear, \A u \in Tasks : TaskInv(u), PersistFails(t, tear)
    PROVE  \A u \in Tasks : TaskInv(u)'
<1> USE DEF PersistFails, openVars
<1> DEFINE line == Snapshot(t)
           fallback == IF Finished(record[t]) THEN record[t] ELSE Updated(t, "Failed")
<1>1. /\ Fits(t, line) /\ t \in answered
      /\ record[t] \in Snapshots /\ line \in Snapshots /\ line \in Lines
      /\ Same(line, record[t])
      /\ Finished(line) <=> Finished(record[t])
  BY SnapshotFits DEF Lines
<1>2. /\ Adds(t, line)
      /\ \A u \in Tasks \ {t} : log'[u] = log[u] /\ ended'[u] = ended[u]
  BY <1>1, TearAdds DEF TaskInv
<1>3. \A u \in Tasks \ {t} : Still(u) /\ Unvisited(u)
  BY <1>2, StoreAssumption DEF Still, Unvisited, Tell, TypeOK
<1>4. /\ step[t] \in {"write", "retry"} /\ safe[t] = None /\ t \in damaged'
      /\ step'[t] = IF step[t] = "write" THEN "retry" ELSE "ended"
      /\ record'[t] = fallback /\ safe'[t] = None
      /\ step[t] = "retry" => Finished(record[t])
  BY DEF TypeOK, TaskInv, SafeInv, RecordInv
<1>5. log[t] \in Seq(Lines) /\ clock \in Nat /\ Never = -1
  BY StoreAssumption DEF TypeOK, Lines, Never
<1>6. /\ fallback \in Snapshots /\ Finished(fallback)
      /\ ~Finished(record[t]) => fallback.status = "Failed" /\ fallback.at = clock
  <2>1. "Failed" \in Statuses /\ "Failed" \in FinishedStatuses
    BY DEF Statuses, FinishedStatuses
  <2> QED
    BY <1>1, <2>1, Made DEF Finished
<1>7. /\ told[t] = IF Finished(record[t]) THEN record[t].status ELSE "none"
      /\ told[t] = "none" <=> due[t] = Never
      /\ due[t] # Never => due[t] \in 0..clock
      /\ Finished(record[t]) => due[t] # Never /\ due[t] <= record[t].at /\ record[t].at <= clock
  BY <1>4 DEF TaskInv, RecordInv
<1>8. /\ told'[t] = fallback.status
      /\ due'[t] = IF Finished(record[t]) THEN due[t] ELSE clock
  <2>1. told'[t] = fallback.status
    BY <1>6 DEF Tell, TypeOK
  <2>2. Finished(record[t]) => due'[t] = due[t]
    BY <1>7 DEF Tell
  <2>3. ~Finished(record[t]) => due'[t] = clock
    BY <1>6, <1>7 DEF Tell, TypeOK
  <2> QED
    BY <2>1, <2>2, <2>3
<1>9. fallback.status # "none"
  BY <1>6 DEF Finished, FinishedStatuses, Statuses
<1>10. Finished(record[t]) => fallback = record[t]
  OBVIOUS
<1> HIDE DEF line, fallback
<1>11. FinalsAre(log'[t], fallback)
  BY <1>1, <1>2, <1>4, <1>10, FinalLines DEF TaskInv, LogInv, NoFinals, FinalsAre, Fits, Same, Finished
<1>12. LogInv(t)'
  <2>1. FinalStays(log[t])'
    BY <1>1, <1>2, <1>5, FinalStaysGrows DEF TaskInv, LogInv, Fits
  <2> QED
    BY <1>2, <1>4, <1>11, <2>1 DEF LogInv, Adds, FinalsAre
<1>13. LineInv(t)'
  <2>1. CASE Finished(record[t])
    BY <1>1, <1>2, <1>7, <1>8, <1>10, <2>1, LineInvGrows DEF TaskInv
  <2>2. CASE ~Finished(record[t])
    <3>1. NoFinals(log[t])
      BY <1>4, <2>2 DEF TaskInv, LogInv
    <3>2. \A i \in 1..Len(log'[t]) : ~Finished(log'[t][i])
      BY <1>1, <1>2, <2>2, <3>1, FinalLines DEF NoFinals
    <3> QED
      BY <3>2 DEF LineInv, Finished
  <2> QED
    BY <2>1, <2>2
<1>14. RecordInv(t)'
  BY <1>4, <1>5, <1>6, <1>7, <1>8, <1>9, <1>10, LineFacts DEF RecordInv
<1>15. PhantomInv(t)' /\ SafeInv(t)'
  BY <1>1, <1>4 DEF PhantomInv, SafeInv
<1>16. KeptInv(t)'
  <2>1. Durable(t) => Durable(t)'
    BY <1>2, SolidStays DEF Durable
  <2>2. Due(t) => Due(t)'
    BY <1>7, <1>8 DEF Due
  <2> QED
    BY <1>1, <1>4, <2>1, <2>2 DEF TaskInv, KeptInv
<1>17. TaskInv(t)'
  BY <1>12, <1>13, <1>14, <1>15, <1>16 DEF TaskInv
<1> QED
  BY <1>3, <1>17, UnvisitedInv

-----------------------------------------------------------------------------
(* Crashes, and open.                                                         *)

\* A crash inside an append of create or of a transition.
LEMMA CrashInAppendInv ==
    ASSUME TypeOK, NEW t \in Tasks, NEW tear, \A u \in Tasks : TaskInv(u), CrashInAppend(t, tear)
    PROVE  \A u \in Tasks : TaskInv(u)'
<1> DEFINE line == IF step[t] = "files" THEN FirstSnapshot ELSE Snapshot(t)
<1>1. /\ step[t] \in {"files", "write", "retry"} /\ Lost
      /\ TearLine(t, line, tear)
      /\ damaged' = damaged \cup {t}
  BY DEF CrashInAppend
<1>2. Fits(t, line) /\ line \in Lines
  BY <1>1, FirstFits, SnapshotFits, Made DEF Lines, Fits
<1> HIDE DEF line
<1>3. /\ Adds(t, line)
      /\ \A u \in Tasks \ {t} : log'[u] = log[u] /\ ended'[u] = ended[u]
  BY <1>1, <1>2, TearAdds DEF TaskInv
<1>4. safe[t] = None
  BY <1>1 DEF TaskInv, SafeInv
<1>5. TaskInv(t)'
  BY <1>1, <1>2, <1>3, <1>4, LostInv
<1> QED
  BY <1>1, <1>3, <1>5, CrashInv

\* The snapshot that recover appends reports the end of the one it made.
LEMMA Uncut ==
    ASSUME NEW s \in Snapshots
    PROVE  LET line == [s EXCEPT !.cut = FALSE] IN
           line \in Snapshots /\ Same(line, s) /\ (Finished(line) <=> Finished(s))
BY DEF Snapshots, Same, Finished

\* In a log that recover reads, the line it appends fits.
LEMMA RecoverFits ==
    ASSUME TypeOK, NEW t \in Tasks, TaskInv(t), Latest(log[t]) # None,
           Recovered(t).status = "Interrupted"
    PROVE  LET line == [Recovered(t) EXCEPT !.cut = FALSE] IN
           Fits(t, line) /\ line \in Lines /\ Same(line, Recovered(t)) /\ Finished(line)
<1> DEFINE line == [Recovered(t) EXCEPT !.cut = FALSE]
<1>1. /\ Recovered(t) \in Snapshots /\ Finished(Recovered(t))
      /\ FinalsAre(log[t], Recovered(t))
      /\ Recovered(t).at <= clock
      /\ due[t] # Never => due[t] <= Recovered(t).at
  BY RecoveredIs
<1>2. line \in Snapshots /\ Same(line, Recovered(t)) /\ Finished(line)
  BY <1>1, Uncut
<1> HIDE DEF line
<1>3. Fits(t, line)
  BY <1>1, <1>2 DEF Fits, FinalsAre, Same
<1>4. Fits(t, line) /\ line \in Lines /\ Same(line, Recovered(t)) /\ Finished(line)
  BY <1>2, <1>3 DEF Lines
<1> QED
  BY <1>4 DEF line

\* A recovered task is in the map again, with the end that is on disk.
LEMMA RecoverInv ==
    ASSUME TypeOK, Shape, NEW t \in Tasks, \A u \in Tasks : TaskInv(u), Recover(t)
    PROVE  \A u \in Tasks : TaskInv(u)'
<1> DEFINE s == Recovered(t)
           line == [s EXCEPT !.cut = FALSE]
<1> USE DEF Recover, Scanning
<1>1. /\ log[t] # <<>>
      /\ s \in Snapshots /\ Finished(s) /\ FinalsAre(log[t], s)
      /\ s.at <= clock
      /\ due[t] # Never => due[t] <= s.at
      /\ s.status # "Interrupted" => told[t] = s.status /\ t \in answered
  BY RecoveredIs
<1>2. s.status = "Interrupted" => Fits(t, line) /\ line \in Lines /\ Same(line, s) /\ Finished(line)
  BY RecoverFits
<1>3. /\ process = "scan" /\ process' = process
      /\ step[t] = "left" /\ step' = step
      /\ t \notin expired /\ expired' = expired /\ exists' = exists
      /\ clock' = clock /\ answered' = answered /\ damaged' = damaged
  BY <1>1 DEF Shape, TaskInv, LogInv
<1>4. clock \in Nat /\ Never = -1 /\ s.at \in Nat /\ log[t] \in Seq(Lines)
  BY <1>1, StoreAssumption, LineFacts DEF TypeOK, Never, Lines
<1>5. /\ record'[t] = s /\ t \in map'
      /\ told'[t] = s.status
      /\ due'[t] = IF due[t] = Never THEN s.at ELSE due[t]
  BY <1>1 DEF Tell, TypeOK
<1>6. IF s.status = "Interrupted"
      THEN AppendLine(t, line) /\ Keep(t, line)
      ELSE UNCHANGED <<log, ended, safe>>
  OBVIOUS
<1>7. \A u \in Tasks \ {t} :
        /\ log'[u] = log[u] /\ ended'[u] = ended[u] /\ safe'[u] = safe[u]
        /\ told'[u] = told[u] /\ due'[u] = due[u] /\ record'[u] = record[u]
        /\ u \in map' <=> u \in map
        /\ u \in toScan' <=> u \in toScan
  <2>1. \A u \in Tasks \ {t} : log'[u] = log[u] /\ ended'[u] = ended[u] /\ safe'[u] = safe[u]
    BY <1>6 DEF AppendLine, Keep, TypeOK
  <2> QED
    BY <2>1 DEF Tell, TypeOK
<1>8. \A u \in Tasks \ {t} : Still(u) /\ Unvisited(u)
  BY <1>3, <1>4, <1>7 DEF Still, Unvisited
<1>9. s.status # "none"
  BY <1>1 DEF Finished, FinishedStatuses, Statuses
<1> HIDE DEF Recover, Scanning, s, line
<1>10. Adds(t, line)
  <2>1. CASE s.status = "Interrupted"
    BY <1>2, <1>6, <2>1, AppendAdds DEF TaskInv
  <2>2. CASE s.status # "Interrupted"
    BY <1>6, <2>2, SameLogAdds DEF TaskInv
  <2> QED
    BY <2>1, <2>2
<1>11. FinalsAre(log'[t], s)
  <2>1. CASE s.status = "Interrupted"
    BY <1>1, <1>2, <1>10, <2>1, FinalLines DEF FinalsAre
  <2>2. CASE s.status # "Interrupted"
    BY <1>1, <1>6, <2>2 DEF FinalsAre
  <2> QED
    BY <2>1, <2>2
<1>12. LogInv(t)'
  <2>1. FinalStays(log[t])'
    <3>1. CASE s.status = "Interrupted"
      BY <1>2, <1>4, <1>10, <3>1, FinalStaysGrows DEF TaskInv, LogInv, Fits
    <3>2. CASE s.status # "Interrupted"
      BY <1>6, <3>2 DEF TaskInv, LogInv, FinalStays
    <3> QED
      BY <3>1, <3>2
  <2>2. t \notin damaged' => ended'[t]
    BY <1>3, <1>6 DEF TaskInv, LogInv, AppendLine, TypeOK
  <2> QED
    BY <1>3, <1>10, <2>1, <2>2 DEF LogInv, Adds
<1>13. LineInv(t)'
  BY <1>1, <1>3, <1>4, <1>5, <1>11 DEF LineInv, FinalsAre, Same
<1>14. RecordInv(t)'
  <2>1. due'[t] \in 0..clock /\ due'[t] <= s.at
    BY <1>1, <1>4, <1>5 DEF TaskInv, RecordInv
  <2> QED
    BY <1>1, <1>3, <1>4, <1>5, <1>9, <2>1, LineFacts DEF RecordInv
<1>15. PhantomInv(t)'
  <2>1. CASE s.status = "Interrupted"
    BY <1>2, <1>3, <1>5, <1>10, <2>1, PhantomLines DEF TaskInv, PhantomInv, Same
  <2>2. CASE s.status # "Interrupted"
    BY <1>1, <1>3, <2>2 DEF PhantomInv
  <2> QED
    BY <2>1, <2>2
<1>16. SafeInv(t)'
  <2>1. CASE safe'[t] = safe[t]
    <3> SUFFICES ASSUME safe[t] # None
                 PROVE  /\ \E i \in 1..Len(log'[t]) : Solid(t, i)' /\ Same(log'[t][i], safe[t])
                        /\ Finished(safe[t]) /\ Same(s, safe[t])
      BY <1>3, <1>5, <2>1 DEF SafeInv
    <3>1. /\ \E i \in 1..Len(log[t]) : Solid(t, i) /\ Same(log[t][i], safe[t])
          /\ Finished(safe[t])
      BY <1>1 DEF TaskInv, SafeInv
    <3>2. \E i \in 1..Len(log'[t]) : Solid(t, i)' /\ Same(log'[t][i], safe[t])
      BY <1>10, <3>1, SolidStays
    <3>3. Same(s, safe[t])
      BY <1>1, <3>1 DEF FinalsAre, Same, Finished
    <3> QED
      BY <3>1, <3>2, <3>3
  <2>2. CASE safe'[t] # safe[t]
    <3>1. s.status = "Interrupted" /\ t \notin damaged /\ safe'[t] = line
      BY <1>6, <2>2 DEF Keep, TypeOK
    <3>2. ended[t]
      BY <3>1 DEF TaskInv, LogInv
    <3>3. log'[t] = Append(log[t], line) /\ ended'[t]
      BY <1>2, <1>6, <3>1, <3>2, AppendAdds DEF TaskInv
    <3>4. \E i \in 1..Len(log'[t]) : Solid(t, i)' /\ Same(log'[t][i], line)
      BY <1>2, <1>4, <3>1, <3>3 DEF Solid, Same
    <3> QED
      BY <1>2, <1>3, <1>5, <3>1, <3>4 DEF SafeInv, Same
  <2> QED
    BY <2>1, <2>2
<1>17. KeptInv(t)'
  <2>1. Durable(t) => Durable(t)'
    BY <1>3, <1>10, SolidStays DEF Durable
  <2>2. Due(t) => Due(t)'
    BY <1>3, <1>5 DEF Due
  <2> QED
    BY <1>3, <1>5, <2>1, <2>2 DEF TaskInv, KeptInv
<1>18. TaskInv(t)'
  BY <1>12, <1>13, <1>14, <1>15, <1>16, <1>17 DEF TaskInv
<1> QED
  BY <1>8, <1>18, UnvisitedInv

\* The append of recover is cut short, by an error or by a crash.
LEMMA RecoverTornInv ==
    ASSUME TypeOK, Shape, NEW t \in Tasks, NEW tear, \A u \in Tasks : TaskInv(u), RecoverTorn(t, tear)
    PROVE  \A u \in Tasks : TaskInv(u)'
<1> DEFINE line == [Recovered(t) EXCEPT !.cut = FALSE]
<1>1. /\ process = "scan" /\ t \in toScan /\ Latest(log[t]) # None
      /\ line.status = "Interrupted"
      /\ TearLine(t, line, tear)
      /\ damaged' = damaged \cup {t}
  BY DEF RecoverTorn, Scanning
<1>2. Recovered(t) \in Snapshots /\ log[t] # <<>>
  BY <1>1, RecoveredIs
<1>3. Recovered(t).status = "Interrupted"
  BY <1>1, <1>2, Uncut DEF Same
<1>4. Fits(t, line) /\ line \in Lines
  BY <1>1, <1>3, RecoverFits
<1>5. CASE Lost
  <2> HIDE DEF line
  <2>1. /\ Adds(t, line)
        /\ \A u \in Tasks \ {t} : log'[u] = log[u] /\ ended'[u] = ended[u]
    BY <1>1, <1>4, TearAdds DEF TaskInv
  <2>2. step[t] # "none"
    BY <1>2 DEF TaskInv, LogInv
  <2>3. TaskInv(t)'
    BY <1>1, <1>2, <1>4, <1>5, <2>1, <2>2, LostInv
  <2> QED
    BY <1>1, <1>5, <2>1, <2>3, CrashInv
<1>6. CASE /\ process' = "failed"
           /\ UNCHANGED <<exists, openVars, memoryVars, step, clock, crashes, answered, told, due, safe>>
  <2> USE <1>6 DEF openVars, memoryVars
  <2> HIDE DEF line
  <2>1. /\ Adds(t, line)
        /\ \A u \in Tasks \ {t} : log'[u] = log[u] /\ ended'[u] = ended[u]
    BY <1>1, <1>4, TearAdds DEF TaskInv
  <2>2. step[t] = "left" /\ t \notin expired /\ log[t] \in Seq(Lines) /\ t \in damaged'
    BY <1>1, <1>2 DEF Shape, TaskInv, LogInv, TypeOK, Lines
  <2>3. LogInv(t)'
    <3>1. FinalStays(log[t])'
      BY <1>4, <2>1, <2>2, FinalStaysGrows DEF TaskInv, LogInv, Fits
    <3> QED
      BY <2>1, <2>2, <3>1 DEF LogInv, Adds
  <2>4. LineInv(t)'
    BY <1>4, <2>1, LineInvGrows DEF TaskInv
  <2>5. RecordInv(t)'
    BY DEF TaskInv, RecordInv
  <2>6. PhantomInv(t)'
    BY <1>4, <2>1, <2>2, PhantomLines DEF TaskInv, PhantomInv, Fits
  <2>7. SafeInv(t)'
    BY <1>2, <2>1, <2>2, SolidStays DEF TaskInv, SafeInv
  <2>8. KeptInv(t)'
    <3>1. Durable(t) => Durable(t)'
      BY <2>1, SolidStays DEF Durable
    <3> QED
      BY <2>2, <3>1 DEF TaskInv, KeptInv, Due
  <2>9. TaskInv(t)'
    BY <2>3, <2>4, <2>5, <2>6, <2>7, <2>8 DEF TaskInv
  <2>10. ASSUME NEW u \in Tasks \ {t} PROVE TaskInv(u)'
    <3>1. Still(u)
      BY <1>1, <2>1, StoreAssumption DEF Still, TypeOK
    <3>2. KeptInv(u)'
      BY <3>1, StillInv DEF TaskInv, KeptInv, Still
    <3> QED
      BY <3>1, <3>2, StillInv DEF TaskInv
  <2> QED
    BY <2>9, <2>10
<1> QED
  BY <1>5, <1>6 DEF RecoverTorn

\* The steps of open and of cleanup_expired that write nothing: a known task
\* is passed over only when its retention time is over, and what has expired
\* counts from a finished_at that clients could read before.
LEMMA OpenStepsInv ==
    ASSUME TypeOK, Shape, NEW t \in Tasks, \A u \in Tasks : TaskInv(u),
           Open \/ SkipDirectory(t) \/ RecoverFails(t) \/ SweepFirst \/ Serve \/ Collect \/ Tick
    PROVE  \A u \in Tasks : TaskInv(u)'
<1> SUFFICES ASSUME NEW u \in Tasks PROVE TaskInv(u)'
  OBVIOUS
<1>1. Still(u)
  <2>1. UNCHANGED <<log, ended, exists, map, record, step, answered, told, due, damaged, safe>>
    BY DEF Open, SkipDirectory, RecoverFails, SweepFirst, Serve, Collect, Tick, diskVars, memoryVars,
           historyVars
  <2>2. clock' = clock \/ clock' = clock + 1
    BY DEF Open, SkipDirectory, RecoverFails, SweepFirst, Serve, Collect, Tick
  <2>3. clock \in Nat
    BY StoreAssumption DEF TypeOK
  <2>4. clock' \in Nat /\ clock <= clock'
    BY <2>2, <2>3
  <2> QED
    BY <2>1, <2>4 DEF Still
<1>2. /\ LogInv(u)' /\ LineInv(u)' /\ RecordInv(u)' /\ PhantomInv(u)' /\ SafeInv(u)'
      /\ Durable(u) => Durable(u)'
      /\ Due(u) => Due(u)'
  BY <1>1, StillInv
<1>3. Expired(u) => Due(u)
  <2> SUFFICES ASSUME Expired(u) PROVE Due(u)
    OBVIOUS
  <2>1. record[u] \in Snapshots /\ record[u].at # Never
    BY DEF Expired, TaskInv, RecordInv, TypeOK
  <2>2. Finished(record[u]) /\ record[u].at \in Nat
    BY <2>1, LineFacts
  <2>3. due[u] # Never /\ due[u] <= record[u].at /\ due[u] \in Int /\ clock \in Nat
    BY <2>2, StoreAssumption DEF TaskInv, RecordInv, TypeOK
  <2>4. clock - due[u] >= clock - record[u].at
    BY <2>2, <2>3
  <2> QED
    BY <2>2, <2>3, <2>4, StoreAssumption DEF Expired, Due
<1>4. KeptInv(u)'
  <2>1. CASE Open
    BY <1>1, <1>2, <2>1 DEF Open, Shape, TaskInv, KeptInv, Still, Durable
  <2>2. CASE SkipDirectory(t)
    <3>1. u = t => ~Durable(u)
      <4>1. log[t] \in Seq(Lines)
        BY DEF TypeOK, Lines
      <4>2. \A i \in 1..Len(log[t]) : log[t][i] \notin Snapshots
        BY <2>2, <4>1, LatestIs DEF SkipDirectory
      <4> QED
        BY <4>1, <4>2 DEF Durable
    <3> QED
      BY <1>1, <1>2, <2>2, <3>1 DEF SkipDirectory, Scanning, TaskInv, KeptInv, Still
  <2>3. CASE RecoverFails(t)
    BY <1>1, <1>2, <2>3 DEF RecoverFails, TaskInv, KeptInv, Still, openVars
  <2>4. CASE SweepFirst
    BY <1>1, <1>2, <1>3, <2>4 DEF SweepFirst, TaskInv, KeptInv, Still
  <2>5. CASE Serve
    BY <1>1, <1>2, <2>5 DEF Serve, TaskInv, KeptInv, Still, openVars
  <2>6. CASE Collect
    BY <1>1, <1>2, <1>3, <2>6 DEF Collect, TaskInv, KeptInv, Still
  <2>7. CASE Tick
    BY <1>1, <1>2, <2>7 DEF Tick, TaskInv, KeptInv, Still, openVars
  <2> QED
    BY <2>1, <2>2, <2>3, <2>4, <2>5, <2>6, <2>7
<1> QED
  BY <1>2, <1>4 DEF TaskInv

\* Only a task whose retention time is over loses its record, its log or its
\* directory, however much of the directory remains.
LEMMA RemoveInv ==
    ASSUME TypeOK, NEW t \in Tasks, \A u \in Tasks : TaskInv(u), Remove(t)
    PROVE  \A u \in Tasks : TaskInv(u)'
<1> USE DEF Remove, historyVars
<1>1. \A u \in Tasks \ {t} : Still(u) /\ Unvisited(u)
  BY StoreAssumption DEF Still, Unvisited, TypeOK
<1>2. /\ Due(t) /\ Due(t)'
      /\ step[t] \notin {"none", "files", "insert", "idle"}
  BY DEF TaskInv, KeptInv, RecordInv, Due
<1>3. \/ log'[t] = log[t] /\ ended'[t] = ended[t]
      \/ log'[t] = <<>> /\ ended'[t]
  BY DEF TypeOK
<1>4. t \notin map' /\ record' = record /\ step' = step
  OBVIOUS
<1>5. LogInv(t)' /\ LineInv(t)'
  <2>1. CASE log'[t] = log[t] /\ ended'[t] = ended[t]
    BY <2>1 DEF TaskInv, LogInv, LineInv, FinalStays, NoFinals, FinalsAre
  <2>2. CASE log'[t] = <<>> /\ ended'[t]
    BY <2>2 DEF TaskInv, LogInv, LineInv, FinalStays, NoFinals, FinalsAre
  <2> QED
    BY <1>3, <2>1, <2>2
<1>6. RecordInv(t)'
  BY <1>4 DEF TaskInv, RecordInv
<1>7. PhantomInv(t)' /\ SafeInv(t)'
  BY <1>3, <1>4 DEF TaskInv, PhantomInv, SafeInv, Solid
<1>8. KeptInv(t)'
  BY <1>2 DEF KeptInv
<1>9. TaskInv(t)'
  BY <1>5, <1>6, <1>7, <1>8 DEF TaskInv
<1> QED
  BY <1>1, <1>9, UnvisitedInv

-----------------------------------------------------------------------------
(* Types and the shape of the process.                                        *)

\* An append, whole or cut short, leaves logs of lines.
LEMMA LogTypes ==
    ASSUME TypeOK, NEW t \in Tasks, NEW line \in Lines, NEW tear, LogInv(t),
           AppendLine(t, line) \/ TearLine(t, line, tear)
    PROVE  log' \in [Tasks -> Seq(Lines)] /\ ended' \in [Tasks -> BOOLEAN]
<1>1. log \in [Tasks -> Seq(Lines)] /\ ended \in [Tasks -> BOOLEAN]
  BY DEF TypeOK, Lines
<1>2. log'[t] \in Seq(Lines)
  BY AppendAdds, TearAdds DEF Adds
<1>3. \E x : log' = [log EXCEPT ![t] = x]
  BY DEF AppendLine, TearLine
<1>4. log' \in [Tasks -> Seq(Lines)]
  BY <1>1, <1>2, <1>3
<1>5. \E x \in BOOLEAN : ended' = [ended EXCEPT ![t] = x]
  BY DEF AppendLine, TearLine
<1>6. ended' \in [Tasks -> BOOLEAN]
  BY <1>1, <1>5
<1> QED
  BY <1>4, <1>6

\* What clients are told of a snapshot, and what is kept of it.
LEMMA HistoryTypes ==
    ASSUME TypeOK, NEW t \in Tasks, NEW s \in Snapshots
    PROVE  /\ Tell(t, s) => told' \in [Tasks -> FinishedStatuses \cup {"none"}] /\ due' \in [Tasks -> Int]
           /\ Keep(t, s) => safe' \in [Tasks -> Snapshots \cup {None}]
<1>1. Finished(s) => s.status \in FinishedStatuses /\ s.at \in Int
  BY LineFacts DEF Finished
<1>2. Tell(t, s) => told' \in [Tasks -> FinishedStatuses \cup {"none"}]
  BY <1>1 DEF Tell, TypeOK
<1>3. Tell(t, s) => due' \in [Tasks -> Int]
  BY <1>1 DEF Tell, TypeOK
<1>4. Keep(t, s) => safe' \in [Tasks -> Snapshots \cup {None}]
  BY DEF Keep, TypeOK
<1> QED
  BY <1>2, <1>3, <1>4

\* A process that is lost forgets what was in memory.
LEMMA LostTypes ==
    ASSUME TypeOK, Lost, log' \in [Tasks -> Seq(Lines)], ended' \in [Tasks -> BOOLEAN],
           damaged' \subseteq Tasks
    PROVE  TypeOK'
<1>1. crashes' \in 0..MaxCrashes
  BY StoreAssumption DEF Lost, TypeOK
<1>2. flag' \in [Tasks -> BOOLEAN] /\ record' \in [Tasks -> Snapshots \cup {None}]
  BY DEF Lost
<1>3. step' \in [Tasks -> Steps]
  BY DEF Lost, Steps
<1> QED
  BY <1>1, <1>2, <1>3 DEF Lost, TypeOK, Lines

\* Every step keeps the types.
LEMMA TypeStep ==
    ASSUME IInv, [Next]_vars
    PROVE  TypeOK'
<1> USE DEF diskVars, openVars, memoryVars, historyVars
<1>0. TypeOK /\ Shape /\ \A u \in Tasks : TaskInv(u) /\ LogInv(u)
  BY DEF IInv, TaskInv
<1>1. ASSUME NEW t \in Tasks, MakeDirectory(t) PROVE TypeOK'
  <2>1. step' \in [Tasks -> Steps]
    BY <1>0, <1>1 DEF MakeDirectory, TypeOK, Steps
  <2> QED
    BY <1>0, <1>1, <2>1 DEF MakeDirectory, TypeOK
<1>2. ASSUME NEW t \in Tasks, Truncate(t) PROVE TypeOK'
  <2>1. flag' \in [Tasks -> BOOLEAN]
    BY <1>0, <1>2 DEF Truncate, TypeOK
  <2> QED
    BY <1>0, <1>2, <2>1 DEF Truncate, TypeOK
<1>3. ASSUME NEW t \in Tasks, PersistFirst(t) PROVE TypeOK'
  <2>1. log' \in [Tasks -> Seq(Lines)] /\ ended' \in [Tasks -> BOOLEAN]
    BY <1>0, <1>3, LogTypes, Made DEF PersistFirst, Lines
  <2>2. step' \in [Tasks -> Steps]
    BY <1>0, <1>3 DEF PersistFirst, TypeOK, Steps
  <2> QED
    BY <1>0, <1>3, <2>1, <2>2 DEF PersistFirst, TypeOK, Lines
<1>4. ASSUME NEW t \in Tasks, Insert(t) PROVE TypeOK'
  <2>1. step' \in [Tasks -> Steps]
    BY <1>0, <1>4 DEF Insert, TypeOK, Steps
  <2>2. record' \in [Tasks -> Snapshots \cup {None}]
    BY <1>0, <1>4, Made DEF Insert, TypeOK
  <2> QED
    BY <1>0, <1>4, <2>1, <2>2 DEF Insert, TypeOK
<1>5. ASSUME NEW t \in Tasks, Persist(t) PROVE TypeOK'
  <2>1. Snapshot(t) \in Snapshots
    BY <1>0, <1>5, SnapshotFits DEF Persist
  <2>2. log' \in [Tasks -> Seq(Lines)] /\ ended' \in [Tasks -> BOOLEAN]
    BY <1>0, <1>5, <2>1, LogTypes DEF Persist, Lines
  <2>3. safe' \in [Tasks -> Snapshots \cup {None}]
    BY <1>0, <1>5, <2>1, HistoryTypes DEF Persist
  <2>4. step' \in [Tasks -> Steps]
    BY <1>0, <1>5 DEF Persist, TypeOK, Steps, Gone
  <2> QED
    BY <1>0, <1>5, <2>2, <2>3, <2>4 DEF Persist, TypeOK, Lines
<1>6. ASSUME NEW t \in Tasks, NEW status \in Statuses, NEW next \in {"write", "retry"},
             Transition(t, Updated(t, status), next)
      PROVE  TypeOK'
  <2>1. Updated(t, status) \in Snapshots
    BY <1>0, Made
  <2>2. told' \in [Tasks -> FinishedStatuses \cup {"none"}] /\ due' \in [Tasks -> Int]
    BY <1>0, <1>6, <2>1, HistoryTypes DEF Transition
  <2>3. record' \in [Tasks -> Snapshots \cup {None}]
    BY <1>0, <1>6, <2>1 DEF Transition, TypeOK
  <2>4. step' \in [Tasks -> Steps]
    BY <1>0, <1>6 DEF Transition, TypeOK, Steps
  <2> QED
    BY <1>0, <1>6, <2>2, <2>3, <2>4 DEF Transition, TypeOK
<1>7. ASSUME NEW t \in Tasks, Advance(t) \/ ExecutorFails(t) PROVE TypeOK'
  <2>1. Successors(t) \subseteq Statuses
    BY StoreAssumption DEF Successors, Statuses, FinishedStatuses
  <2>2. "Failed" \in Statuses
    BY DEF Statuses
  <2> QED
    BY <1>6, <1>7, <2>1, <2>2 DEF Advance, ExecutorFails
<1>8. ASSUME NEW t \in Tasks, NEW tear, CreateFails(t, tear) PROVE TypeOK'
  <2>1. log' \in [Tasks -> Seq(Lines)] /\ ended' \in [Tasks -> BOOLEAN]
    BY <1>0, <1>8, LogTypes, Made DEF CreateFails, Lines
  <2>2. step' \in [Tasks -> Steps]
    BY <1>0, <1>8 DEF CreateFails, TypeOK, Steps
  <2> QED
    BY <1>0, <1>8, <2>1, <2>2 DEF CreateFails, TypeOK, Lines
<1>9. ASSUME NEW t \in Tasks, NEW tear, PersistFails(t, tear) PROVE TypeOK'
  <2> DEFINE fallback == IF Finished(record[t]) THEN record[t] ELSE Updated(t, "Failed")
  <2>1. Snapshot(t) \in Snapshots /\ record[t] \in Snapshots
    BY <1>0, <1>9, SnapshotFits DEF PersistFails
  <2>2. "Failed" \in Statuses
    BY DEF Statuses
  <2>3. fallback \in Snapshots
    BY <1>0, <2>1, <2>2, Made
  <2>4. log' \in [Tasks -> Seq(Lines)] /\ ended' \in [Tasks -> BOOLEAN]
    BY <1>0, <1>9, <2>1, LogTypes DEF PersistFails, Lines
  <2>5. Tell(t, fallback) /\ record' = [record EXCEPT ![t] = fallback]
    BY <1>9 DEF PersistFails
  <2> HIDE DEF fallback
  <2>6. told' \in [Tasks -> FinishedStatuses \cup {"none"}] /\ due' \in [Tasks -> Int]
    BY <1>0, <2>3, <2>5, HistoryTypes
  <2>7. record' \in [Tasks -> Snapshots \cup {None}]
    BY <1>0, <2>3, <2>5 DEF TypeOK
  <2>8. step' \in [Tasks -> Steps]
    BY <1>0, <1>9 DEF PersistFails, TypeOK, Steps
  <2> QED
    BY <1>0, <1>9, <2>4, <2>6, <2>7, <2>8 DEF PersistFails, TypeOK, Lines
<1>10. ASSUME NEW t \in Tasks, NEW tear, CrashInAppend(t, tear) PROVE TypeOK'
  <2> DEFINE line == IF step[t] = "files" THEN FirstSnapshot ELSE Snapshot(t)
  <2>1. line \in Lines
    BY <1>0, <1>10, SnapshotFits, Made DEF CrashInAppend, Lines
  <2>2. TearLine(t, line, tear)
    BY <1>10 DEF CrashInAppend
  <2> HIDE DEF line
  <2>3. log' \in [Tasks -> Seq(Lines)] /\ ended' \in [Tasks -> BOOLEAN]
    BY <1>0, <2>1, <2>2, LogTypes
  <2>4. damaged' \subseteq Tasks
    BY <1>0, <1>10 DEF CrashInAppend, TypeOK
  <2> QED
    BY <1>0, <1>10, <2>3, <2>4, LostTypes DEF CrashInAppend
<1>11. ASSUME NEW t \in Tasks, Recover(t) PROVE TypeOK'
  <2> DEFINE s == Recovered(t)
             line == [s EXCEPT !.cut = FALSE]
  <2>1. s \in Snapshots
    BY <1>0, <1>11, RecoveredIs DEF Recover
  <2>2. line \in Snapshots
    BY <2>1, Uncut
  <2>3. /\ \/ AppendLine(t, line) /\ Keep(t, line)
           \/ UNCHANGED <<log, ended, safe>>
        /\ Tell(t, s) /\ record' = [record EXCEPT ![t] = s]
    BY <1>11 DEF Recover
  <2> HIDE DEF s, line
  <2>4. log' \in [Tasks -> Seq(Lines)] /\ ended' \in [Tasks -> BOOLEAN]
    BY <1>0, <2>2, <2>3, LogTypes DEF Lines, TypeOK
  <2>5. safe' \in [Tasks -> Snapshots \cup {None}]
    BY <1>0, <2>2, <2>3, HistoryTypes DEF TypeOK
  <2>6. told' \in [Tasks -> FinishedStatuses \cup {"none"}] /\ due' \in [Tasks -> Int]
    BY <1>0, <2>1, <2>3, HistoryTypes
  <2>7. record' \in [Tasks -> Snapshots \cup {None}]
    BY <1>0, <2>1, <2>3 DEF TypeOK
  <2> QED
    BY <1>0, <1>11, <2>4, <2>5, <2>6, <2>7 DEF Recover, TypeOK, Lines
<1>12. ASSUME NEW t \in Tasks, NEW tear, RecoverTorn(t, tear) PROVE TypeOK'
  <2> DEFINE line == [Recovered(t) EXCEPT !.cut = FALSE]
  <2>1. Recovered(t) \in Snapshots
    BY <1>0, <1>12, RecoveredIs DEF RecoverTorn
  <2>2. line \in Lines
    BY <2>1, Uncut DEF Lines
  <2>3. TearLine(t, line, tear)
    BY <1>12 DEF RecoverTorn
  <2> HIDE DEF line
  <2>4. log' \in [Tasks -> Seq(Lines)] /\ ended' \in [Tasks -> BOOLEAN]
    BY <1>0, <2>2, <2>3, LogTypes
  <2>5. damaged' \subseteq Tasks
    BY <1>0, <1>12 DEF RecoverTorn, TypeOK
  <2>6. CASE Lost
    BY <1>0, <2>4, <2>5, <2>6, LostTypes
  <2>7. CASE /\ process' = "failed"
             /\ UNCHANGED <<exists, openVars, memoryVars, step, clock, crashes, answered, told, due, safe>>
    BY <1>0, <2>4, <2>5, <2>7 DEF TypeOK, Lines
  <2> QED
    BY <1>12, <2>6, <2>7 DEF RecoverTorn
<1>13. ASSUME NEW t \in Tasks, Remove(t) PROVE TypeOK'
  <2>1. log' \in [Tasks -> Seq(Lines)]
    <3>1. log \in [Tasks -> Seq(Lines)] /\ <<>> \in Seq(Lines)
      BY <1>0 DEF TypeOK, Lines
    <3> QED
      BY <1>13, <3>1 DEF Remove
  <2>2. ended' \in [Tasks -> BOOLEAN]
    BY <1>0, <1>13 DEF Remove, TypeOK
  <2>3. process \in {"sweep", "up"}
    BY <1>0, <1>13 DEF Remove, Shape, TypeOK
  <2>4. toScan' \subseteq exists' /\ exists' \subseteq Tasks
    BY <1>0, <1>13, <2>3 DEF Remove, Shape, TypeOK
  <2> QED
    BY <1>0, <1>13, <2>1, <2>2, <2>4 DEF Remove, TypeOK, Lines
<1>14. CASE Crash
  <2>1. /\ log' \in [Tasks -> Seq(Lines)] /\ ended' \in [Tasks -> BOOLEAN]
        /\ damaged' \subseteq Tasks
    BY <1>0, <1>14 DEF Crash, TypeOK, Lines
  <2> QED
    BY <1>0, <1>14, <2>1, LostTypes DEF Crash
<1>15. ASSUME NEW t \in Tasks, SkipDirectory(t) \/ RecoverFails(t) PROVE TypeOK'
  BY <1>0, <1>15 DEF SkipDirectory, RecoverFails, TypeOK
<1>16. CASE Open \/ SweepFirst \/ Serve \/ Collect
  BY <1>0, <1>16 DEF Open, SweepFirst, Serve, Collect, TypeOK
<1>17. CASE Tick
  <2>1. clock' \in 0..MaxTime
    BY <1>0, <1>17, StoreAssumption DEF Tick, TypeOK
  <2> QED
    BY <1>0, <1>17, <2>1 DEF Tick, TypeOK
<1>18. CASE UNCHANGED vars
  BY <1>0, <1>18 DEF vars, TypeOK
<1> QED
  BY <1>1, <1>2, <1>3, <1>4, <1>5, <1>7, <1>8, <1>9, <1>10, <1>11, <1>12, <1>13, <1>14, <1>15, <1>16,
     <1>17, <1>18
     DEF Next, Executing, Opening, Quiescent

\* Every step keeps the shape: open and cleanup_expired hand over to each other,
\* and executors run only while the process is up.
LEMMA ShapeStep ==
    ASSUME TypeOK, Shape, [Next]_vars
    PROVE  Shape'
<1> USE DEF diskVars, openVars, memoryVars, historyVars
<1>1. ASSUME process = "up", process' = process, toScan' = toScan
      PROVE  Shape'
  BY <1>1 DEF Shape
<1>2. ASSUME NEW t \in Tasks, MakeDirectory(t) \/ Truncate(t) \/ Executing(t)
      PROVE  Shape'
  <2>1. process = "up" /\ process' = process /\ toScan' = toScan
    BY <1>2 DEF MakeDirectory, Truncate, Executing, PersistFirst, Insert, Persist, Advance, ExecutorFails,
           Transition, CreateFails, PersistFails
  <2> QED
    BY <1>1, <2>1
<1>3. CASE Collect
  BY <1>1, <1>3 DEF Collect
<1>4. ASSUME Lost PROVE Shape'
  BY <1>4 DEF Lost, Shape
<1>5. ASSUME NEW t \in Tasks, NEW tear, CrashInAppend(t, tear) PROVE Shape'
  BY <1>4, <1>5 DEF CrashInAppend
<1>6. CASE Crash
  BY <1>4, <1>6 DEF Crash
<1>7. ASSUME NEW t \in Tasks, SkipDirectory(t) \/ RecoverFails(t) \/ Recover(t)
      PROVE  Shape'
  BY <1>7 DEF SkipDirectory, RecoverFails, Recover, Scanning, Shape
<1>8. ASSUME NEW t \in Tasks, NEW tear, RecoverTorn(t, tear) PROVE Shape'
  <2>1. CASE Lost
    BY <1>4, <2>1
  <2>2. CASE process' = "failed" /\ UNCHANGED <<openVars, memoryVars, step>>
    BY <1>8, <2>2 DEF RecoverTorn, Scanning, Shape
  <2> QED
    BY <1>8, <2>1, <2>2 DEF RecoverTorn
<1>9. ASSUME NEW t \in Tasks, Remove(t) PROVE Shape'
  BY <1>9 DEF Remove, Shape, TypeOK
<1>10. CASE Open \/ SweepFirst \/ Serve
  BY <1>10 DEF Open, SweepFirst, Serve, Shape
<1>11. CASE Tick \/ UNCHANGED vars
  BY <1>11 DEF Tick, Shape, vars
<1> QED
  BY <1>2, <1>3, <1>5, <1>6, <1>7, <1>8, <1>9, <1>10, <1>11 DEF Next, Opening, Quiescent

-----------------------------------------------------------------------------
(* The theorems.                                                              *)

\* Before the first start there is nothing.
LEMMA InvInit == Init => IInv
<1> SUFFICES ASSUME Init PROVE IInv
  OBVIOUS
<1> USE DEF Init
<1>1. TypeOK
  <2>1. clock \in 0..MaxTime /\ crashes \in 0..MaxCrashes /\ due \in [Tasks -> Int]
    BY StoreAssumption DEF Never
  <2>2. log \in [Tasks -> Seq(Snapshots \cup {Garbled, NotText})]
    OBVIOUS
  <2>3. ended \in [Tasks -> BOOLEAN] /\ flag \in [Tasks -> BOOLEAN]
    OBVIOUS
  <2> QED
    BY <2>1, <2>2, <2>3 DEF TypeOK, Steps
<1>2. Shape
  BY DEF Shape
<1>3. ASSUME NEW t \in Tasks PROVE TaskInv(t)
  <2>1. /\ log[t] = <<>> /\ ended[t] /\ step[t] = "none" /\ record[t] = None
        /\ told[t] = "none" /\ due[t] = Never /\ safe[t] = None
    OBVIOUS
  <2>2. LogInv(t) /\ LineInv(t)
    BY <2>1 DEF LogInv, LineInv, FinalStays
  <2>3. RecordInv(t)
    BY <2>1, LineFacts DEF RecordInv
  <2>4. PhantomInv(t) /\ SafeInv(t) /\ KeptInv(t)
    BY <2>1 DEF PhantomInv, SafeInv, KeptInv
  <2> QED
    BY <2>2, <2>3, <2>4 DEF TaskInv
<1> QED
  BY <1>1, <1>2, <1>3 DEF IInv

\* Every step keeps the invariant of every task.
LEMMA TaskStep ==
    ASSUME IInv, [Next]_vars
    PROVE  \A u \in Tasks : TaskInv(u)'
<1>0. TypeOK /\ Shape /\ \A u \in Tasks : TaskInv(u)
  BY DEF IInv
<1>1. ASSUME NEW t \in Tasks, MakeDirectory(t) \/ Truncate(t)
      PROVE  \A u \in Tasks : TaskInv(u)'
  BY <1>0, <1>1, MakeDirectoryInv, TruncateInv
<1>2. ASSUME NEW t \in Tasks, Executing(t)
      PROVE  \A u \in Tasks : TaskInv(u)'
  <2>1. CASE PersistFirst(t) \/ Insert(t)
    BY <1>0, <2>1, PersistFirstInv, InsertInv
  <2>2. CASE Persist(t) \/ Advance(t) \/ ExecutorFails(t)
    BY <1>0, <2>2, PersistInv, ExecutorInv
  <2>3. CASE \E tear \in Tears : CreateFails(t, tear) \/ PersistFails(t, tear)
    BY <1>0, <2>3, CreateFailsInv, PersistFailsInv
  <2> QED
    BY <1>2, <2>1, <2>2, <2>3 DEF Executing
<1>3. ASSUME NEW t \in Tasks, NEW tear, CrashInAppend(t, tear)
      PROVE  \A u \in Tasks : TaskInv(u)'
  BY <1>0, <1>3, CrashInAppendInv
<1>4. ASSUME NEW t \in Tasks,
             Open \/ SkipDirectory(t) \/ RecoverFails(t) \/ SweepFirst \/ Serve \/ Collect \/ Tick
      PROVE  \A u \in Tasks : TaskInv(u)'
  BY <1>0, <1>4, OpenStepsInv
<1>5. ASSUME NEW t \in Tasks, Recover(t) \/ Remove(t)
      PROVE  \A u \in Tasks : TaskInv(u)'
  BY <1>0, <1>5, RecoverInv, RemoveInv
<1>6. ASSUME NEW t \in Tasks, NEW tear, RecoverTorn(t, tear)
      PROVE  \A u \in Tasks : TaskInv(u)'
  BY <1>0, <1>6, RecoverTornInv
<1>7. ASSUME Crash PROVE \A u \in Tasks : TaskInv(u)'
  BY <1>0, <1>7, CrashInv DEF Crash
<1>8. ASSUME UNCHANGED vars PROVE \A u \in Tasks : TaskInv(u)'
  <2>1. \A u \in Tasks : Still(u) /\ Unvisited(u)
    BY <1>0, <1>8, StoreAssumption DEF vars, Still, Unvisited, TypeOK
  <2> QED
    BY <1>0, <2>1, UnvisitedInv
<1> QED
  BY <1>1, <1>2, <1>3, <1>4, <1>5, <1>6, <1>7, <1>8 DEF Next, Opening, Quiescent

\* Disk, memory and what clients have read stay in step through crashes, torn
\* lines, failed appends, recovery and expiry.
THEOREM InductiveInvariant == Spec => []IInv
<1>1. IInv /\ [Next]_vars => IInv'
  BY TypeStep, ShapeStep, TaskStep DEF IInv
<1> QED
  BY <1>1, InvInit, PTL DEF Spec

\* The variables have their types: the log holds snapshots and damaged lines
\* only, and recover visits directories that exist.
THEOREM TypeCorrect == Spec => []TypeOK
<1>1. IInv => TypeOK
  BY DEF IInv
<1> QED
  BY <1>1, InductiveInvariant, PTL

\* An answered task can be queried until its retention time is over (create,
\* recover, cleanup_expired).
THEOREM RetainedUntilDueHolds == Spec => []RetainedUntilDue
<1>1. IInv => RetainedUntilDue
  BY DEF IInv, TypeOK, TaskInv, KeptInv, Due, RetainedUntilDue
<1> QED
  BY <1>1, InductiveInvariant, PTL

\* A final snapshot appended to an undamaged log is what every later process
\* reports (persist, read_latest_snapshot, recover).
THEOREM FinalSurvivesHolds == Spec => []FinalSurvives
<1>1. IInv => FinalSurvives
  BY DEF IInv, TaskInv, SafeInv, Same, FinalSurvives
<1> QED
  BY <1>1, InductiveInvariant, PTL

\* A task whose creation was never answered is only ever reported as
\* interrupted (create, recover).
THEOREM PhantomsAreInterruptedHolds == Spec => []PhantomsAreInterrupted
<1>1. IInv => PhantomsAreInterrupted
  BY DEF IInv, TaskInv, PhantomInv, PhantomsAreInterrupted
<1> QED
  BY <1>1, InductiveInvariant, PTL

\* A step that tells clients something else than before tells them interrupted.
LEMMA ToldStep ==
    ASSUME IInv, [Next]_vars, NEW t \in Tasks, told[t] # "none", told'[t] # told[t]
    PROVE  told'[t] = "Interrupted"
<1>0. TypeOK /\ Shape /\ \A u \in Tasks : TaskInv(u)
  BY DEF IInv
<1>1. ASSUME told' = told PROVE FALSE
  BY <1>1
<1>2. ASSUME NEW u \in Tasks, NEW s, NEW next, Transition(u, s, next) PROVE FALSE
  <2>1. told[u] = "none"
    BY <1>0, <1>2 DEF Transition, TaskInv, RecordInv
  <2> QED
    BY <1>0, <1>2, <2>1 DEF Transition, Tell, TypeOK
<1>3. ASSUME NEW u \in Tasks, NEW tear, PersistFails(u, tear) PROVE FALSE
  <2>1. told[u] = IF Finished(record[u]) THEN record[u].status ELSE "none"
    BY <1>0, <1>3 DEF PersistFails, TaskInv, RecordInv
  <2>2. CASE u = t
    <3>1. Finished(record[t]) /\ told[t] = record[t].status /\ Tell(t, record[t])
      BY <1>3, <2>1, <2>2 DEF PersistFails
    <3> QED
      BY <1>0, <3>1 DEF Tell, TypeOK
  <2>3. CASE u # t
    BY <1>0, <1>3, <2>3 DEF PersistFails, Tell, TypeOK
  <2> QED
    BY <2>2, <2>3
<1>4. ASSUME NEW u \in Tasks, Recover(u) PROVE told'[t] = "Interrupted"
  <2>1. CASE u = t
    <3>1. /\ Tell(t, Recovered(t)) /\ Finished(Recovered(t))
          /\ Recovered(t).status # "Interrupted" => told[t] = Recovered(t).status
      BY <1>0, <1>4, <2>1, RecoveredIs DEF Recover
    <3> QED
      BY <1>0, <3>1 DEF Tell, TypeOK
  <2>2. CASE u # t
    BY <1>0, <1>4, <2>2 DEF Recover, Tell, TypeOK
  <2> QED
    BY <2>1, <2>2
<1>5. ASSUME NEW u \in Tasks, Executing(u) PROVE FALSE
  <2>1. CASE PersistFirst(u) \/ Insert(u) \/ Persist(u) \/ \E tear \in Tears : CreateFails(u, tear)
    BY <1>1, <2>1 DEF PersistFirst, Insert, Persist, CreateFails, historyVars
  <2>2. CASE Advance(u) \/ ExecutorFails(u)
    BY <1>2, <2>2 DEF Advance, ExecutorFails
  <2> QED
    BY <1>3, <1>5, <2>1, <2>2 DEF Executing
<1>6. ASSUME NEW u \in Tasks, MakeDirectory(u) \/ Truncate(u) \/ SkipDirectory(u) \/ RecoverFails(u) \/ Remove(u)
      PROVE  FALSE
  BY <1>1, <1>6 DEF MakeDirectory, Truncate, SkipDirectory, RecoverFails, Remove, historyVars
<1>7. ASSUME NEW u \in Tasks, NEW tear, CrashInAppend(u, tear) \/ RecoverTorn(u, tear) PROVE FALSE
  BY <1>1, <1>7 DEF CrashInAppend, RecoverTorn, Lost
<1>8. ASSUME Open \/ SweepFirst \/ Serve \/ Collect \/ Crash \/ Tick \/ UNCHANGED vars PROVE FALSE
  BY <1>1, <1>8 DEF Open, SweepFirst, Serve, Collect, Crash, Lost, Tick, vars, historyVars
<1> QED
  BY <1>4, <1>5, <1>6, <1>7, <1>8 DEF Next, Opening, Quiescent

\* A final status that clients have read is replaced by interrupted only
\* (transition, persist, recover).
THEOREM FinalOnlyLostHolds == Spec => FinalOnlyLost
<1> DEFINE Kept == \A t \in Tasks : told[t] # "none" /\ told'[t] # told[t] => told'[t] = "Interrupted"
<1>1. IInv /\ [Next]_vars => [Kept]_vars
  BY ToldStep
<1>2. Spec => [][Next]_vars
  BY PTL DEF Spec
<1>3. Spec => [][Kept]_vars
  BY <1>1, <1>2, InductiveInvariant, PTL
<1> QED
  BY <1>3 DEF FinalOnlyLost

-----------------------------------------------------------------------------
(* What keeps output_truncated, and what loses it.                            *)

\* Until the first crash, a final snapshot on disk says no more than the atomic.
FlagInv == crashes = 0 => \A t \in Tasks : safe[t].cut => flag[t]

\* What Keep writes down has the cut of the line that was appended.
LEMMA KeptCut ==
    ASSUME TypeOK, NEW t \in Tasks, NEW s \in Snapshots, Keep(t, s)
    PROVE  \A u \in Tasks : safe'[u].cut => safe[u].cut \/ (u = t /\ s.cut)
BY DEF Keep, TypeOK

\* A snapshot that leaves the record carries the atomic.
LEMMA SnapshotCut ==
    ASSUME TypeOK, NEW t \in Tasks
    PROVE  Snapshot(t).cut = flag[t]
<1>1. record[t] \in Snapshots \cup {None}
  BY DEF TypeOK
<1> QED
  BY <1>1 DEF Snapshot, Snapshots, None

LEMMA FlagStep ==
    ASSUME IInv, FlagInv, [Next]_vars
    PROVE  FlagInv'
<1> SUFFICES ASSUME crashes' = 0
             PROVE  \A t \in Tasks : safe'[t].cut => flag'[t]
  BY DEF FlagInv
<1>0. TypeOK /\ \A t \in Tasks : TaskInv(t)
  BY DEF IInv
<1>t. crashes \in Nat
  BY <1>0, StoreAssumption DEF TypeOK
<1>n. ~Lost
  BY <1>t DEF Lost
<1>s. ASSUME crashes' = crashes, safe' = safe, \A t \in Tasks : flag[t] => flag'[t]
      PROVE  \A t \in Tasks : safe'[t].cut => flag'[t]
  BY <1>s DEF FlagInv
<1>1. CASE UNCHANGED vars
  BY <1>1, <1>s DEF vars
<1>2. ASSUME NEW t \in Tasks, Truncate(t)
      PROVE  \A u \in Tasks : safe'[u].cut => flag'[u]
  <2>1. flag \in [Tasks -> BOOLEAN]
    BY <1>0 DEF TypeOK
  <2>2. \A u \in Tasks : flag[u] => flag'[u]
    BY <1>2, <2>1 DEF Truncate
  <2> QED
    BY <1>2, <1>s, <2>2 DEF Truncate, historyVars
<1>3. ASSUME NEW t \in Tasks, MakeDirectory(t) \/ PersistFirst(t) \/ Insert(t)
      PROVE  \A u \in Tasks : safe'[u].cut => flag'[u]
  BY <1>3, <1>s DEF MakeDirectory, PersistFirst, Insert, historyVars, memoryVars
<1>4. ASSUME NEW t \in Tasks, Advance(t) \/ ExecutorFails(t)
      PROVE  \A u \in Tasks : safe'[u].cut => flag'[u]
  BY <1>4, <1>s DEF Advance, ExecutorFails, Transition
<1>5. ASSUME NEW t \in Tasks, NEW tear \in Tears, CreateFails(t, tear) \/ PersistFails(t, tear)
      PROVE  \A u \in Tasks : safe'[u].cut => flag'[u]
  BY <1>5, <1>s DEF CreateFails, PersistFails, memoryVars
<1>6. ASSUME NEW t \in Tasks, Persist(t)
      PROVE  \A u \in Tasks : safe'[u].cut => flag'[u]
  <2>1. Keep(t, Snapshot(t)) /\ flag' = flag /\ crashes' = crashes
    BY <1>6 DEF Persist, memoryVars
  <2>2. Snapshot(t) \in Snapshots
    BY <1>0, <1>6, SnapshotFits, Made DEF Persist
  <2>3. \A u \in Tasks : safe'[u].cut => safe[u].cut \/ (u = t /\ Snapshot(t).cut)
    BY <1>0, <2>1, <2>2, KeptCut
  <2> QED
    BY <1>0, <2>1, <2>3, SnapshotCut DEF FlagInv
<1>7. ASSUME NEW t \in Tasks, Recover(t)
      PROVE  \A u \in Tasks : safe'[u].cut => flag'[u]
  <2> DEFINE line == [Recovered(t) EXCEPT !.cut = FALSE]
  <2>1. flag' = flag /\ crashes' = crashes
    BY <1>7 DEF Recover
  <2>2. CASE Recovered(t).status = "Interrupted"
    <3>1. Keep(t, line) /\ Latest(log[t]) # None
      BY <1>7, <2>2 DEF Recover
    <3>2. Recovered(t) \in Snapshots
      BY <1>0, <3>1, RecoveredIs
    <3>3. line \in Snapshots /\ ~line.cut
      BY <3>2, Uncut DEF Snapshots
    <3>4. \A u \in Tasks : safe'[u].cut => safe[u].cut
      BY <1>0, <3>1, <3>3, KeptCut
    <3> QED
      BY <2>1, <3>4 DEF FlagInv
  <2>3. CASE Recovered(t).status # "Interrupted"
    BY <1>7, <1>s, <2>1, <2>3 DEF Recover
  <2> QED
    BY <2>2, <2>3
<1>8. ASSUME NEW t \in Tasks, SkipDirectory(t) \/ RecoverFails(t) \/ Remove(t)
      PROVE  \A u \in Tasks : safe'[u].cut => flag'[u]
  BY <1>8, <1>s DEF SkipDirectory, RecoverFails, Remove, historyVars, memoryVars
<1>9. ASSUME NEW t \in Tasks, NEW tear \in Tears, RecoverTorn(t, tear)
      PROVE  \A u \in Tasks : safe'[u].cut => flag'[u]
  BY <1>9, <1>n, <1>s DEF RecoverTorn, memoryVars
<1>10. CASE Open \/ SweepFirst \/ Serve \/ Collect \/ Tick
  BY <1>10, <1>s DEF Open, SweepFirst, Serve, Collect, Tick, historyVars, memoryVars
<1>11. ASSUME NEW t \in Tasks, NEW tear \in Tears, CrashInAppend(t, tear)
       PROVE  FALSE
  BY <1>11, <1>n DEF CrashInAppend
<1>12. ~Crash
  BY <1>n DEF Crash
<1> QED
  BY <1>1, <1>2, <1>3, <1>4, <1>5, <1>6, <1>7, <1>8, <1>9, <1>10, <1>11, <1>12
     DEF Next, Executing, Opening, Quiescent

\* Only a restart loses output_truncated: while no crash has happened, a finished
\* task whose output was cut is reported as cut (TaskRecord::snapshot and the
\* atomic that TaskRecord::new starts with).
THEOREM TruncationKeptByProcess == Spec => [](crashes = 0 => TruncationRemembered)
<1>1. Init => FlagInv
  BY DEF Init, FlagInv, None
<1>2. IInv /\ FlagInv /\ [Next]_vars => FlagInv'
  BY FlagStep
<1>3. IInv /\ FlagInv => (crashes = 0 => TruncationRemembered)
  <2> SUFFICES ASSUME IInv, FlagInv, crashes = 0, NEW t \in Tasks, safe[t].cut
               PROVE  Snapshot(t).cut
    BY DEF TruncationRemembered
  <2> QED
    BY SnapshotCut DEF FlagInv, IInv
<1> QED
  BY <1>1, <1>2, <1>3, InductiveInvariant, PTL DEF Spec
=============================================================================
