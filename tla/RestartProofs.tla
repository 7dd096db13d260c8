--------------------------- MODULE RestartProofs ----------------------------
(***************************************************************************)
(* What starts again: the server task of a process, whose config file may  *)
(* change (Supervisor), and the connection of a client (Backoff).          *)
(*                                                                         *)
(* The supervisor launches validated configurations only, one task at a    *)
(* time, and survives a configuration that cannot be bound, for any        *)
(* contents of the file and any number of edits.  The waits between two    *)
(* attempts of a client are the ones documented, for every interval, every *)
(* jitter and every duration of an attempt.                                *)
(***************************************************************************)
EXTENDS Supervisor, Backoff, Functions, FiniteSets, TLAPS

TaskStates == {"starting", "up", "stopping", "ended"}

Tasks == [cfg : Valid, st : TaskStates]

\* The states of main, and when a task has been launched.
Shape ==
  /\ tasks \in Seq(Tasks)
  /\ pc \in {"boot", "snapshot", "loop", "reread", "drain", "quit", "exited"}
  /\ pc \in {"boot", "snapshot"} => tasks = <<>>
  /\ pc \in {"loop", "reread", "drain", "quit"} => tasks # <<>>
  /\ pc = "snapshot" => \E c \in Valid : current = {c}
  /\ pc = "drain" => \E c \in Valid : next = {c}
  /\ current \subseteq Valid /\ rollback \subseteq Valid
  /\ faults \in Nat

\* All tasks but the last have ended.
OthersEnded == \A i \in 1 .. Len(tasks) - 1 : tasks[i].st = "ended"

\* No edit between two reads or on a task that is starting, no endpoint lost.
Calm == during \subseteq {"boot", "steady"} /\ faults = 0

SomeGood == \E i \in 1 .. Len(tasks) : tasks[i].cfg \in Good

\* What `seen`, `current` and `rollback` then say of the running task.
Settled ==
  Calm =>
    /\ rollback \subseteq Good
    /\ pc \in {"loop", "reread", "drain"} => current = {running.cfg}
    /\ pc = "loop" /\ file \notin seen => running.st = "up"
    /\ pc = "loop" => running.st # "stopping"
    /\ pc = "loop" /\ running.st = "ended" => running.cfg \in Conflicting
    /\ pc = "loop" /\ running.cfg \in Conflicting /\ SomeGood => rollback # {}
    /\ pc = "reread" => running.st = "up"
    /\ pc \in {"reread", "drain"} => file \in seen
    /\ pc = "drain" => running.cfg \notin Conflicting

\* A task that is up could be bound, and none is left when main has returned.
Bound ==
  /\ tasks # <<>> /\ running.st = "up" => running.cfg \notin Conflicting
  /\ pc = "exited" /\ tasks # <<>> => running.st = "ended"

IInv == Shape /\ OthersEnded /\ Bound /\ Settled

-----------------------------------------------------------------------------
(* The two ways the sequence of tasks changes *)

\* launch adds a task and leaves the others alone.
LEMMA Launched ==
  ASSUME tasks \in Seq(Tasks), NEW c \in Valid, launch(c)
  PROVE  /\ tasks' \in Seq(Tasks) /\ tasks' # <<>>
         /\ Len(tasks') = Len(tasks) + 1
         /\ running' = [cfg |-> c, st |-> "starting"]
         /\ \A i \in 1 .. Len(tasks) : tasks'[i] = tasks[i]
<1> DEFINE t == [cfg |-> c, st |-> "starting"]
<1>1. t \in Tasks
  BY DEF Tasks, TaskStates
<1>2. tasks' = Append(tasks, t)
  BY DEF launch
<1> HIDE DEF t
<1>3. tasks' \in Seq(Tasks) /\ Len(tasks') = Len(tasks) + 1 /\ Len(tasks) \in Nat
  BY <1>1, <1>2
<1>4. tasks'[Len(tasks')] = t
  BY <1>1, <1>2, <1>3
<1>5. \A i \in 1 .. Len(tasks) : tasks'[i] = tasks[i]
  BY <1>1, <1>2, <1>3
<1>6. tasks' # <<>>
  BY <1>3
<1> QED
  BY <1>3, <1>4, <1>5, <1>6 DEF running, t

\* the running task gets another state
Moves(s) == tasks' = [tasks EXCEPT ![Len(tasks)].st = s]

\* A step of the running task changes nothing but its state.
LEMMA Moved ==
  ASSUME tasks \in Seq(Tasks), tasks # <<>>, NEW s \in TaskStates,
         Moves(s)
  PROVE  /\ tasks' \in Seq(Tasks) /\ tasks' # <<>>
         /\ Len(tasks') = Len(tasks)
         /\ running' = [cfg |-> running.cfg, st |-> s]
         /\ \A i \in 1 .. Len(tasks) - 1 : tasks'[i] = tasks[i]
         /\ \A i \in 1 .. Len(tasks) : tasks'[i].cfg = tasks[i].cfg
<1> DEFINE n == Len(tasks)
<1>1. n \in Nat /\ n # 0 /\ n \in 1 .. n
  OBVIOUS
<1>2. tasks[n] \in Tasks
  BY <1>1
<1>3. [tasks[n] EXCEPT !.st = s] = [cfg |-> tasks[n].cfg, st |-> s]
  BY <1>2 DEF Tasks
<1>4. [tasks[n] EXCEPT !.st = s] \in Tasks
  BY <1>2, <1>3 DEF Tasks
<1>5. tasks' = [tasks EXCEPT ![n] = [tasks[n] EXCEPT !.st = s]]
  BY DEF Moves
<1>6. tasks' \in Seq(Tasks) /\ Len(tasks') = n
  BY <1>1, <1>4, <1>5
<1>7. tasks'[n] = [cfg |-> tasks[n].cfg, st |-> s]
  BY <1>1, <1>3, <1>5
<1>8. \A i \in 1 .. n - 1 : tasks'[i] = tasks[i]
  BY <1>1, <1>5
<1>9. \A i \in 1 .. n : tasks'[i].cfg = tasks[i].cfg
  BY <1>1, <1>5, <1>7, <1>8
<1>10. tasks' # <<>>
  BY <1>1, <1>6
<1> QED
  BY <1>6, <1>7, <1>8, <1>9, <1>10 DEF running

-----------------------------------------------------------------------------
(* The invariant holds at the start and is kept by every step *)

LEMMA Initially == Init => IInv
<1> SUFFICES ASSUME Init PROVE IInv
  OBVIOUS
<1>1. Shape
  BY DEF Init, Shape, Tasks
<1>2. Len(tasks) = 0
  BY DEF Init
<1>3. OthersEnded
  BY <1>2 DEF OthersEnded
<1>4. Bound /\ Settled
  BY DEF Init, Bound, Settled
<1> QED
  BY <1>1, <1>3, <1>4 DEF IInv

\* main before the loop
LEMMA ReadKeeps == ASSUME IInv, Read PROVE IInv'
<1>1. tasks = <<>> /\ tasks' = <<>> /\ pc' \in {"snapshot", "exited"}
  BY DEF IInv, Shape, Read
<1>2. Shape'
  BY <1>1 DEF IInv, Shape, Read
<1>3. Len(tasks') = 0
  BY <1>1
<1>4. OthersEnded'
  BY <1>3 DEF OthersEnded
<1>5. Bound' /\ Settled'
  BY <1>1 DEF IInv, Settled, Bound, Calm, Read
<1> QED
  BY <1>2, <1>4, <1>5 DEF IInv

LEMMA SnapshotKeeps == ASSUME IInv, Snapshot PROVE IInv'
<1>1. tasks = <<>> /\ tasks \in Seq(Tasks) /\ Len(tasks) = 0
  BY DEF IInv, Shape, Snapshot
<1>2. CASE file # Absent
  <2>1. PICK c \in Valid : current = {c}
    BY DEF IInv, Shape, Snapshot
  <2>2. /\ launch(c) /\ seen' = {file} /\ pc' = "loop"
        /\ UNCHANGED <<file, during, faults, current, rollback, next>>
    BY <1>2, <2>1 DEF Snapshot
  <2>3. /\ tasks' \in Seq(Tasks) /\ tasks' # <<>> /\ Len(tasks') = 1
        /\ running' = [cfg |-> c, st |-> "starting"]
    BY <1>1, <2>2, Launched
  <2>4. Shape' /\ OthersEnded' /\ Bound'
    BY <2>1, <2>2, <2>3 DEF IInv, Shape, OthersEnded, Bound
  <2>5. ASSUME c \in Conflicting PROVE ~SomeGood'
    BY <2>3, <2>5, ContentAssumption DEF SomeGood, running
  <2>6. Settled'
    BY <2>1, <2>2, <2>3, <2>5 DEF IInv, Settled, Calm
  <2> QED
    BY <2>4, <2>6 DEF IInv
<1>3. CASE file = Absent
  <2>1. pc' = "exited" /\ UNCHANGED <<file, during, faults, current, rollback, next, seen, tasks>>
    BY <1>3 DEF Snapshot
  <2> QED
    BY <1>1, <2>1 DEF IInv, Shape, OthersEnded, Bound, Settled, Calm
<1> QED
  BY <1>2, <1>3

\* a task is launched in the place of one that has ended
LEMMA ReplacedKeeps ==
  ASSUME Shape, OthersEnded, tasks # <<>>, running.st = "ended", NEW c \in Valid, launch(c)
  PROVE  /\ tasks' \in Seq(Tasks) /\ tasks' # <<>>
         /\ running' = [cfg |-> c, st |-> "starting"]
         /\ OthersEnded'
         /\ \A i \in 1 .. Len(tasks) : tasks'[i] = tasks[i]
         /\ Len(tasks') = Len(tasks) + 1
<1>1. tasks \in Seq(Tasks) /\ Len(tasks) \in Nat
  BY DEF Shape
<1>2. /\ tasks' \in Seq(Tasks) /\ tasks' # <<>> /\ Len(tasks') = Len(tasks) + 1
      /\ running' = [cfg |-> c, st |-> "starting"]
      /\ \A i \in 1 .. Len(tasks) : tasks'[i] = tasks[i]
  BY <1>1, Launched
<1>3. \A i \in 1 .. Len(tasks) : tasks[i].st = "ended"
  BY <1>1 DEF OthersEnded, running
<1>4. OthersEnded'
  BY <1>1, <1>2, <1>3 DEF OthersEnded
<1> QED
  BY <1>2, <1>4

LEMMA RestoreKeeps == ASSUME IInv, Restore PROVE IInv'
<1>1. PICK c \in rollback : current' = {c} /\ launch(c)
  BY DEF Restore, Previous
<1>2. /\ pc = "loop" /\ pc' = "loop" /\ running.st = "ended" /\ rollback' = {}
      /\ UNCHANGED <<file, during, faults, seen, next>>
  BY DEF Restore
<1>3. tasks # <<>> /\ c \in Valid
  BY <1>1, <1>2 DEF IInv, Shape
<1>4. /\ tasks' \in Seq(Tasks) /\ tasks' # <<>> /\ OthersEnded'
      /\ running' = [cfg |-> c, st |-> "starting"]
  BY <1>1, <1>2, <1>3, ReplacedKeeps DEF IInv
<1>5. Shape' /\ Bound'
  BY <1>1, <1>2, <1>3, <1>4 DEF IInv, Shape, Bound
<1>6. Settled'
  <2> SUFFICES ASSUME Calm PROVE Settled'
    BY <1>2 DEF Settled, Calm
  <2>1. c \in Good /\ c \notin Conflicting
    BY <1>1, ContentAssumption DEF IInv, Settled
  <2>2. file \in seen
    BY <1>2 DEF IInv, Settled
  <2> QED
    BY <1>1, <1>2, <1>4, <2>1, <2>2 DEF Settled
<1> QED
  BY <1>4, <1>5, <1>6 DEF IInv

LEMMA RelaunchKeeps == ASSUME IInv, Relaunch PROVE IInv'
<1>1. PICK c \in Valid : next = {c}
  BY DEF IInv, Shape, Relaunch
<1>2. /\ pc = "drain" /\ pc' = "loop" /\ running.st = "ended" /\ launch(c)
      /\ rollback' = current /\ current' = {c}
      /\ UNCHANGED <<file, during, faults, seen>>
  BY <1>1 DEF Relaunch, Drained
<1>3. tasks # <<>> /\ tasks \in Seq(Tasks)
  BY <1>2 DEF IInv, Shape
<1>4. /\ tasks' \in Seq(Tasks) /\ tasks' # <<>> /\ OthersEnded'
      /\ running' = [cfg |-> c, st |-> "starting"]
  BY <1>1, <1>2, <1>3, ReplacedKeeps DEF IInv
<1>5. Shape' /\ Bound'
  BY <1>1, <1>2, <1>4 DEF IInv, Shape, Bound
<1>6. Settled'
  <2> SUFFICES ASSUME Calm PROVE Settled'
    BY <1>2 DEF Settled, Calm
  <2>1. running \in Tasks
    BY <1>3 DEF running
  <2>2. current = {running.cfg} /\ running.cfg \in Good
    BY <1>2, <2>1 DEF IInv, Settled, Tasks, Valid
  <2>3. file \in seen
    BY <1>2 DEF IInv, Settled
  <2> QED
    BY <1>2, <1>4, <2>2, <2>3 DEF Settled
<1> QED
  BY <1>4, <1>5, <1>6 DEF IInv

\* a step of main that leaves the tasks alone
LEMMA ReturnKeeps == ASSUME IInv, Return PROVE IInv'
  BY DEF IInv, Shape, OthersEnded, Bound, Settled, Calm, running, Return

LEMMA QuitKeeps == ASSUME IInv, Quit PROVE IInv'
  BY DEF IInv, Shape, OthersEnded, Bound, Settled, Calm, running, Quit

LEMMA PollKeeps == ASSUME IInv, Poll PROVE IInv'
<1>1. /\ pc = "loop" /\ pc' = "reread" /\ file \notin seen /\ seen' = {file}
      /\ UNCHANGED <<file, during, faults, current, rollback, next, tasks>>
  BY DEF Poll, Changed
<1>2. running' = running
  BY <1>1 DEF running
<1>3. Shape' /\ OthersEnded' /\ Bound'
  BY <1>1, <1>2 DEF IInv, Shape, OthersEnded, Bound
<1>4. Settled'
  BY <1>1, <1>2 DEF IInv, Settled, Calm
<1> QED
  BY <1>3, <1>4 DEF IInv

\* the running task moves on, and main keeps or changes its place
LEMMA MovedKeeps ==
  ASSUME Shape, OthersEnded, tasks # <<>>, NEW s \in TaskStates,
         Moves(s)
  PROVE  /\ tasks' \in Seq(Tasks) /\ tasks' # <<>> /\ OthersEnded'
         /\ running' = [cfg |-> running.cfg, st |-> s]
         /\ (SomeGood' <=> SomeGood)
<1>1. tasks \in Seq(Tasks)
  BY DEF Shape
<1>2. /\ tasks' \in Seq(Tasks) /\ tasks' # <<>> /\ Len(tasks') = Len(tasks)
      /\ running' = [cfg |-> running.cfg, st |-> s]
      /\ \A i \in 1 .. Len(tasks) - 1 : tasks'[i] = tasks[i]
      /\ \A i \in 1 .. Len(tasks) : tasks'[i].cfg = tasks[i].cfg
  BY <1>1, Moved
<1>3. OthersEnded'
  BY <1>2 DEF OthersEnded
<1>4. (SomeGood' <=> SomeGood)
  BY <1>2 DEF SomeGood
<1> QED
  BY <1>2, <1>3, <1>4

\* stop.send(true)
LEMMA StoppedKeeps ==
  ASSUME Shape, OthersEnded, tasks # <<>>, tasks' = stopped
  PROVE  /\ tasks' \in Seq(Tasks) /\ tasks' # <<>> /\ OthersEnded'
         /\ running'.cfg = running.cfg /\ running'.st # "up"
<1> DEFINE s == IF running.st = "ended" THEN running.st ELSE "stopping"
<1>1. s \in TaskStates /\ s # "up"
  BY DEF TaskStates
<1>2. Moves(s)
  BY DEF stopped, running, Moves
<1> HIDE DEF s
<1>3. /\ tasks' \in Seq(Tasks) /\ tasks' # <<>> /\ OthersEnded'
      /\ running' = [cfg |-> running.cfg, st |-> s]
  BY <1>1, <1>2, MovedKeeps
<1> QED
  BY <1>1, <1>3

LEMMA ReloadKeeps == ASSUME IInv, Reload PROVE IInv'
<1>1. /\ pc = "reread" /\ tasks # <<>>
      /\ UNCHANGED <<file, during, faults, current, seen, rollback>>
  BY DEF IInv, Shape, Reload
<1>2. CASE Accepted(file)
  <2>1. next' = {file} /\ file \in Valid /\ tasks' = stopped /\ pc' = "drain"
    BY <1>2 DEF Reload, Accepted
  <2>2. /\ tasks' \in Seq(Tasks) /\ tasks' # <<>> /\ OthersEnded'
        /\ running'.cfg = running.cfg /\ running'.st # "up"
    BY <1>1, <2>1, StoppedKeeps DEF IInv
  <2>3. Shape' /\ Bound'
    BY <1>1, <2>1, <2>2 DEF IInv, Shape, Bound
  <2>4. Settled'
    BY <1>1, <2>1, <2>2 DEF IInv, Settled, Calm, Bound
  <2> QED
    BY <2>2, <2>3, <2>4 DEF IInv
<1>3. CASE ~Accepted(file)
  <2>1. pc' = "loop" /\ UNCHANGED <<next, tasks>>
    BY <1>3 DEF Reload
  <2>2. running' = running /\ (SomeGood' <=> SomeGood)
    BY <2>1 DEF running, SomeGood
  <2>3. Shape' /\ OthersEnded' /\ Bound'
    BY <1>1, <2>1, <2>2 DEF IInv, Shape, OthersEnded, Bound
  <2>4. Settled'
    BY <1>1, <2>1, <2>2 DEF IInv, Settled, Calm, Bound
  <2> QED
    BY <2>3, <2>4 DEF IInv
<1> QED
  BY <1>2, <1>3

LEMMA CtrlCKeeps == ASSUME IInv, CtrlC PROVE IInv'
<1>1. /\ pc = "loop" /\ pc' = "quit" /\ tasks # <<>> /\ tasks' = stopped
      /\ UNCHANGED <<file, during, faults, current, seen, rollback, next>>
  BY DEF IInv, Shape, CtrlC
<1>2. /\ tasks' \in Seq(Tasks) /\ tasks' # <<>> /\ OthersEnded'
      /\ running'.st # "up"
  BY <1>1, StoppedKeeps DEF IInv
<1> QED
  BY <1>1, <1>2 DEF IInv, Shape, Bound, Settled, Calm

-----------------------------------------------------------------------------
(* the task, the file *)

LEMMA TaskKeeps ==
  ASSUME IInv, Bind \/ BindFails \/ Drain \/ EndpointLost
  PROVE  IInv'
<1>1. PICK s \in TaskStates :
        /\ Moves(s)
        /\ s = "up" => running.st = "starting" /\ running.cfg \notin Conflicting
        /\ s # "up" => s = "ended"
        /\ s = "ended" => \/ running.st = "starting" /\ running.cfg \in Conflicting
                          \/ running.st = "stopping"
                          \/ running.st \in {"starting", "up"} /\ faults' = faults + 1
  BY DEF Bind, BindFails, Drain, EndpointLost, Fault, TaskStep, TaskStates, Moves
<1>2. /\ tasks # <<>> /\ running.st # "ended"
      /\ UNCHANGED <<file, during, pc, current, seen, rollback, next>>
  BY DEF Bind, BindFails, Drain, EndpointLost, TaskStep
<1>3. faults' = faults \/ faults' = faults + 1
  BY DEF Bind, BindFails, Drain, EndpointLost, Fault
<1>4. /\ tasks' \in Seq(Tasks) /\ tasks' # <<>> /\ OthersEnded'
      /\ running' = [cfg |-> running.cfg, st |-> s]
      /\ (SomeGood' <=> SomeGood)
  BY <1>1, <1>2, MovedKeeps DEF IInv
<1>5. Shape' /\ Bound'
  BY <1>1, <1>2, <1>3, <1>4 DEF IInv, Shape, Bound
<1>6. Settled'
  <2> SUFFICES ASSUME Calm' PROVE Settled'
    BY DEF Settled
  <2>1. faults' = faults
    BY <1>3 DEF Calm, IInv, Shape
  <2> QED
    BY <1>1, <1>2, <1>4, <2>1 DEF IInv, Settled, Calm
<1> QED
  BY <1>4, <1>5, <1>6 DEF IInv

LEMMA EditKeeps == ASSUME IInv, NEW c \in Contents, Edit(c) PROVE IInv'
<1>1. /\ during' = during \union {EditPoint}
      /\ UNCHANGED <<faults, pc, current, seen, rollback, next, tasks>>
      /\ EditPoint \in EditPoints
  BY DEF Edit
<1>2. running' = running /\ (SomeGood' <=> SomeGood)
  BY <1>1 DEF running, SomeGood
<1>3. Shape' /\ OthersEnded' /\ Bound'
  BY <1>1, <1>2 DEF IInv, Shape, OthersEnded, Bound
<1>4. Settled'
  <2> SUFFICES ASSUME Calm' PROVE Settled'
    BY DEF Settled
  <2>1. Calm /\ EditPoint \in {"boot", "steady"}
    BY <1>1 DEF Calm
  <2>2. pc = "snapshot" \/ (pc = "loop" /\ running.st = "up")
    BY <1>1, <2>1, SupervisorAssumption DEF EditPoint
  <2> QED
    BY <1>1, <1>2, <2>1, <2>2 DEF IInv, Settled
<1> QED
  BY <1>3, <1>4 DEF IInv

LEMMA StutterKeeps == ASSUME IInv, UNCHANGED vars PROVE IInv'
<1>1. /\ UNCHANGED <<file, during, faults, pc, current, seen, rollback, next, tasks>>
      /\ running' = running /\ (SomeGood' <=> SomeGood)
  BY DEF vars, running, SomeGood
<1> QED
  BY <1>1 DEF IInv, Shape, OthersEnded, Bound, Settled, Calm

LEMMA Inductive == ASSUME IInv, [Next]_vars PROVE IInv'
<1>1. CASE Read \/ Snapshot \/ Restore \/ Return \/ Poll \/ Reload \/ Relaunch \/ CtrlC \/ Quit
  BY <1>1, ReadKeeps, SnapshotKeeps, RestoreKeeps, ReturnKeeps, PollKeeps, ReloadKeeps,
     RelaunchKeeps, CtrlCKeeps, QuitKeeps
<1>2. CASE Bind \/ BindFails \/ Drain \/ EndpointLost
  BY <1>2, TaskKeeps
<1>3. CASE \E c \in Contents : Edit(c)
  BY <1>3, EditKeeps
<1>4. CASE UNCHANGED vars
  BY <1>4, StutterKeeps
<1> QED
  BY <1>1, <1>2, <1>3, <1>4 DEF Next

LEMMA Invariant == Spec => []IInv
  BY Initially, Inductive, PTL DEF Spec

-----------------------------------------------------------------------------

\* For any contents of the file and any edits: a reload awaits the old task
\* before it launches the next, and what is launched was validated as a whole.
THEOREM OneTaskAtATime == Spec => []OneValidTask
<1>1. IInv => OneValidTask
  <2> SUFFICES ASSUME IInv PROVE OneValidTask
    OBVIOUS
  <2>1. \A i \in 1 .. Len(tasks) : tasks[i] \in Tasks
    BY DEF IInv, Shape
  <2> QED
    BY <2>1 DEF IInv, OthersEnded, OneValidTask, Tasks
<1> QED
  BY <1>1, Invariant, PTL

\* Once a good config has been launched, main returns only when it was told to
\* stop, as long as no edit falls between two reads of a reload or on a task
\* that is starting, and there was no fault: then `rollback` holds a config
\* that was up whenever the running one cannot be bound.
THEOREM NeverEndsByItself == Spec => OnlyToldToExit
<1> DEFINE Step ==
      /\ pc' = "exited"
      /\ \E i \in 1 .. Len(tasks) : tasks[i].cfg \in Good
      /\ during \subseteq {"boot", "steady"} /\ faults = 0
      => pc = "quit"
<1>1. ASSUME IInv, [Next]_vars PROVE [Step]_vars
  <2> SUFFICES ASSUME Next, pc' = "exited", SomeGood, Calm PROVE pc = "quit"
    BY <1>1 DEF SomeGood, Calm
  <2>1. tasks # <<>> /\ pc \notin {"boot", "snapshot"}
    <3>1. tasks = <<>> => Len(tasks) = 0
      OBVIOUS
    <3> QED
      BY <1>1, <3>1 DEF SomeGood, IInv, Shape
  <2>2. ~Return
    BY <1>1 DEF Return, Previous, IInv, Settled
  <2>3. ~(Bind \/ BindFails \/ Drain \/ EndpointLost) \/ pc = "quit"
    BY <1>1, <2>1 DEF Bind, BindFails, Drain, EndpointLost, TaskStep, IInv, Bound
  <2>4. \A c \in Contents : ~Edit(c)
    BY <1>1, SupervisorAssumption DEF Edit, EditPoint
  <2> QED
    BY <2>1, <2>2, <2>3, <2>4
       DEF Next, Read, Snapshot, Restore, Poll, Changed, Reload, Relaunch, CtrlC, Quit
<1> QED
  BY <1>1, Invariant, PTL DEF Spec, OnlyToldToExit

-----------------------------------------------------------------------------
(* The reconnection loop of the client: the delay is bounded               *)

\* The delay stays between a second and its cap.
DelayBounded ==
  /\ base \in Intervals
  /\ delay \in Nat /\ 1 <= delay /\ delay <= Larger(30, base)
  /\ wait \in Nat

DelayInv == DelayBounded /\ WaitBounded

LEMMA IntervalType == ASSUME DelayBounded PROVE base \in Nat /\ delay \in Nat
  BY IntervalAssumption DEF DelayBounded

\* An attempt that never became ready ends within three set-up timeouts and the
\* drain of the endpoint.
LEMMA FailedAttemptShort ==
  ASSUME NEW a \in Attempts, ~IsReady(a)
  PROVE  ~IsStable(a)
<1>1. a.resolve \in 0 .. SETUP /\ a.connect \in 0 .. SETUP /\ a.register \in 0 .. SETUP
      /\ a.drain \in 0 .. DRAIN
  BY TimeAssumption, Zenon DEF Attempts
<1>2. Elapsed(a) = a.resolve + a.connect + a.register + 0 + a.drain
  BY DEF Elapsed
<1> QED
  BY <1>1, <1>2, TimeAssumption DEF IsStable

\* The inductive invariant is preserved by the two steps of run.
LEMMA DelayKept ==
  ASSUME DelayInv, [BackoffNext]_backoff
  PROVE  DelayInv'
<1> USE DEF DelayInv
<1>1. base \in Nat /\ delay \in Nat
  BY IntervalType
<1>2. CASE Returns
  <2>1. base' = base /\ phase' = "sleep" /\ phase = "connect"
    BY <1>2 DEF Returns
  <2>2. PICK a \in Attempts : delay' = IF IsStable(a) THEN 1 ELSE delay
    BY <1>2 DEF Returns
  <2>3. delay' \in Nat /\ 1 <= delay' /\ delay' <= Larger(30, base)
    BY <1>1, <2>2 DEF DelayBounded, Larger
  <2>4. CASE base = 0
    <3>1. wait' = 100
      BY <1>2, <2>4 DEF Returns
    <3> QED
      BY <2>1, <2>3, <2>4, <3>1 DEF DelayBounded, WaitBounded, Larger
  <2>5. CASE base # 0
    <3>1. PICK j \in Jitters : wait' = Pause(delay') * 1000 + j
      BY <1>2, <2>5 DEF Returns
    <3>2. j \in Nat /\ j <= 1000
      BY JitterAssumption
    <3>3. /\ Pause(delay') \in Nat /\ 1 <= Pause(delay')
          /\ base <= Pause(delay') /\ Pause(delay') <= Larger(30, base)
      BY <1>1, <2>1, <2>3 DEF Pause, Larger
    <3>4. Larger(30, base) \in Nat /\ Larger(30, base)' = Larger(30, base)
      BY <1>1, <2>1 DEF Larger
    <3>5. wait' \in Nat /\ wait' >= 100 /\ wait' >= base * 1000
          /\ wait' <= Larger(30, base) * 1000 + 1000
      BY <1>1, <3>1, <3>2, <3>3, <3>4
    <3> QED
      BY <2>1, <2>3, <3>4, <3>5 DEF DelayBounded, WaitBounded
  <2> QED
    BY <2>4, <2>5
<1>3. CASE Wakes
  BY <1>1, <1>3 DEF Wakes, DelayBounded, WaitBounded, Pause, Larger, Smaller
<1>4. CASE UNCHANGED backoff
  BY <1>4 DEF backoff, DelayBounded, WaitBounded
<1> QED
  BY <1>2, <1>3, <1>4 DEF BackoffNext

LEMMA DelayInvariant == BackoffSpec => []DelayInv
<1>1. BackoffInit => DelayInv
  BY IntervalAssumption DEF BackoffInit, DelayInv, DelayBounded, WaitBounded, Larger
<1>2. DelayInv /\ [BackoffNext]_backoff => DelayInv'
  BY DelayKept
<1> QED
  BY <1>1, <1>2, PTL DEF BackoffSpec

\* Every wait between two attempts is at least a tenth of a second and the
\* interval, and at most 30 seconds or the interval, and a second of jitter.
THEOREM WaitsBounded == BackoffSpec => []WaitBounded
<1>1. DelayInv => WaitBounded
  BY DEF DelayInv
<1> QED
  BY <1>1, DelayInvariant, PTL

\* The delay shrinks only when connect returns after "tunnel ready" was logged:
\* doubling never passes the cap, and an attempt that failed is too short to
\* count as stable.
THEOREM OnlyReadyResets == BackoffSpec => ResetOnlyWhenReady
<1>1. DelayInv /\ [BackoffNext]_backoff => [delay' < delay => ready']_backoff
  <2> SUFFICES ASSUME DelayInv, BackoffNext, delay' < delay PROVE ready'
    BY DEF backoff
  <2>1. base \in Nat /\ delay \in Nat
    BY IntervalType DEF DelayInv
  <2>2. CASE Returns
    <3>1. PICK a \in Attempts : /\ ready' = IsReady(a)
                                /\ delay' = IF IsStable(a) THEN 1 ELSE delay
      BY <2>2 DEF Returns
    <3>2. IsStable(a)
      BY <2>1, <3>1
    <3> QED
      BY <3>1, <3>2, FailedAttemptShort
  <2>3. CASE Wakes
    <3>1. delay' >= delay
      BY <2>1, <2>3 DEF Wakes, DelayInv, DelayBounded, Pause, Larger, Smaller
    <3>2. delay' \in Int
      BY <2>1, <2>3 DEF Wakes, Pause, Larger, Smaller
    <3> QED
      BY <2>1, <3>1, <3>2
  <2> QED
    BY <2>2, <2>3 DEF BackoffNext
<1> QED
  BY <1>1, DelayInvariant, PTL DEF BackoffSpec, ResetOnlyWhenReady

-----------------------------------------------------------------------------
(* Powers of two, by counting subsets                                      *)

INSTANCE FiniteSetTheorems

LEMMA CountSubsets ==
  ASSUME NEW n \in Nat
  PROVE  IsFiniteSet(SUBSET (1 .. n)) /\ Cardinality(SUBSET (1 .. n)) = 2 ^ n /\ 2 ^ n \in Nat
<1>1. IsFiniteSet(1 .. n) /\ Cardinality(1 .. n) = n
  BY FS_Interval
<1>2. IsFiniteSet(SUBSET (1 .. n)) /\ Cardinality(SUBSET (1 .. n)) = 2 ^ Cardinality(1 .. n)
  BY <1>1, FS_SUBSET, Zenon
<1>3. Cardinality(SUBSET (1 .. n)) \in Nat
  BY <1>2, FS_CardinalityType, Zenon
<1> QED
  BY <1>1, <1>2, <1>3, Zenon

\* Half of the subsets have the new element.
LEMMA PowerDoubles ==
  ASSUME NEW n \in Nat
  PROVE  2 ^ (n + 1) = 2 * 2 ^ n
<1> DEFINE A == 1 .. n
           B == 1 .. n + 1
           x == n + 1
           W == {T \cup {x} : T \in SUBSET A}
           f == [T \in SUBSET A |-> T \cup {x}]
<1>1. B = A \cup {x} /\ x \notin A /\ x \in Nat
  OBVIOUS
<1>2. IsFiniteSet(SUBSET A) /\ Cardinality(SUBSET A) = 2 ^ n /\ 2 ^ n \in Nat
  BY CountSubsets, Zenon
<1>3. Cardinality(SUBSET B) = 2 ^ x
  BY <1>1, CountSubsets, Zenon
<1> HIDE DEF A, B, x
<1>4. SUBSET B = (SUBSET A) \cup W
  <2>1. ASSUME NEW S \in SUBSET B, S \notin SUBSET A PROVE S \in W
    <3>1. x \in S /\ S \ {x} \in SUBSET A /\ S = (S \ {x}) \cup {x}
      BY <1>1, <2>1, Zenon
    <3> QED
      BY <3>1, Zenon
  <2>2. W \subseteq SUBSET B /\ SUBSET A \subseteq SUBSET B
    BY <1>1, Zenon
  <2> QED
    BY <2>1, <2>2, Zenon
<1>5. (SUBSET A) \cap W = {}
  BY <1>1, Zenon
<1>6. f \in Bijection(SUBSET A, W)
  <2>1. f \in [SUBSET A -> W] /\ \A S \in W : \E T \in SUBSET A : f[T] = S
    BY Zenon
  <2>2. ASSUME NEW S \in SUBSET A, NEW T \in SUBSET A, f[S] = f[T] PROVE S = T
    <3>1. S \cup {x} = T \cup {x} /\ x \notin S /\ x \notin T
      BY <1>1, <2>2, Zenon
    <3>2. \A y : y \in S <=> y \in T
      BY <3>1, Zenon
    <3> QED
      BY <3>2, Zenon
  <2> DEFINE P == SUBSET A
  <2>3. f \in [P -> W] /\ DOMAIN f = P
    BY <2>1, Zenon
  <2>4. \A S \in W : \E T \in P : f[T] = S
    BY <2>1, Zenon
  <2>5. \A S \in P, T \in P : f[S] = f[T] => S = T
    BY <2>2, Zenon
  <2> HIDE DEF f, W, P
  <2>6. f \in Bijection(P, W)
    BY <2>3, <2>4, <2>5, Zenon DEF Bijection, Injection, Surjection, IsInjective
  <2> QED
    BY <2>6, Zenon DEF P
<1> HIDE DEF f, W
<1>7. IsFiniteSet(W) /\ Cardinality(W) = 2 ^ n
  BY <1>2, <1>6, FS_Bijection, Zenon DEF ExistsBijection
<1>8. Cardinality((SUBSET A) \cup W) = 2 ^ n + 2 ^ n - Cardinality((SUBSET A) \cap W)
  BY <1>2, <1>7, FS_Union, Zenon
<1>9. Cardinality((SUBSET A) \cap W) = 0
  BY <1>5, FS_EmptySet, Zenon
<1>10. 2 ^ x = 2 ^ n + 2 ^ n
  <2>1. PICK p \in Nat : p = 2 ^ n
    BY <1>2, Zenon
  <2>2. PICK t : t = 2 ^ x
    BY Zenon
  <2>3. t = p + p - 0
    BY <1>3, <1>4, <1>8, <1>9, <2>1, <2>2, Zenon
  <2>4. t = p + p
    BY <2>3
  <2> QED
    BY <2>1, <2>2, <2>4, Zenon
<1> QED
  BY <1>2, <1>10 DEF x

-----------------------------------------------------------------------------
(* The delay doubles with every retry                                      *)

\* what an interval b comes to after n retries
Ideal(b, n) == Smaller(b * 2 ^ n, Larger(30, b))

Doubled == base # 0 => Pause(delay) = Ideal(base, retries)

IsShort(w) == w = 100

\* i seconds and the jitter
IsAbout(w, i) == w \in i * 1000 .. i * 1000 + 1000

WaitsIdeal ==
  phase = "sleep" =>
    /\ base = 0 => IsShort(wait)
    /\ base # 0 => IsAbout(wait, Ideal(base, retries))

GrowthInv == DelayBounded /\ retries \in Nat /\ Doubled /\ WaitsIdeal

\* An interval doubled n times is at least the interval, and twice that after one
\* time more.
LEMMA IntervalDoubles ==
  ASSUME NEW b \in Nat, NEW n \in Nat
  PROVE  /\ b * 2 ^ n \in Nat
         /\ b * 2 ^ (n + 1) = 2 * (b * 2 ^ n)
<1>1. 2 ^ n \in Nat
  BY CountSubsets, Zenon
<1>2. PICK p \in Nat : p = 2 ^ n
  BY <1>1, Zenon
<1>3. 2 ^ (n + 1) = 2 * p
  BY <1>2, PowerDoubles, Zenon
<1>4. b * p \in Nat /\ b * (2 * p) = 2 * (b * p)
  OBVIOUS
<1> QED
  BY <1>2, <1>3, <1>4, Zenon

LEMMA NoRetries ==
  ASSUME base \in Nat, base # 0
  PROVE  Larger(1, base) = Ideal(base, 0)
<1>1. 2 ^ 0 = 1
  OBVIOUS
<1>2. base * 2 ^ 0 = base
  BY <1>1
<1> QED
  BY <1>2 DEF Ideal, Smaller, Larger

\* min(2 * delay, cap) is the interval doubled once more, capped.
LEMMA OneMoreRetry ==
  ASSUME base \in Nat, base # 0, delay \in Nat, retries \in Nat, Doubled
  PROVE  Larger(Smaller(Pause(delay) * 2, Larger(30, base)), base) = Ideal(base, retries + 1)
<1>1. PICK m \in Nat : m = base * 2 ^ retries
  BY IntervalDoubles, Zenon
<1>2. base * 2 ^ (retries + 1) = 2 * m
  BY <1>1, IntervalDoubles, Zenon
<1>3. Pause(delay) = Smaller(m, Larger(30, base))
  BY <1>1, Zenon DEF Doubled, Ideal
<1>4. Pause(delay) >= base
  BY DEF Pause, Larger
<1>5. Ideal(base, retries + 1) = Smaller(2 * m, Larger(30, base))
  BY <1>2, Zenon DEF Ideal
<1> QED
  BY <1>3, <1>4, <1>5 DEF Smaller, Larger

LEMMA GrowthKept ==
  ASSUME GrowthInv, [BackoffNext]_backoff
  PROVE  GrowthInv'
<1> USE DEF GrowthInv
<1>1. base \in Nat /\ delay \in Nat /\ retries \in Nat
  BY IntervalType
<1>2. CASE Returns
  <2>1. base' = base /\ phase' = "sleep"
    BY <1>2 DEF Returns
  <2>2. PICK a \in Attempts : /\ delay' = IF IsStable(a) THEN 1 ELSE delay
                              /\ retries' = IF IsStable(a) THEN 0 ELSE retries
    BY <1>2 DEF Returns
  <2>3. retries' \in Nat /\ delay' \in Nat /\ 1 <= delay' /\ delay' <= Larger(30, base)
    BY <1>1, <2>2 DEF DelayBounded, Larger
  <2>4. base # 0 => Larger(delay', base) = Ideal(base, retries')
    <3>1. CASE IsStable(a)
      BY <1>1, <2>2, <3>1, NoRetries
    <3>2. CASE ~IsStable(a)
      BY <2>2, <3>2 DEF Doubled, Pause
    <3> QED
      BY <3>1, <3>2
  <2>5. Doubled'
    BY <2>1, <2>4, Zenon DEF Doubled, Pause, Ideal
  <2>6. CASE base = 0
    <3>1. wait' = 100
      BY <1>2, <2>6 DEF Returns
    <3> QED
      BY <2>1, <2>3, <2>5, <2>6, <3>1 DEF DelayBounded, WaitsIdeal, IsShort, Larger
  <2>7. CASE base # 0
    <3>1. PICK j \in Jitters : wait' = Pause(delay') * 1000 + j
      BY <1>2, <2>7 DEF Returns
    <3>2. j \in Nat /\ j <= 1000
      BY JitterAssumption
    <3>3. PICK i \in Nat : i = Ideal(base, retries') /\ Pause(delay') = i
      <4>1. Pause(delay') \in Nat
        BY <1>1, <2>3 DEF Pause, Larger
      <4> QED
        BY <2>4, <2>7, <4>1, Zenon DEF Pause
    <3>4. wait' \in Nat /\ IsAbout(wait', i)
      BY <3>1, <3>2, <3>3 DEF IsAbout
    <3>5. Ideal(base', retries') = Ideal(base, retries')
      BY <2>1, Zenon
    <3>6. WaitsIdeal'
      <4>1. IsAbout(wait', Ideal(base', retries'))
        BY <3>3, <3>4, <3>5, Zenon
      <4>2. base' # 0
        BY <2>1, <2>7
      <4> QED
        BY <4>1, <4>2, Zenon DEF WaitsIdeal
    <3>7. DelayBounded'
      BY <2>1, <2>3, <3>4 DEF DelayBounded, Larger
    <3> QED
      BY <2>3, <2>5, <3>6, <3>7, Zenon
  <2> QED
    BY <2>6, <2>7
<1>3. CASE Wakes
  <2>1. /\ base' = base /\ wait' = wait /\ phase' = "connect" /\ retries' = retries + 1
        /\ delay' = Smaller(Pause(delay) * 2, Larger(30, base))
    BY <1>3 DEF Wakes
  <2>2. DelayBounded'
    BY <1>1, <2>1 DEF DelayBounded, Pause, Larger, Smaller
  <2>3. base # 0 => Larger(delay', base) = Ideal(base, retries + 1)
    BY <1>1, <2>1, OneMoreRetry, Zenon
  <2>4. Doubled'
    BY <2>1, <2>3, Zenon DEF Doubled, Pause, Ideal
  <2>5. WaitsIdeal'
    BY <2>1 DEF WaitsIdeal
  <2> QED
    BY <1>1, <2>1, <2>2, <2>4, <2>5
<1>4. CASE UNCHANGED backoff
  <2>1. base' = base /\ delay' = delay /\ phase' = phase /\ wait' = wait /\ retries' = retries
    BY <1>4, Zenon DEF backoff
  <2>2. Pause(delay)' = Pause(delay)
    BY <2>1, Zenon DEF Pause
  <2>3. WaitsIdeal'
    BY <2>1, <2>2, Zenon DEF WaitsIdeal
  <2>4. Doubled' /\ DelayBounded'
    BY <2>1, <2>2, Zenon DEF Doubled, DelayBounded
  <2> QED
    BY <2>1, <2>3, <2>4, Zenon
<1> QED
  BY <1>2, <1>3, <1>4 DEF BackoffNext

\* Whatever the interval and the jitter: the wait before the n-th retry is the
\* interval doubled n times up to the cap, plus the jitter; it depends on nothing
\* else that happened since the delay was last reset.
THEOREM WaitsGrowToCap == BackoffSpec => []GrowsToCap
<1>1. BackoffInit => GrowthInv
  <2> SUFFICES ASSUME BackoffInit PROVE GrowthInv
    OBVIOUS
  <2>1. base \in Nat /\ delay = 1 /\ retries = 0 /\ phase = "connect" /\ wait = 0
    BY IntervalAssumption DEF BackoffInit
  <2>2. Doubled
    BY <2>1, NoRetries, Zenon DEF Doubled, Pause
  <2> QED
    BY <2>1, <2>2 DEF BackoffInit, GrowthInv, DelayBounded, WaitsIdeal, Larger
<1>2. GrowthInv /\ [BackoffNext]_backoff => GrowthInv'
  BY GrowthKept
<1>3. GrowthInv => GrowsToCap
  BY DEF GrowthInv, WaitsIdeal, IsShort, IsAbout, GrowsToCap, Ideal
<1> QED
  BY <1>1, <1>2, <1>3, PTL DEF BackoffSpec
=============================================================================
