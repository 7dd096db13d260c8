----------------------------- MODULE Supervisor -----------------------------
(***************************************************************************)
(* The supervisor loop of a server process (main.rs): read the config,     *)
(* launch the server task, poll the config file and restart the task when  *)
(* the file changes, fall back to the previous config when a task ends.    *)
(*                                                                         *)
(* The file is edited by somebody else at any point EditPoints allows, so  *)
(* the two reads of one reload, and the two reads at startup, may see      *)
(* different contents.  A content is Good, Conflicting (valid, but the     *)
(* server cannot bind its tunnel address), Broken (syntax, validation or   *)
(* identity files) or Absent (unreadable).                                 *)
(***************************************************************************)
EXTENDS Integers, Sequences

CONSTANTS
  Good, Conflicting, Broken, Absent,   \* contents of the config file
  EditPoints,    \* where an edit may fall, see Edit
  MaxEdits,      \* bound: number of edits
  MaxFaults      \* bound: endpoints lost, and binds of a Good config that fail

ASSUME SupervisorAssumption ==
  /\ EditPoints \subseteq {"boot", "reread", "starting", "steady"}
  /\ MaxEdits \in Nat
  /\ MaxFaults \in Nat

ASSUME ContentAssumption == Good \cap Conflicting = {}

Valid    == Good \cup Conflicting
Contents == Valid \cup Broken \cup {Absent}

VARIABLES
  file,       \* content of the file at `path`
  edits, faults,
  during,     \* history: the points at which the edits fell
  pc,         \* where main is
  current,    \* the config in force, as a set: empty before the first one
  seen,       \* bytes of the last read, as a set
  rollback,   \* Option<Config>, as a set
  next,       \* the config a reload is about to launch, as a set
  tasks       \* the tasks launched so far; `running` is the last one

vars == <<file, edits, during, faults, pc, current, seen, rollback, next, tasks>>

Init ==
  /\ file \in Contents
  /\ edits = 0
  /\ during = {}
  /\ faults = 0
  /\ pc = "boot"
  /\ current = {}
  /\ seen = {}
  /\ rollback = {}
  /\ next = {}
  /\ tasks = <<>>

running == tasks[Len(tasks)]

\* launch(c): a task is spawned
launch(c) == tasks' = Append(tasks, [cfg |-> c, st |-> "starting"])

\* mutant: the stop signal is not sent
stopped_Unsent == tasks

\* stop.send(true): a task that has not ended will
stopped == [tasks EXCEPT ![Len(tasks)].st = IF @ = "ended" THEN @ ELSE "stopping"]

-----------------------------------------------------------------------------
(* main before the loop *)

\* Config::read, select and validate_files; an error ends the process
Read ==
  /\ pc = "boot"
  /\ IF file \in Valid
       THEN current' = {file} /\ pc' = "snapshot"
       ELSE pc' = "exited" /\ UNCHANGED current
  /\ UNCHANGED <<file, edits, during, faults, seen, rollback, next, tasks>>

\* let mut seen = std::fs::read(&path)?, then the first launch
Snapshot ==
  /\ pc = "snapshot"
  /\ IF file # Absent
       THEN /\ seen' = {file}
            /\ \E c \in current : launch(c)
            /\ pc' = "loop"
       ELSE /\ pc' = "exited"
            /\ UNCHANGED <<seen, tasks>>
  /\ UNCHANGED <<file, edits, during, faults, current, rollback, next>>

-----------------------------------------------------------------------------
(* the arms of the loop *)

\* mutant: the previous config is not kept
Previous_Lost == {}

\* rollback.take()
Previous == rollback

\* running ended and there is a previous config
Restore ==
  /\ pc = "loop"
  /\ running.st = "ended"
  /\ \E old \in Previous : current' = {old} /\ launch(old)
  /\ rollback' = {}
  /\ UNCHANGED <<file, edits, during, faults, pc, seen, next>>

\* running ended and there is none: main returns its result
Return ==
  /\ pc = "loop"
  /\ running.st = "ended"
  /\ Previous = {}
  /\ pc' = "exited"
  /\ UNCHANGED <<file, edits, during, faults, current, seen, rollback, next, tasks>>

\* mutant: a change is noted and not acted upon
Changed_Forgets == seen' = {file} /\ UNCHANGED pc

\* seen = bytes, and on to the second read
Changed == seen' = {file} /\ pc' = "reread"

\* the tick arm up to `seen = bytes`; an unreadable or unchanged file is left
Poll ==
  /\ pc = "loop"
  /\ file # Absent
  /\ file \notin seen
  /\ Changed
  /\ UNCHANGED <<file, edits, during, faults, current, rollback, next, tasks>>

\* Config::read, select and validate_files succeed
Accepted(c) == c \in Valid

\* the second read of the file, and the stop of the running task
Reload ==
  /\ pc = "reread"
  /\ IF Accepted(file)
       THEN next' = {file} /\ tasks' = stopped /\ pc' = "drain"
       ELSE pc' = "loop" /\ UNCHANGED <<next, tasks>>
  /\ UNCHANGED <<file, edits, during, faults, current, seen, rollback>>

\* mutant: the old task is not awaited
Drained_Unawaited == TRUE

\* running.await returned, whatever its result
Drained == running.st = "ended"

\* the old config is kept in case the new one fails
Relaunch ==
  /\ pc = "drain"
  /\ Drained
  /\ rollback' = current
  /\ current' = next
  /\ next' = {}
  /\ \E c \in next : launch(c)
  /\ pc' = "loop"
  /\ UNCHANGED <<file, edits, during, faults, seen>>

CtrlC ==
  /\ pc = "loop"
  /\ tasks' = stopped
  /\ pc' = "quit"
  /\ UNCHANGED <<file, edits, during, faults, current, seen, rollback, next>>

Quit ==
  /\ pc = "quit"
  /\ running.st = "ended"
  /\ pc' = "exited"
  /\ UNCHANGED <<file, edits, during, faults, current, seen, rollback, next, tasks>>

-----------------------------------------------------------------------------
(* the server task: run in proxy/server.rs *)

TaskStep(from, to) ==
  /\ tasks # <<>>
  /\ running.st = from
  /\ tasks' = [tasks EXCEPT ![Len(tasks)].st = to]
  /\ UNCHANGED <<file, edits, during, pc, current, seen, rollback, next>>

Fault == faults < MaxFaults /\ faults' = faults + 1

\* resolve and transport::server succeed
Bind == TaskStep("starting", "up") /\ running.cfg \notin Conflicting /\ UNCHANGED faults

\* one of them fails: always with a config that cannot be bound, and now and
\* then with any other
BindFails ==
  /\ TaskStep("starting", "ended")
  /\ IF running.cfg \in Conflicting THEN UNCHANGED faults ELSE Fault

\* shutdown.changed(): close, abort, join and drain
Drain == TaskStep("stopping", "ended") /\ UNCHANGED faults

\* endpoint.accept() returned None
EndpointLost == TaskStep("up", "ended") /\ Fault

-----------------------------------------------------------------------------
(* whoever edits the file *)

EditPoint ==
  CASE pc = "snapshot" -> "boot"
    [] pc = "reread"   -> "reread"
    [] pc = "loop"     -> IF running.st = "up" THEN "steady" ELSE "starting"
    [] OTHER           -> "never"

Edit(c) ==
  /\ EditPoint \in EditPoints
  /\ edits < MaxEdits
  /\ c # file
  /\ file' = c
  /\ edits' = edits + 1
  /\ during' = during \union {EditPoint}
  /\ UNCHANGED <<faults, pc, current, seen, rollback, next, tasks>>

Task == Bind \/ BindFails \/ Drain

Next ==
  \/ Read \/ Snapshot
  \/ Restore \/ Return \/ Poll \/ Reload \/ Relaunch \/ CtrlC \/ Quit
  \/ Bind \/ BindFails \/ Drain \/ EndpointLost
  \/ \E c \in Contents : Edit(c)

Spec == Init /\ [][Next]_vars

\* main's thread runs, the interval keeps ticking, select! picks any ready arm,
\* and a server task binds or fails and shuts down when told to.  Edits, faults
\* and Ctrl-C need not happen.
FairSpec ==
  /\ Spec
  /\ WF_vars(Read) /\ WF_vars(Snapshot)
  /\ WF_vars(Restore) /\ WF_vars(Return) /\ WF_vars(Poll)
  /\ WF_vars(Reload) /\ WF_vars(Relaunch) /\ WF_vars(Quit)
  /\ WF_vars(Task)

-----------------------------------------------------------------------------
(* Properties *)

\* The endpoint of the old config is drained before the new one is launched:
\* at most the last task is alive, so a reload never fails to bind because of
\* its own predecessor; and no task is launched with a config that was not
\* validated as a whole, even if the file changes between the reads of a reload.
OneValidTask ==
  /\ \A i \in 1 .. Len(tasks) - 1 : tasks[i].st = "ended"
  /\ \A i \in 1 .. Len(tasks) : tasks[i].cfg \in Valid

Serving(c) == pc = "loop" /\ running = [cfg |-> c, st |-> "up"]

\* main returned after a config that cannot be bound and, if there was one to
\* restore, another one
NothingBinds ==
  /\ pc = "exited"
  /\ tasks # <<>>
  /\ \A i \in DOMAIN tasks : i >= Len(tasks) - 1 => tasks[i].cfg \in Conflicting

\* A valid edit takes effect: if the file ends up with a content that is valid
\* and can be bound, the process serves it in the end, whatever the edits before
\* it were and also when they met a task that was not up yet.  Only Ctrl-C
\* prevents it, or a process that ended before the poll because two configs in a
\* row, or the first one, could not be bound.  This is provided that no edit
\* falls between two reads of the file (Config::read and `seen` at startup, the
\* poll and Config::read of one reload) and that there was no fault.
ValidEditApplied ==
  [](during \subseteq {"starting", "steady"} /\ faults = 0) =>
    \A c \in Good :
      <>[](file = c) => <>(pc = "quit") \/ <>NothingBinds \/ <>[]Serving(c)

\* What README.md says of edits without any condition: "a valid edit restarts
\* sessions", here unless the process is told to stop or ends.
EveryValidEditApplied ==
  \A c \in Good :
    <>[](file = c) => <>(pc \in {"quit", "exited"}) \/ <>[]Serving(c)

\* Once a config is serving, the process only ends when it is told to: a config
\* that cannot be bound is replaced by the one before; provided that no edit
\* falls before a task has come up or failed ("starting") or between the two
\* reads of a reload ("reread"), and that there was no fault.
OnlyToldToExit ==
  [][ /\ pc' = "exited"
      /\ \E i \in 1 .. Len(tasks) : tasks[i].cfg \in Good
      /\ during \subseteq {"boot", "steady"} /\ faults = 0
     => pc = "quit"]_vars

\* Ctrl-C in the loop ends the process, and a reload always gets main back to
\* the loop, the only place where Ctrl-C is heard: the drain of the old task
\* ends.
StopsWhenTold ==
  /\ pc = "quit" ~> pc = "exited"
  /\ pc \in {"reread", "drain"} ~> pc = "loop"
=============================================================================
