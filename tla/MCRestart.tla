----------------------------- MODULE MCRestart ------------------------------
(***************************************************************************)
(* What a process does when its tunnel ends, in either role: a server with *)
(* two good configs, two that cannot be bound, a broken one and a file     *)
(* that may vanish; or a client with retry intervals on either side of     *)
(* each limit.  The variables of the other role stay as they begin.        *)
(***************************************************************************)
EXTENDS Supervisor, Backoff

VARIABLE role

restart == <<vars, backoff, role>>

RestartInit ==
  \/ role = "server" /\ Init /\ BackoffInit /\ base = 0
  \/ role = "client" /\ BackoffInit /\ Init /\ file = Absent

IsServer(A) == role = "server" /\ A

RestartNext ==
  \/ role = "server" /\ Next /\ UNCHANGED <<backoff, role>>
  \/ role = "client" /\ BackoffNext /\ UNCHANGED <<vars, role>>

\* the fairness of Supervisor!FairSpec
RestartSpec ==
  /\ RestartInit /\ [][RestartNext]_restart
  /\ WF_vars(IsServer(Read)) /\ WF_vars(IsServer(Snapshot))
  /\ WF_vars(IsServer(Restore)) /\ WF_vars(IsServer(Return)) /\ WF_vars(IsServer(Poll))
  /\ WF_vars(IsServer(Reload)) /\ WF_vars(IsServer(Relaunch)) /\ WF_vars(IsServer(Quit))
  /\ WF_vars(IsServer(Task))
=============================================================================
