----------------------------- MODULE MCUdpFlows -----------------------------
(***************************************************************************)
(* The UDP tables of one end of a session, of the server or of the client. *)
(* At the server: two services, two public peers, room for two flows and   *)
(* four flow IDs: the table is full, flows expire and come back, and the   *)
(* IDs run out.  At the client: three keys for two flows, and fewer bytes  *)
(* than the queues have slots for: packets are dropped for want of a flow, *)
(* a slot, of bytes and of a worker that still runs.  The tables of the    *)
(* other end stay empty.                                                   *)
(***************************************************************************)
EXTENDS ServerFlows, ClientFlows

VARIABLE side

ends == <<vars, client, side>>

FlowsInit == Init /\ ClientInit /\ side \in {"server", "client"}

FlowsNext ==
  \/ side = "server" /\ Next /\ UNCHANGED <<client, side>>
  \/ side = "client" /\ ClientNext /\ UNCHANGED <<vars, side>>

\* the fairness of ServerFlows!FairSpec and ClientFlows!FairClientSpec; neither has
\* an effect on empty tables
FlowsSpec ==
  /\ FlowsInit /\ [][FlowsNext]_ends
  /\ WF_vars(expire) /\ WF_vars(Advance)
  /\ \A w \in WorkerIds :
       /\ WF_client(w \in DOMAIN workers /\ Join(w))
       /\ WF_client(w \in DOMAIN workers /\ Bind(w))
       /\ WF_client(w \in DOMAIN workers /\ Take(w))
       /\ WF_client(w \in DOMAIN workers /\ Sent(w))
=============================================================================
