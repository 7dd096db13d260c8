---------------------------- MODULE ClientFlows -----------------------------
(***************************************************************************)
(* The client's end of the UDP channel (proxy/client.rs): the session loop *)
(* with its map `flows`, the JoinSet of udp_flow workers, one connected    *)
(* socket and one bounded queue per worker, and the byte budget that all   *)
(* queues share.                                                           *)
(*                                                                         *)
(* A worker has a task ID that no other task of the JoinSet has, so that   *)
(* two workers for the same key would be told apart.  It is done when      *)
(* udp_flow returned: its receiver, its queue and its socket are gone, but *)
(* the loop has not joined it yet.                                         *)
(***************************************************************************)
EXTENDS Integers, Sequences, HashMap

CONSTANTS
  Keys,            \* (service, flow) pairs the server may use
  Data,            \* contents of a payload, opaque to the client
  Sizes,           \* lengths of a payload
  ClientMaxFlows,  \* max_udp_flows
  QueueSlots,      \* capacity of a worker's channel (8)
  QueueBytes,      \* permits of the semaphore queue_bytes (8 MiB)
  WorkerIds        \* task IDs; more than can be in the JoinSet at a time

ASSUME ClientFlowsAssumption ==
  /\ Sizes \subseteq Nat
  /\ ClientMaxFlows \in Nat \ {0}
  /\ QueueSlots \in Nat \ {0}
  /\ QueueBytes \in Nat \ {0}

VARIABLES
  flows,     \* key -> worker that owns the receiver of its channel
  workers,   \* the JoinSet: worker -> its state
  permits    \* available permits of queue_bytes

client == <<flows, workers, permits>>

Payloads == [data : Data, size : Sizes]

\* p.payload.len().max(1) permits
Cost(payload) == IF payload.size = 0 THEN 1 ELSE payload.size

\* udp_flow before its socket is bound; `heard` is what the local service has
\* received through this worker's socket
NewWorker(k) == [key |-> k, pc |-> "bind", queue |-> <<>>, hand |-> <<>>, heard |-> {}]

\* a packet owns its permits wherever worker w keeps it, in its queue or in hand
PermitsOf(w, place, payloads) ==
  UNION {{<<w, place, i>>} \X (1 .. Cost(payloads[i])) : i \in DOMAIN payloads}

InHand(w, worker) == PermitsOf(w, "hand", worker.hand)

\* permits of the queued packets and of the one being sent
Held(w, worker) == PermitsOf(w, "queue", worker.queue) \cup InHand(w, worker)

ClientInit ==
  /\ flows = EmptyMap
  /\ workers = EmptyMap
  /\ permits = QueueBytes

-----------------------------------------------------------------------------
(* The session loop: a packet arrived for key k.  A packet for a service   *)
(* that is not a UDP service, or for a new key while ClientMaxFlows are    *)
(* open, is dropped without effect.                                        *)

ClientHasRoom == Size(flows) < ClientMaxFlows

\* try_acquire_many_owned and try_send succeed; the channel of a worker that is
\* done is closed
Accepts(worker, payload) ==
  /\ Cost(payload) <= permits
  /\ worker.pc # "done"
  /\ Len(worker.queue) < QueueSlots

Enqueue(ws, w, payload) ==
  IF Accepts(ws[w], payload)
    THEN /\ workers' = [ws EXCEPT ![w].queue = Append(@, payload)]
         /\ permits' = permits - Cost(payload)
    ELSE /\ workers' = ws
         /\ UNCHANGED permits

\* the key has a channel
Forward(k, payload) ==
  /\ k \in DOMAIN flows
  /\ Enqueue(workers, flows[k], payload)
  /\ UNCHANGED flows

\* a new key: a channel and a worker are created first, and stay even if the
\* packet is then dropped
Spawn(k, payload, w) ==
  /\ k \notin DOMAIN flows
  /\ ClientHasRoom
  /\ w \notin DOMAIN workers
  /\ flows' = Insert(flows, k, w)
  /\ Enqueue(Insert(workers, w, NewWorker(k)), w, payload)

\* mutant: the map entry of a joined worker stays
Join_KeepsEntry(w) ==
  /\ workers[w].pc = "done"
  /\ workers' = Remove(workers, w)
  /\ UNCHANGED <<flows, permits>>

\* mutant: workers are joined only when their places are needed
Join_WhenFull(w) ==
  /\ workers[w].pc = "done"
  /\ ~ClientHasRoom
  /\ workers' = Remove(workers, w)
  /\ flows' = Remove(flows, workers[w].key)
  /\ UNCHANGED permits

\* workers.join_next() returns the key of a worker that is done
Join(w) ==
  /\ workers[w].pc = "done"
  /\ workers' = Remove(workers, w)
  /\ flows' = Remove(flows, workers[w].key)
  /\ UNCHANGED permits

-----------------------------------------------------------------------------
(* udp_flow *)

Bind(w) ==
  /\ workers[w].pc = "bind"
  /\ workers' = [workers EXCEPT ![w].pc = "select"]
  /\ UNCHANGED <<flows, permits>>

\* mutant: after its first packet the worker only waits for replies
Take_Once(w) ==
  /\ workers[w].pc = "select"
  /\ workers[w].queue # <<>>
  /\ workers[w].heard = {}
  /\ workers' = [workers EXCEPT ![w].pc = "send",
                                ![w].queue = Tail(@),
                                ![w].hand = <<Head(workers[w].queue)>>]
  /\ UNCHANGED <<flows, permits>>

\* rx.recv(): the packet and its permits leave the queue
Take(w) ==
  /\ workers[w].pc = "select"
  /\ workers[w].queue # <<>>
  /\ workers' = [workers EXCEPT ![w].pc = "send",
                                ![w].queue = Tail(@),
                                ![w].hand = <<Head(workers[w].queue)>>]
  /\ UNCHANGED <<flows, permits>>

\* socket.send() succeeded; the permits are dropped with the packet
Sent(w) ==
  /\ workers[w].pc = "send"
  /\ workers' = [workers EXCEPT ![w].pc = "select",
                                ![w].hand = <<>>,
                                ![w].heard = @ \cup {workers[w].hand[1].data}]
  /\ permits' = permits + Cardinality(InHand(w, workers[w]))
  /\ UNCHANGED flows

\* the local service answered: the reply goes to the server under w's key
Reply(w, d) ==
  /\ workers[w].pc = "select"
  /\ d \in workers[w].heard
  /\ UNCHANGED client

\* mutant: the queue of a worker that stops is not dropped
Stop_KeepsQueue(w) ==
  /\ workers[w].pc \in {"bind", "select", "send"}
  /\ workers' = [workers EXCEPT ![w].pc = "done", ![w].hand = <<>>]
  /\ permits' = permits + Cardinality(InHand(w, workers[w]))
  /\ UNCHANGED flows

\* udp_flow returns: the socket could not be bound or connected, the idle
\* timeout passed, or a send or receive failed.  Packets still in the queue
\* are lost and their permits dropped.
Stop(w) ==
  /\ workers[w].pc \in {"bind", "select", "send"}
  /\ workers' = [workers EXCEPT ![w].pc = "done", ![w].queue = <<>>, ![w].hand = <<>>]
  /\ permits' = permits + Cardinality(Held(w, workers[w]))
  /\ UNCHANGED flows

-----------------------------------------------------------------------------
Arrive(k, payload) ==
  Forward(k, payload) \/ \E w \in WorkerIds : Spawn(k, payload, w)

Work(w) == Bind(w) \/ Take(w) \/ Sent(w) \/ Stop(w)

ClientNext ==
  \/ \E k \in Keys, payload \in Payloads : Arrive(k, payload)
  \/ \E w \in DOMAIN workers : Join(w) \/ Work(w)
  \/ \E w \in DOMAIN workers : \E d \in workers[w].heard : Reply(w, d)

ClientSpec == ClientInit /\ [][ClientNext]_client

\* select! picks any of its ready branches, so the loop gets round to joining
\* and a worker to its queue; binding and sending on a UDP socket return.
\* Nothing forces a worker to stop.
FairClientSpec ==
  /\ ClientSpec
  /\ \A w \in WorkerIds :
       /\ WF_client(w \in DOMAIN workers /\ Join(w))
       /\ WF_client(w \in DOMAIN workers /\ Bind(w))
       /\ WF_client(w \in DOMAIN workers /\ Take(w))
       /\ WF_client(w \in DOMAIN workers /\ Sent(w))

-----------------------------------------------------------------------------
(* Properties *)

\* Every entry of `flows` belongs to one worker in the JoinSet and every worker
\* there, running or done, to the entry of its key: flows.remove(&key) after a
\* join never removes the channel of another worker, `flows[&key]` exists, and
\* there are never two sockets for one key.  So max_udp_flows bounds the tasks
\* and sockets too, those of workers that are done but not joined included.
OneWorkerPerKey ==
  /\ \A k \in DOMAIN flows : flows[k] \in DOMAIN workers /\ workers[flows[k]].key = k
  /\ \A w \in DOMAIN workers :
       workers[w].key \in DOMAIN flows /\ flows[workers[w].key] = w
  /\ Size(workers) <= ClientMaxFlows

\* the permits of all packets
HeldBy(ws) == UNION {Held(w, ws[w]) : w \in DOMAIN ws}

\* No permit of the byte budget is lost or made up, whichever way a packet
\* leaves: sent, failed, or dropped with the queue of a worker that stopped.
PermitsConserved ==
  permits >= 0 /\ permits + Cardinality(HeldBy(workers)) = QueueBytes

\* When packets stop coming, all permits come back.
PermitsReturn ==
  \/ []<><<\E k \in Keys, payload \in Payloads : Arrive(k, payload)>>_client
  \/ []<>(permits = QueueBytes)

\* the channel of key k has a receiver
Attended(k) == flows[k] \in DOMAIN workers /\ workers[flows[k]].pc # "done"

\* No key is stuck: packets for a key whose worker is done are dropped, but only
\* until the entry of that key has gone and the table has room, so that the next
\* packet for it starts a new worker.
KeyServedAgain ==
  \A k \in Keys :
    (k \in DOMAIN flows /\ ~Attended(k)) ~> (k \notin DOMAIN flows /\ ClientHasRoom)
=============================================================================
