----------------------------- MODULE UdpTunnel ------------------------------
(***************************************************************************)
(* UDP forwarding end to end within one session: the server's flow table   *)
(* (ServerFlows), the client's workers (ClientFlows) and a channel in each *)
(* direction.  The channels deliver a packet at most once, whole, in any   *)
(* order or not at all, which is what module Datagram establishes of the   *)
(* sealed and fragmented one.  The data of a packet is the public source   *)
(* it came from; the local service answers through the socket it heard     *)
(* from, with the same data.                                               *)
(***************************************************************************)
EXTENDS ServerFlows, ClientFlows

\* the client takes the keys and data that the server sends; all packets have one
\* size
ASSUME TunnelAssumption ==
  /\ Services \X (0 .. IdLimit) \subseteq Keys
  /\ Sources \subseteq Data
  /\ 1 \in Sizes

VARIABLES
  down,       \* packets on their way to the client
  back,       \* replies on their way to the server
  out         \* history: the last reply the server sent to a public peer

channel == <<down, back, out>>
tunnel  == <<vars, client, channel>>

TunnelInit == Init /\ ClientInit /\ down = {} /\ back = {} /\ out = {}

Packet(s, f, d) == [key |-> <<s, f>>, data |-> d]

-----------------------------------------------------------------------------
\* udp_listener: find or make the flow and send the datagram to the client
Listen(s, p) ==
  \E f \in 0 .. IdLimit :
    /\ Known(s, p, f) \/ Admit(s, p, f)
    /\ down' = down \cup {Packet(s, f, <<s, p>>)}
    /\ UNCHANGED <<client, back, out>>

\* the client's session loop takes a packet from the channel
ClientReads(m) ==
  /\ up
  /\ Arrive(m.key, [data |-> m.data, size |-> 1])
  /\ down' = down \ {m}
  /\ UNCHANGED <<vars, back, out>>

ClientWorks ==
  /\ up
  /\ \E w \in DOMAIN workers : Join(w) \/ Work(w)
  /\ UNCHANGED <<vars, channel>>

\* mutant: the reply carries the flow of the worker that was spawned last
WorkerReplies_LastKey(w, d) ==
  /\ up
  /\ Reply(w, d)
  /\ LET last == CHOOSE v \in DOMAIN workers : \A u \in DOMAIN workers : u <= v
     IN  back' = back \cup {Packet(workers[last].key[1], workers[last].key[2], d)}
  /\ UNCHANGED <<vars, down, out>>

\* udp_flow: a datagram from the local service goes back under the worker's key
WorkerReplies(w, d) ==
  /\ up
  /\ Reply(w, d)
  /\ back' = back \cup {Packet(workers[w].key[1], workers[w].key[2], d)}
  /\ UNCHANGED <<vars, down, out>>

\* the server's session loop takes a reply; without a live flow of the same
\* service it is dropped (LosesReply)
ServerReads(m) ==
  \E p \in Peers :
    /\ Route(m.key[1], m.key[2], p)
    /\ out' = {[service |-> m.key[1], peer |-> p, data |-> m.data]}
    /\ back' = back \ {m}
    /\ UNCHANGED <<client, down>>

\* a packet is lost, or dropped by its receiver
LosesPacket(m) ==
  /\ up
  /\ down' = down \ {m}
  /\ UNCHANGED <<vars, client, back, out>>

LosesReply(m) ==
  /\ up
  /\ back' = back \ {m}
  /\ UNCHANGED <<vars, client, down, out>>

ServerWorks ==
  /\ expire \/ Advance \/ End \/ \E s \in Services, p \in Peers : IdsExhausted(s, p)
  /\ UNCHANGED <<client, channel>>

TunnelNext ==
  \/ \E s \in Services, p \in Peers : Listen(s, p)
  \/ \E m \in down : ClientReads(m) \/ LosesPacket(m)
  \/ ClientWorks
  \/ \E w \in DOMAIN workers : \E d \in workers[w].heard : WorkerReplies(w, d)
  \/ \E m \in back : ServerReads(m) \/ LosesReply(m)
  \/ ServerWorks

TunnelSpec == TunnelInit /\ [][TunnelNext]_tunnel

-----------------------------------------------------------------------------
(* Properties *)

\* A public peer gets replies to its own datagrams only, through the service it
\* used: not those of a source that had the flow ID, the worker or the socket
\* before or has it now, however late a reply is and whatever expired meanwhile
\* at either end; and the local service never sees two sources behind one socket.
SourceIsolation ==
  /\ \A o \in out : o.data = <<o.service, o.peer>>
  /\ \A w \in DOMAIN workers : workers[w].heard \subseteq {granted[workers[w].key[2]]}
=============================================================================
