---------------------------- MODULE ServerFlows -----------------------------
(***************************************************************************)
(* The UDP flow table of one server session (proxy/server.rs, Flows): one  *)
(* udp_listener task per UDP service and the session loop share it behind  *)
(* a mutex, so each critical section is one action.  A flow ID stands for  *)
(* one public source of one service; the two maps are each other's index.  *)
(***************************************************************************)
EXTENDS Integers, HashMap

CONSTANTS
  Services,     \* IDs of the session's UDP services
  Peers,        \* public source addresses
  MaxFlows,     \* max_udp_flows
  IdLimit,      \* u64::MAX, the flow ID that is never given out
  IdleTimeout   \* udp_idle_timeout, in time units

ASSUME FlowsAssumption ==
  /\ MaxFlows \in Nat \ {0}
  /\ IdLimit \in Nat
  /\ IdleTimeout \in Nat \ {0}

VARIABLES
  next,      \* Flows.next
  by_id,     \* Flows.by_id: flow ID -> service, peer, time since touched
  by_peer,   \* Flows.by_peer: (service, peer) -> flow ID
  up,        \* the session runs
  granted    \* history: flow ID -> the source it was given to

vars == <<next, by_id, by_peer, up, granted>>

Sources == Services \X Peers

Init ==
  /\ next = 0
  /\ by_id = EmptyMap
  /\ by_peer = EmptyMap
  /\ up = TRUE
  /\ granted = EmptyMap

NewFlow(s, p) == [service |-> s, peer |-> p, age |-> 0]

-----------------------------------------------------------------------------
(* udp_listener: a datagram from peer p arrives at the socket of service s *)

\* the source is known: by_id.get_mut(&flow).unwrap().touched = now
Known(s, p, f) ==
  /\ up
  /\ <<s, p>> \in DOMAIN by_peer
  /\ f = by_peer[<<s, p>>]
  /\ by_id' = [by_id EXCEPT ![f].age = 0]
  /\ UNCHANGED <<next, by_peer, up, granted>>

\* mutant: one flow too many
HasRoom_OneMore == Size(by_id) <= MaxFlows

HasRoom == Size(by_id) < MaxFlows

\* mutant: the ID of an expired flow is given out again
NewId_Reused == CHOOSE i \in 0 .. IdLimit : i \notin DOMAIN by_id

NewId == next

\* next.checked_add(1) is Some
IdsLeft == next < IdLimit

\* a new source while there is room
Admit(s, p, f) ==
  /\ up
  /\ <<s, p>> \notin DOMAIN by_peer
  /\ HasRoom
  /\ IdsLeft
  /\ f = NewId
  /\ next' = next + 1
  /\ by_peer' = Insert(by_peer, <<s, p>>, f)
  /\ by_id' = Insert(by_id, f, NewFlow(s, p))
  /\ granted' = Insert(granted, f, <<s, p>>)
  /\ UNCHANGED up

\* next.checked_add(1) is None: the error stops the listener and the session
IdsExhausted(s, p) ==
  /\ up
  /\ <<s, p>> \notin DOMAIN by_peer
  /\ HasRoom
  /\ ~IdsLeft
  /\ up' = FALSE
  /\ UNCHANGED <<next, by_id, by_peer, granted>>

-----------------------------------------------------------------------------
(* the session loop *)

Live == {f \in DOMAIN by_id : by_id[f].age < IdleTimeout}

\* mutant: by_peer is left alone
expire_OnlyById ==
  /\ up
  /\ by_id' = Retain(by_id, Live)
  /\ UNCHANGED <<next, by_peer, up, granted>>

\* mutant: flows expire only when their places are needed
expire_WhenFull ==
  /\ up
  /\ ~HasRoom
  /\ by_id' = Retain(by_id, Live)
  /\ by_peer' = Retain(by_peer, {k \in DOMAIN by_peer : by_peer[k] \in Live})
  /\ UNCHANGED <<next, up, granted>>

\* the tick arm: Flows::expire
expire ==
  /\ up
  /\ by_id' = Retain(by_id, Live)
  /\ by_peer' = Retain(by_peer, {k \in DOMAIN by_peer : by_peer[k] \in Live})
  /\ UNCHANGED <<next, up, granted>>

\* a packet for service s and flow f arrives from the client; the flow is
\* touched and the packet goes to peer p.  Without a flow of that service it
\* is dropped without effect.
Route(s, f, p) ==
  /\ up
  /\ f \in DOMAIN by_id
  /\ by_id[f].service = s
  /\ p = by_id[f].peer
  /\ by_id' = [by_id EXCEPT ![f].age = 0]
  /\ UNCHANGED <<next, by_peer, up, granted>>

\* the connection closes, a listener's send or socket fails, the client opens a
\* stream: the session ends and drops the table
End ==
  /\ up
  /\ up' = FALSE
  /\ UNCHANGED <<next, by_id, by_peer, granted>>

\* time passes; ages count up to the timeout, where they no longer matter
Advance ==
  /\ up
  /\ \E f \in DOMAIN by_id : by_id[f].age < IdleTimeout
  /\ by_id' = [f \in DOMAIN by_id |->
                 [by_id[f] EXCEPT !.age = IF @ < IdleTimeout THEN @ + 1 ELSE @]]
  /\ UNCHANGED <<next, by_peer, up, granted>>

Next ==
  \/ \E s \in Services, p \in Peers :
       \/ \E f \in 0 .. IdLimit : Known(s, p, f) \/ Admit(s, p, f) \/ Route(s, f, p)
       \/ IdsExhausted(s, p)
  \/ expire
  \/ End
  \/ Advance

Spec == Init /\ [][Next]_vars

\* The one-second interval of the session loop keeps ticking, and time goes on.
FairSpec == Spec /\ WF_vars(expire) /\ WF_vars(Advance)

-----------------------------------------------------------------------------
(* Properties *)

\* The maps have the key and value types of the Rust declarations, and IDs are
\* below `next`.
TypeOK ==
  /\ next \in 0 .. IdLimit
  /\ DOMAIN by_id \subseteq 0 .. next - 1
  /\ \A f \in DOMAIN by_id :
       by_id[f] \in [service : Services, peer : Peers, age : 0 .. IdleTimeout]
  /\ DOMAIN by_peer \subseteq Sources
  /\ up \in BOOLEAN

\* The two maps are inverse to each other: every known source has a flow that
\* is its own, and every flow is known under its source.  The unwrap() in
\* udp_listener rests on the first half; the limit on by_id bounds by_peer
\* because of the second.
TablesInverse ==
  /\ \A k \in DOMAIN by_peer :
       /\ by_peer[k] \in DOMAIN by_id
       /\ <<by_id[by_peer[k]].service, by_id[by_peer[k]].peer>> = k
  /\ \A f \in DOMAIN by_id :
       /\ <<by_id[f].service, by_id[f].peer>> \in DOMAIN by_peer
       /\ by_peer[<<by_id[f].service, by_id[f].peer>>] = f

\* Never more than max_udp_flows flows, in either map.
FlowLimit == Size(by_id) <= MaxFlows /\ Size(by_peer) <= MaxFlows

\* A flow ID belongs to one source for the whole session, also after the flow
\* expired: a late reply can find no flow, but never another source's.
IdForOneSource ==
  [][\A f \in DOMAIN granted : f \in DOMAIN granted' /\ granted'[f] = granted[f]]_vars

\* the inductive invariant of the proofs
IndInv ==
  /\ TypeOK
  /\ TablesInverse
  /\ IsFiniteSet(DOMAIN by_id)
  /\ Size(by_id) <= MaxFlows
  /\ DOMAIN granted = 0 .. next - 1
  /\ \A f \in DOMAIN by_id : granted[f] = <<by_id[f].service, by_id[f].peer>>

Touched(f) == f \in DOMAIN by_id /\ by_id[f].age > 0 /\ f \in DOMAIN by_id' /\ by_id'[f].age = 0

\* A flow that nobody uses any more gives its place back: the tick of the
\* session loop removes it, unless traffic keeps touching it or the session
\* ends.
IdleFlowsLeave ==
  \A f \in 0 .. IdLimit :
    []<><<Touched(f)>>_vars \/ []<>(f \notin DOMAIN by_id \/ ~up)
=============================================================================
