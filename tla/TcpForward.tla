----------------------------- MODULE TcpForward -----------------------------
(***************************************************************************)
(* Forwarding of TCP connections in one session, and in the next when   *)
(* it ends: the server's tcp_listener and tcp_server, the client's         *)
(* accept_bi branch and tcp_client.  Each end has stream permits of its    *)
(* own (its max_streams), each set-up runs under the SETUP timeout, and a  *)
(* connection is known to the far end only by the stream the server opened *)
(* for it.                                                                 *)
(*                                                                         *)
(* A connection is named by its public TCP peer.  The exchange on the      *)
(* stream is Handshake.tla and, once bridged, TcpBridge.tla; here it is    *)
(* the server's "ok" and whether an end has let go of the stream.          *)
(***************************************************************************)
EXTENDS Integers, FiniteSets

CONSTANTS
  Peers,
  SrvStreams,   \* max_streams of the server
  CliStreams,   \* max_streams of the client
  Retrying      \* connections to a service with service_retry(service) > 0

ASSUME ForwardAssumption ==
  SrvStreams \in Nat \ {0} /\ CliStreams \in Nat \ {0} /\ Retrying \subseteq Peers

VARIABLES
  pub,      \* per connection: its public peer
  loc,      \* per connection: the local target's side of it
  srv,      \* per connection: the server's task
  cli,      \* per connection: the client's task
  strm,     \* per connection: its stream, as each end holds it
  srvSlots, cliSlots,   \* available permits
  target    \* the local target accepts connections

vars == <<pub, loc, srv, cli, strm, srvSlots, cliSlots, target>>

NoStream == [srv |-> "none", cli |-> "none", ok |-> FALSE]

Init ==
  /\ pub = [p \in Peers |-> "none"] /\ loc = [p \in Peers |-> "none"]
  /\ srv = [p \in Peers |-> "none"] /\ cli = [p \in Peers |-> "none"]
  /\ strm = [p \in Peers |-> NoStream]
  /\ srvSlots = SrvStreams /\ cliSlots = CliStreams
  /\ target \in BOOLEAN

\* a stream counts against the peer's limit until both ends have let go of it
LetGo(s, end) ==
  LET t == [s EXCEPT ![end] = "gone"] IN
  IF t.srv = "gone" /\ t.cli = "gone" THEN NoStream ELSE t

Streams == {p \in Peers : strm[p] # NoStream}

-----------------------------------------------------------------------------
(* The TCP peers at both ends *)

PeerConnects(p) ==
  /\ pub[p] = "none" /\ srv[p] = "none" /\ cli[p] = "none" /\ strm[p] = NoStream
  /\ pub' = [pub EXCEPT ![p] = "queued"]
  /\ UNCHANGED <<loc, srv, cli, strm, srvSlots, cliSlots, target>>

PeerCloses(p) ==
  /\ pub[p] = "open"
  /\ pub' = [pub EXCEPT ![p] = "closed"]
  /\ UNCHANGED <<loc, srv, cli, strm, srvSlots, cliSlots, target>>

TargetCloses(p) ==
  /\ loc[p] = "open"
  /\ loc' = [loc EXCEPT ![p] = "closed"]
  /\ UNCHANGED <<pub, srv, cli, strm, srvSlots, cliSlots, target>>

TargetFlips ==
  /\ target' = ~target
  /\ UNCHANGED <<pub, loc, srv, cli, strm, srvSlots, cliSlots>>

-----------------------------------------------------------------------------
(* The server: tcp_listener and tcp_server *)

\* accept, and a permit; without one the connection is dropped
AcceptTcp(p) ==
  /\ pub[p] = "queued"
  /\ IF srvSlots > 0
       THEN /\ srvSlots' = srvSlots - 1
            /\ srv' = [srv EXCEPT ![p] = "opening"]
            /\ pub' = [pub EXCEPT ![p] = "open"]
       ELSE /\ pub' = [pub EXCEPT ![p] = "none"]
            /\ UNCHANGED <<srv, srvSlots>>
  /\ UNCHANGED <<loc, cli, strm, cliSlots, target>>

\* open_bi waits for the client's limit, max_streams + 1; then the header
OpenBi(p) ==
  /\ srv[p] = "opening"
  /\ Cardinality(Streams) < CliStreams + 1
  /\ srv' = [srv EXCEPT ![p] = "setup"]
  /\ strm' = [strm EXCEPT ![p] = [NoStream EXCEPT !.srv = "open"]]
  /\ UNCHANGED <<pub, loc, cli, srvSlots, cliSlots, target>>

\* receive_stream returns the client's empty request: "ok", then bridge
SendOk(p) ==
  /\ srv[p] = "setup"
  /\ cli[p] = "setup" /\ strm[p].cli = "open"
  /\ srv' = [srv EXCEPT ![p] = "bridge"]
  /\ strm' = [strm EXCEPT ![p].ok = TRUE]
  /\ UNCHANGED <<pub, loc, cli, srvSlots, cliSlots, target>>

\* mutant: the permit is lost
Returned_Never(slots) == slots

\* _permit is dropped with the task
Returned(slots) == slots + 1

ServerEnds(p) ==
  /\ srv' = [srv EXCEPT ![p] = "none"]
  /\ srvSlots' = Returned(srvSlots)
  /\ pub' = [pub EXCEPT ![p] = "none"]
  /\ strm' = [strm EXCEPT ![p] = IF srv[p] = "opening" THEN @ ELSE LetGo(@, "srv")]
  /\ UNCHANGED <<loc, cli, cliSlots, target>>

\* the client let go: the stream ends where a handshake message should be
ServerRefused(p) == srv[p] = "setup" /\ strm[p].cli = "gone" /\ ServerEnds(p)

\* mutant: the timeout starts when the stream is open
InSetup_Opened == {"setup"}

InSetup == {"opening", "setup"}

ServerTimeout(p) == srv[p] \in InSetup /\ ServerEnds(p)

\* the far tx is done, or its end was dropped: read_frame returns None
FarEnded(peer, end) == peer = "closed" \/ end = "gone"

\* both directions have ended
ServerBridged(p) ==
  /\ srv[p] = "bridge" /\ pub[p] = "closed" /\ FarEnded(loc[p], strm[p].cli)
  /\ ServerEnds(p)

\* an error in either direction
ServerFails(p) == srv[p] = "bridge" /\ ServerEnds(p)

-----------------------------------------------------------------------------
(* The client: the accept_bi branch of session, and tcp_client *)

\* a permit; without one both halves of the stream are dropped
AcceptBi(p) ==
  /\ strm[p] # NoStream /\ strm[p].cli = "none"
  /\ IF cliSlots > 0
       THEN /\ cliSlots' = cliSlots - 1
            /\ cli' = [cli EXCEPT ![p] = "setup"]
            /\ strm' = [strm EXCEPT ![p].cli = "open"]
       ELSE /\ strm' = [strm EXCEPT ![p] = LetGo(@, "cli")]
            /\ UNCHANGED <<cli, cliSlots>>
  /\ UNCHANGED <<pub, loc, srv, srvSlots, target>>

\* the reply is "ok": the local target is dialled
ReadOk(p) ==
  /\ cli[p] = "setup" /\ strm[p].ok
  /\ cli' = [cli EXCEPT ![p] = "connect"]
  /\ UNCHANGED <<pub, loc, srv, strm, srvSlots, cliSlots, target>>

LocalConnect(p) ==
  /\ cli[p] = "connect" /\ target
  /\ cli' = [cli EXCEPT ![p] = "bridge"]
  /\ loc' = [loc EXCEPT ![p] = "open"]
  /\ UNCHANGED <<pub, srv, strm, srvSlots, cliSlots, target>>

ClientEnds(p) ==
  /\ cli' = [cli EXCEPT ![p] = "none"]
  /\ cliSlots' = Returned(cliSlots)
  /\ loc' = [loc EXCEPT ![p] = "none"]
  /\ strm' = [strm EXCEPT ![p] = LetGo(@, "cli")]
  /\ UNCHANGED <<pub, srv, srvSlots, target>>

\* connect fails, and there is no retry interval
LocalRefused(p) == cli[p] = "connect" /\ ~target /\ p \notin Retrying /\ ClientEnds(p)

\* the server let go: the stream ends where a frame should be
ClientRefused(p) ==
  cli[p] = "setup" /\ ~strm[p].ok /\ strm[p].srv = "gone" /\ ClientEnds(p)

\* retries of connect go on until SETUP elapses
ClientTimeout(p) == cli[p] \in {"setup", "connect"} /\ ClientEnds(p)

ClientBridged(p) ==
  /\ cli[p] = "bridge" /\ loc[p] = "closed" /\ FarEnded(pub[p], strm[p].srv)
  /\ ClientEnds(p)

ClientFails(p) == cli[p] = "bridge" /\ ClientEnds(p)

-----------------------------------------------------------------------------

\* accept or set_nodelay fails and ends the listener, and with it the session; or
\* the connection is lost.  The JoinSets of both ends drop their tasks, and the
\* next session has new listeners and semaphores
SessionEnds ==
  /\ pub' = [p \in Peers |-> "none"] /\ loc' = [p \in Peers |-> "none"]
  /\ srv' = [p \in Peers |-> "none"] /\ cli' = [p \in Peers |-> "none"]
  /\ strm' = [p \in Peers |-> NoStream]
  /\ srvSlots' = SrvStreams /\ cliSlots' = CliStreams
  /\ UNCHANGED target

Server(p) ==
  \/ AcceptTcp(p) \/ OpenBi(p) \/ SendOk(p) \/ ServerRefused(p)
  \/ ServerTimeout(p) \/ ServerBridged(p)

Client(p) ==
  \/ AcceptBi(p) \/ ReadOk(p) \/ LocalConnect(p) \/ LocalRefused(p)
  \/ ClientRefused(p) \/ ClientTimeout(p) \/ ClientBridged(p)

Next ==
  \/ TargetFlips
  \/ SessionEnds
  \/ \E p \in Peers :
       \/ PeerConnects(p) \/ PeerCloses(p) \/ TargetCloses(p)
       \/ Server(p) \/ ServerFails(p) \/ Client(p) \/ ClientFails(p)

Spec == Init /\ [][Next]_vars

\* The runtime polls every task again and every timer fires.  Nothing makes a
\* TCP peer connect or close, the target come up, or a bridge or the session fail.
FairSpec ==
  Spec /\ \A p \in Peers : WF_vars(Server(p)) /\ WF_vars(Client(p))

-----------------------------------------------------------------------------
(* Properties *)

\* No connection stays in set-up: not while the server waits for the client's
\* stream limit, not when the client refuses the stream, not while the client
\* keeps dialling a target that is down.
SetupEnds ==
  \A p \in Peers :
    /\ (srv[p] \in {"opening", "setup"}) ~> (srv[p] \notin {"opening", "setup"})
    /\ (cli[p] \in {"setup", "connect"}) ~> (cli[p] \notin {"setup", "connect"})

\* A permit follows its TCP peer: an end whose own peer has closed ends its task
\* and can admit another when the other peer closes, and also when the other end
\* never got as far as bridging (it refused, timed out, or found no target) or
\* failed.
PermitsReturn ==
  \A p \in Peers :
    /\ (pub[p] = "closed" /\ (loc[p] = "closed" \/ strm[p].cli = "gone"))
         ~> (srv[p] = "none" /\ srvSlots > 0)
    /\ (loc[p] = "closed" /\ (pub[p] = "closed" \/ strm[p].srv = "gone"))
         ~> (cli[p] = "none" /\ cliSlots > 0)
=============================================================================
