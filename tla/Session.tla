------------------------------ MODULE Session -------------------------------
(***************************************************************************)
(* Tunnel sessions: a server (proxy/server.rs: run, session) and clients   *)
(* (proxy/client.rs: run, connect, session) that connect, register their   *)
(* services, and reconnect when a session ends.                            *)
(*                                                                         *)
(* A connection is a live QUIC connection, one that was closed by an end   *)
(* (the other end learns it), or one that was cut (nothing arrives any     *)
(* more, each end finds out by its idle timeout).  The registration stream *)
(* is reliable: of what was written, `req` is the client's registration,   *)
(* `ok` the server's reply with the end of its stream, `fin` the end of    *)
(* the client's: "finished" by the client, or sent for it ("dropped") when *)
(* it gave the stream up.  A service stands for its bind address.          *)
(***************************************************************************)
EXTENDS Integers, FiniteSets, Sequences, Functions

CONSTANTS
  Clients,
  Conns,         \* names of connections; reused when both ends are gone
  Configs,       \* the cases to consider: client -> services of its config
  Known,         \* services a client may register: name, kind and token agree
  MaxSessions,   \* max_connections
  MaxFaults      \* bound: cuts, timeouts of a live peer, expiries, restarts

Free == 0   \* no connection has this name

ASSUME SessionAssumption ==
  /\ \A f \in Configs, c \in Clients :
       f[c] # {} /\ f[c] \subseteq Nat /\ IsFiniteSet(f[c])
  /\ Free \notin Conns
  /\ MaxSessions \in Nat \ {0}
  /\ MaxFaults \in Nat

VARIABLES
  conn,     \* per connection: its link, whether the client's address is validated,
            \* and the registration stream
  srv,      \* per connection: the server's session, and the listeners it bound
  owner,    \* bind address -> connection whose session holds its socket
  slots,    \* available permits of `slots`
  cli,      \* per client: where it is, on which connection, and its cfg.services
  faults

vars == <<conn, srv, owner, slots, cli, faults>>

Services == Known \cup UNION {f[c] : f \in Configs, c \in Clients}

\* a connection that neither end looks at any more
Gone == [link |-> "closed", valid |-> FALSE, req |-> <<>>, ok |-> FALSE, fin |-> "no"]

\* one that a client has just started
Attempt == [link |-> "live", valid |-> FALSE, req |-> <<>>, ok |-> FALSE, fin |-> "no"]

Init ==
  /\ conn = [k \in Conns |-> Gone]
  /\ srv = [k \in Conns |-> [st |-> "none", bound |-> <<>>]]
  /\ owner = [s \in Services |-> Free]
  /\ slots = MaxSessions
  /\ \E f \in Configs :
       cli = [c \in Clients |-> [st |-> "down", conn |-> Free, services |-> f[c]]]
  /\ faults = 0

\* what was written can still be read
Arrives(k) == conn[k].link # "cut"

\* mutant: a connection that is cut is never noticed
Lost_NoTimeout(k) == conn[k].link = "closed"

\* conn.closed(), or any operation on the connection fails
Lost(k) == conn[k].link # "live"

\* the two ends of a connection
Active(k) == srv[k].st \notin {"none", "drop"}
HasClient(k) == \E c \in Clients : cli[c].conn = k

\* an end closes the connection; the other one, if it is there, is told
Closed(k, other) ==
  IF other THEN [conn[k] EXCEPT !.link = IF @ = "cut" THEN @ ELSE "closed"] ELSE Gone

-----------------------------------------------------------------------------
(* The client *)

\* a set of services in the order of their names
Sorted ==
  [S \in SUBSET Services |->
     [i \in 1 .. Cardinality(S) |->
        CHOOSE x \in S : Cardinality({y \in S : y < x}) = i - 1]]

\* mutant: the services are listed in the order of a hash map
Offers_Unordered(c) ==
  LET list == Sorted[cli[c].services] IN
  IF \A d \in Clients : c <= d THEN list
  ELSE [i \in DOMAIN list |-> list[Len(list) + 1 - i]]

\* cfg.services is a BTreeMap: its order is that of the names
Offers(c) == Sorted[cli[c].services]

\* names of connections that neither end knows any more
Unused == {k \in Conns : srv[k].st = "none" /\ ~HasClient(k)}

\* connect, after the backoff of run; which unused name it gets does not matter
Connect(c, k) ==
  /\ cli[c].st = "down"
  /\ k \in Unused
  /\ \A j \in Unused : k <= j
  /\ cli' = [cli EXCEPT ![c].st = "connect", ![c].conn = k]
  /\ conn' = [conn EXCEPT ![k] = Attempt]
  /\ UNCHANGED <<srv, owner, slots, faults>>

\* the connection is up: open_bi and the registration request
Register(c) ==
  LET k == cli[c].conn IN
  /\ cli[c].st = "connect"
  /\ ~Lost(k)
  /\ srv[k].st = "incoming"
  /\ cli' = [cli EXCEPT ![c].st = "register"]
  /\ conn' = [conn EXCEPT ![k].req = Offers(c)]
  /\ UNCHANGED <<srv, owner, slots, faults>>

\* the reply is ok: the client ends its side of the stream
Finish(c) ==
  LET k == cli[c].conn IN
  /\ cli[c].st = "register"
  /\ Arrives(k)
  /\ conn[k].ok
  /\ cli' = [cli EXCEPT ![c].st = "finish"]
  /\ conn' = [conn EXCEPT ![k].fin = "finished"]
  /\ UNCHANGED <<srv, owner, slots, faults>>

\* the server's side has ended too: "tunnel ready"
Ready(c) ==
  /\ cli[c].st = "finish"
  /\ Arrives(cli[c].conn)
  /\ cli' = [cli EXCEPT ![c].st = "ready"]
  /\ UNCHANGED <<conn, srv, owner, slots, faults>>

\* What the server finds when the client leaves.  A SendStream that is dropped
\* unfinished is finished by quinn, and the driver may send that before the close.
Left(c) ==
  LET k == cli[c].conn
      closed == Closed(k, Active(k)) IN
  {closed} \cup
    IF cli[c].st = "register" /\ ~Lost(k) /\ Active(k) THEN {[closed EXCEPT !.fin = "dropped"]} ELSE {}

\* connect returns: the connection is closed, and run will try again
Leave(c) ==
  /\ cli' = [cli EXCEPT ![c].st = "down", ![c].conn = Free]
  /\ \E closed \in Left(c) : conn' = [conn EXCEPT ![cli[c].conn] = closed]
  /\ UNCHANGED <<srv, owner, slots>>

ClientLost(c) ==
  /\ cli[c].st # "down"
  /\ Lost(cli[c].conn)
  /\ Leave(c)
  /\ UNCHANGED faults

-----------------------------------------------------------------------------
(* The server *)

\* a client waits for the connection to come up
Connecting(k) == \E c \in Clients : cli[c].st = "connect" /\ cli[c].conn = k

\* endpoint.accept() returned the attempt on k
Incoming(k) == Connecting(k) /\ srv[k].st = "none" /\ ~Lost(k)

\* the address is not validated: a stateless Retry, and the client tries again
\* with the token
Retry(k) ==
  /\ Incoming(k)
  /\ ~conn[k].valid
  /\ conn' = [conn EXCEPT ![k].valid = TRUE]
  /\ UNCHANGED <<srv, owner, slots, cli, faults>>

\* it is, and there is a permit of `slots`
Accept(k) ==
  /\ Incoming(k)
  /\ conn[k].valid
  /\ slots > 0
  /\ slots' = slots - 1
  /\ srv' = [srv EXCEPT ![k].st = "incoming"]
  /\ UNCHANGED <<conn, owner, cli, faults>>

Refuse(k) ==
  /\ Incoming(k)
  /\ conn[k].valid
  /\ slots = 0
  /\ conn' = [conn EXCEPT ![k] = Closed(k, TRUE)]
  /\ UNCHANGED <<srv, owner, slots, cli, faults>>

\* `incoming` resolved to a connection
Established(k) ==
  /\ srv[k].st = "incoming"
  /\ Arrives(k)
  /\ conn[k].req # <<>>
  /\ srv' = [srv EXCEPT ![k].st = "setup"]
  /\ UNCHANGED <<conn, owner, slots, cli, faults>>

\* every offer is one of the server's services, with its kind and its token
\* (version, number and distinctness of the offers hold of any config's list)
Admissible(req) == Range(req) \subseteq Known

\* mutant: the permit is lost with the session
PermitBack_Never == slots

\* _permit is dropped
PermitBack == slots + 1

\* mutant: an abandoned setup keeps the sockets it bound
SocketsBack_Never(k) == owner

\* `bound` is dropped
SocketsBack(k) == [s \in Services |-> IF owner[s] = k THEN Free ELSE owner[s]]

\* The session task ends: permit and connection go with it.  During setup the
\* sockets are in its future and go too; later they belong to listener tasks,
\* which are aborted and drop them when the runtime gets to it.
End(k) ==
  /\ slots' = PermitBack
  /\ conn' = [conn EXCEPT ![k] = Closed(k, HasClient(k))]
  /\ IF srv[k].st = "serve"
       THEN srv' = [srv EXCEPT ![k].st = "drop"] /\ UNCHANGED owner
       ELSE /\ srv' = [srv EXCEPT ![k] = [st |-> "none", bound |-> <<>>]]
            /\ owner' = SocketsBack(k)
  /\ UNCHANGED cli

\* the registration is checked as a whole before any socket is bound
Check(k) ==
  /\ srv[k].st = "setup"
  /\ Arrives(k)
  /\ IF Admissible(conn[k].req)
       THEN /\ srv' = [srv EXCEPT ![k].st = "bind"]
            /\ UNCHANGED <<conn, owner, slots, cli>>
       ELSE End(k)
  /\ UNCHANGED faults

\* mutant: the sockets are bound in an order of the server's own
ToBind_OwnOrder(k) ==
  LET left == Range(conn[k].req) \ Range(srv[k].bound) IN
  CHOOSE s \in left : \A u \in left : s >= u

\* the next definition of the list
ToBind(k) == conn[k].req[Len(srv[k].bound) + 1]

Unbound(k) == srv[k].st = "bind" /\ Len(srv[k].bound) < Len(conn[k].req)

Bind(k) ==
  /\ Unbound(k)
  /\ owner[ToBind(k)] = Free
  /\ owner' = [owner EXCEPT ![ToBind(k)] = k]
  /\ srv' = [srv EXCEPT ![k].bound = Append(@, ToBind(k))]
  /\ UNCHANGED <<conn, slots, cli, faults>>

BindFails(k) ==
  /\ Unbound(k)
  /\ owner[ToBind(k)] # Free
  /\ End(k)
  /\ UNCHANGED faults

\* all are bound: the reply, and the end of the server's side
SendOk(k) ==
  /\ srv[k].st = "bind"
  /\ ~Unbound(k)
  /\ conn' = [conn EXCEPT ![k].ok = TRUE]
  /\ srv' = [srv EXCEPT ![k].st = "confirm"]
  /\ UNCHANGED <<owner, slots, cli, faults>>

\* the client's side has ended: the listener tasks are spawned
Confirm(k) ==
  /\ srv[k].st = "confirm"
  /\ Arrives(k)
  /\ conn[k].fin # "no"
  /\ srv' = [srv EXCEPT ![k].st = "serve"]
  /\ UNCHANGED <<conn, owner, slots, cli, faults>>

ServerLost(k) ==
  /\ Active(k)
  /\ Lost(k)
  /\ End(k)
  /\ UNCHANGED faults

\* one aborted listener task drops its socket
Release(s) ==
  \E k \in Conns :
    /\ owner[s] = k
    /\ srv[k].st = "drop"
    /\ owner' = [owner EXCEPT ![s] = Free]
    /\ IF \A t \in Services \ {s} : owner[t] # k
         THEN srv' = [srv EXCEPT ![k] = [st |-> "none", bound |-> <<>>]]
         ELSE UNCHANGED srv
    /\ UNCHANGED <<conn, slots, cli, faults>>

-----------------------------------------------------------------------------
(* What goes wrong *)

Fault == faults < MaxFaults /\ faults' = faults + 1

Cut(k) ==
  /\ Fault
  /\ conn[k].link = "live"
  /\ conn' = [conn EXCEPT ![k].link = "cut"]
  /\ UNCHANGED <<srv, owner, slots, cli>>

\* SETUP or SESSION_LIFETIME elapsed, a listener failed
ServerGivesUp(k) == Fault /\ Active(k) /\ End(k)

\* SETUP or SESSION_LIFETIME elapsed, a destination did not resolve
ClientGivesUp(c) == Fault /\ cli[c].st # "down" /\ Leave(c)

\* the shutdown branch of run: all sessions are aborted, and run is called
\* again with fresh permits; aborted listeners may still hold their sockets
Restart ==
  /\ Fault
  /\ slots' = MaxSessions
  /\ conn' = [k \in Conns |-> Closed(k, HasClient(k))]
  /\ srv' = [k \in Conns |->
               IF srv[k].st \in {"serve", "drop"} THEN [srv[k] EXCEPT !.st = "drop"]
               ELSE [st |-> "none", bound |-> <<>>]]
  /\ owner' = [s \in Services |->
                 IF owner[s] # Free /\ srv'[owner[s]].st = "drop" THEN owner[s] ELSE Free]
  /\ UNCHANGED cli

\* the server process is killed and started again; nobody is told
Crash ==
  /\ Fault
  /\ slots' = MaxSessions
  /\ conn' = [k \in Conns |->
               IF HasClient(k) THEN [conn[k] EXCEPT !.link = IF @ = "live" THEN "cut" ELSE @] ELSE Gone]
  /\ srv' = [k \in Conns |-> [st |-> "none", bound |-> <<>>]]
  /\ owner' = [s \in Services |-> Free]
  /\ UNCHANGED cli

-----------------------------------------------------------------------------

Client(c) ==
  (\E k \in Conns : Connect(c, k)) \/ Register(c) \/ Finish(c) \/ Ready(c) \/ ClientLost(c)

Server(k) ==
  \/ Retry(k) \/ Accept(k) \/ Refuse(k) \/ Established(k) \/ Check(k)
  \/ Bind(k) \/ BindFails(k) \/ SendOk(k) \/ Confirm(k) \/ ServerLost(k)

Next ==
  \/ \E c \in Clients : Client(c) \/ ClientGivesUp(c)
  \/ \E k \in Conns : Server(k) \/ Cut(k) \/ ServerGivesUp(k)
  \/ \E s \in Services : Release(s)
  \/ Restart \/ Crash

Spec == Init /\ [][Next]_vars

\* Every task of the runtime runs again, run retries for ever, and a lost
\* connection is noticed by both ends (a closed one by its CONNECTION_CLOSE, a
\* cut one by the idle timeout).  Nothing makes a fault happen.
FairSpec ==
  /\ Spec
  /\ \A c \in Clients : WF_vars(Client(c))
  /\ \A k \in Conns : WF_vars(Server(k))
  /\ WF_vars(\E s \in Services : Release(s))

-----------------------------------------------------------------------------
(* Properties *)

\* Every permit of `slots` is either available or held by a session that has
\* not ended, after any mixture of timeouts, refusals, losses and restarts.
PermitsConserved ==
  slots >= 0 /\ slots + Cardinality({k \in Conns : Active(k)}) = MaxSessions

\* Registration is all or nothing: a session that serves holds the socket of
\* every service it was asked for, one that failed during setup holds none, and
\* nothing holds the socket of a service outside a checked registration.
AllOrNothing ==
  /\ \A k \in Conns : srv[k].st \in {"confirm", "serve"} =>
       \A s \in Range(conn[k].req) : owner[s] = k
  /\ \A s \in Services : owner[s] # Free =>
       /\ s \in Known
       /\ srv[owner[s]].st \in {"bind", "confirm", "serve", "drop"}

\* The two ends agree on the service numbers: while a client is ready and its
\* server session has not ended, the n-th listener is that of the n-th service
\* of the client's own list; and the server does not serve while its client is
\* still waiting for the connection or for the reply.
EndsAgree ==
  \A c \in Clients : LET k == cli[c].conn IN
    /\ cli[c].st \in {"finish", "ready"} /\ srv[k].st # "none" => srv[k].bound = Offers(c)
    /\ cli[c].st \in {"connect", "register"} => srv[k].st # "serve"

\* What a comment in session says of the wait for the end of the client's side:
\* "Require orderly completion of control request, not abandoned auth streams."
OnlyCompletedServed ==
  \A k \in Conns : srv[k].st = "serve" => conn[k].fin = "finished"

\* A client that is the only one to offer its services, all of them known to the
\* server, is ready in the end, whatever was cut, killed or timed out before:
\* the sockets and the permit of its earlier sessions come back.
ReconnectsInTheEnd ==
  <>[](\A c \in Clients :
         /\ Admissible(Offers(c))
         /\ \A d \in Clients \ {c} : cli[d].services \cap cli[c].services \cap Known = {}
         => cli[c].st = "ready")

\* Clients that compete for services do not keep each other from registering
\* for ever: one of them is ready in the end.
SomeoneServes ==
  <>[]((\A c \in Clients : Admissible(Offers(c))) => \E c \in Clients : cli[c].st = "ready")
=============================================================================
