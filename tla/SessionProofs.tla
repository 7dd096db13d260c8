--------------------------- MODULE SessionProofs ----------------------------
(***************************************************************************)
(* Permits, sockets and service numbers of the sessions, for any number of *)
(* clients, connections, services and faults.                              *)
(***************************************************************************)
EXTENDS Session, FiniteSetTheorems, TLAPS

\* what a registration may list
Lists == {f[c] : f \in Configs, c \in Clients}
Items == UNION {{Sorted[S][i] : i \in 1 .. Cardinality(S)} : S \in Lists}

Links   == {"live", "closed", "cut"}
Streams == [link : Links, valid : BOOLEAN, req : Seq(Items), ok : BOOLEAN,
            fin : {"no", "finished", "dropped"}]
Stages  == {"none", "incoming", "setup", "bind", "confirm", "serve", "drop"}
Steps   == {"down", "connect", "register", "finish", "ready"}
Tasks   == [st : Stages, bound : Seq(Items)]
Ends    == [st : Steps, conn : Conns \cup {Free}, services : Lists]

TypeOK ==
  /\ conn \in [Conns -> Streams]
  /\ srv \in [Conns -> Tasks]
  /\ owner \in [Services -> Conns \cup {Free}]
  /\ slots \in Nat
  /\ cli \in [Clients -> Ends]
  /\ \A c \in Clients : cli[c].st = "down" <=> cli[c].conn = Free

\* the sessions that hold a permit, at most as many as there are
Sessions == {k \in Conns : Active(k)}

Permits == IsFiniteSet(Sessions) /\ slots + Cardinality(Sessions) = MaxSessions

\* a connection has one client
Attached ==
  \A c, d \in Clients : cli[c].conn = cli[d].conn /\ cli[c].conn # Free => c = d

\* What a client knows of its connection: what it has not written is not
\* there, and what it has written stays as long as the client.
ClientView(c) ==
  LET k == cli[c].conn IN
  /\ cli[c].st = "connect" =>
       ~conn[k].ok /\ conn[k].req = <<>> /\ srv[k].st \in {"none", "incoming"}
  /\ cli[c].st \in {"connect", "register"} => conn[k].fin = "no"
  /\ cli[c].st \in {"register", "finish", "ready"} => conn[k].req = Offers(c)
  /\ cli[c].st \in {"finish", "ready"} => conn[k].ok

\* What a session has bound is the beginning of a checked registration; it is
\* all of it once the reply is written, and the client has ended its side
\* before the session serves.
ServerView(k) ==
  /\ srv[k].st \in {"none", "incoming", "setup"} => srv[k].bound = <<>>
  /\ srv[k].st \in {"incoming", "setup", "bind"} => ~conn[k].ok
  /\ srv[k].st \in {"bind", "confirm", "serve"} =>
       /\ Range(conn[k].req) \subseteq Known
       /\ Len(srv[k].bound) <= Len(conn[k].req)
       /\ \A i \in 1 .. Len(srv[k].bound) :
            srv[k].bound[i] = conn[k].req[i] /\ owner[conn[k].req[i]] = k
  /\ srv[k].st \in {"confirm", "serve"} => srv[k].bound = conn[k].req
  /\ srv[k].st = "drop" /\ conn[k].ok => srv[k].bound = conn[k].req
  /\ srv[k].st = "serve" => conn[k].fin # "no"

\* a socket is held for a service of the server, by a session that bound it
Sockets ==
  \A s \in Services : owner[s] # Free =>
    s \in Known /\ srv[owner[s]].st \in {"bind", "confirm", "serve", "drop"}

Views == (\A c \in Clients : ClientView(c)) /\ (\A k \in Conns : ServerView(k))

IInv == TypeOK /\ Permits /\ Attached /\ Views /\ Sockets

-----------------------------------------------------------------------------
(* Facts about the state used by every action *)

\* The list of a client's services is a sequence.
LEMMA OffersType ==
  ASSUME TypeOK, NEW c \in Clients
  PROVE  Offers(c) \in Seq(Items)
<1> DEFINE S == cli[c].services
           n == Cardinality(S)
<1>1. S \in Lists
  BY Zenon DEF TypeOK, Ends
<1>2. PICK f \in Configs, d \in Clients : S = f[d]
  BY <1>1 DEF Lists
<1>3. S \in SUBSET Services /\ n \in Nat
  BY <1>2, SessionAssumption, FS_CardinalityType DEF Services
<1> DEFINE E(i) == CHOOSE x \in S : Cardinality({y \in S : y < x}) = i - 1
<1>4. Sorted[S] = [i \in 1 .. n |-> E(i)]
  BY <1>3, Zenon DEF Sorted
<1> HIDE DEF n, E
<1>5. \A i \in 1 .. n : Sorted[S][i] \in Items
  BY <1>1 DEF Items, n
<1>6. Sorted[S] \in [1 .. n -> Items]
  BY <1>4, <1>5, Zenon
<1> QED
  BY <1>3, <1>6 DEF Offers

\* A client's list is that of its configuration.
LEMMA SameOffers ==
  ASSUME NEW c, cli'[c].services = cli[c].services
  PROVE  Offers(c)' = Offers(c)
BY Zenon DEF Offers

\* Steps that start and end no session keep the permits.
LEMMA SameSessions ==
  ASSUME Permits, slots' = slots, \A k \in Conns : Active(k)' <=> Active(k)
  PROVE  Permits'
<1>1. Sessions' = Sessions
  BY Zenon DEF Sessions
<1> QED
  BY <1>1, Zenon DEF Permits

\* A session that starts takes a permit.
LEMMA SessionStarts ==
  ASSUME Permits, slots \in Nat, NEW k \in Conns, slots' = slots - 1,
         ~Active(k), Active(k)',
         \A j \in Conns \ {k} : Active(j)' <=> Active(j)
  PROVE  Permits'
<1>1. Sessions' = Sessions \cup {k} /\ k \notin Sessions
  BY Zenon DEF Sessions
<1>2. IsFiniteSet(Sessions') /\ Cardinality(Sessions') = Cardinality(Sessions) + 1
  BY <1>1, FS_AddElement, Zenon DEF Permits
<1>3. Cardinality(Sessions) \in Nat
  BY FS_CardinalityType, Zenon DEF Permits
<1> QED
  BY <1>2, <1>3 DEF Permits

\* A session that ends gives its permit back.
LEMMA SessionEnds ==
  ASSUME Permits, slots \in Nat, NEW k \in Conns, slots' = slots + 1,
         Active(k), ~Active(k)',
         \A j \in Conns \ {k} : Active(j)' <=> Active(j)
  PROVE  Permits'
<1>1. Sessions' = Sessions \ {k} /\ k \in Sessions
  BY Zenon DEF Sessions
<1>2. IsFiniteSet(Sessions') /\ Cardinality(Sessions') = Cardinality(Sessions) - 1
  BY <1>1, FS_RemoveElement, Zenon DEF Permits
<1>3. Cardinality(Sessions) \in Nat
  BY FS_CardinalityType, Zenon DEF Permits
<1> QED
  BY <1>2, <1>3 DEF Permits

\* No session is left, and the permits are new.
LEMMA NoSessions ==
  ASSUME slots' = MaxSessions, \A k \in Conns : ~Active(k)'
  PROVE  Permits'
<1>1. Sessions' = {}
  BY Zenon DEF Sessions
<1> QED
  BY <1>1, FS_EmptySet, SessionAssumption DEF Permits

-----------------------------------------------------------------------------
(* What a step does to one client, one stream or one session *)

ClientGoes(c, st, k) ==
  /\ cli' \in [Clients -> Ends]
  /\ cli'[c].st = st /\ cli'[c].conn = k /\ cli'[c].services = cli[c].services
  /\ \A d \in Clients \ {c} : cli'[d] = cli[d]

StreamGoes(k, req, ok, fin) ==
  /\ conn' \in [Conns -> Streams]
  /\ conn'[k].req = req /\ (conn'[k].ok <=> ok) /\ conn'[k].fin = fin
  /\ \A j \in Conns \ {k} : conn'[j] = conn[j]

SessionGoes(k, st, bound) ==
  /\ srv' \in [Conns -> Tasks]
  /\ srv'[k].st = st /\ srv'[k].bound = bound
  /\ \A j \in Conns \ {k} : srv'[j] = srv[j]

\* the registration is as it was
Keeps(k) ==
  /\ conn'[k].req = conn[k].req
  /\ conn'[k].ok <=> conn[k].ok
  /\ conn'[k].fin = conn[k].fin

\* A client that does not move keeps its view if the registration stays and a
\* session that has not read it still has not.
LEMMA ClientKeeps ==
  ASSUME Views, NEW c \in Clients, cli'[c] = cli[c],
         cli[c].st # "down" =>
           /\ Keeps(cli[c].conn)
           /\ srv[cli[c].conn].st \in {"none", "incoming"} =>
                srv'[cli[c].conn].st \in {"none", "incoming"},
         cli[c].st \in Steps
  PROVE  ClientView(c)'
<1>1. Offers(c)' = Offers(c)
  BY SameOffers, Zenon
<1> QED
  BY <1>1, Zenon DEF Views, ClientView, Keeps, Steps

\* A session that does not move keeps its view if the registration stays and
\* none of its sockets goes.
LEMMA SessionKeeps ==
  ASSUME Views, NEW k \in Conns, srv'[k] = srv[k], Keeps(k), TypeOK,
         \A s \in Services : owner[s] = k => owner'[s] = k
  PROVE  ServerView(k)'
<1>1. ServerView(k) /\ srv[k] \in Tasks /\ conn[k] \in Streams
  BY Zenon DEF Views, TypeOK
<1>2. ASSUME srv[k].st \in {"bind", "confirm", "serve"}, NEW i \in 1 .. Len(srv[k].bound)
      PROVE  owner'[conn[k].req[i]] = k
  <2>1. owner[conn[k].req[i]] = k /\ i \in 1 .. Len(conn[k].req)
    BY <1>1, <1>2 DEF ServerView, Tasks, Streams
  <2>2. conn[k].req[i] \in Services
    BY <2>1, <1>1, <1>2 DEF ServerView, Range, Services, Streams
  <2> QED
    BY <2>1, <2>2, Zenon
<1> QED
  BY <1>1, <1>2, Zenon DEF ServerView, Keeps

\* A client that moves on its connection leaves the others alone.
LEMMA OtherClients ==
  ASSUME TypeOK, Attached, Views, NEW c \in Clients, NEW k \in Conns,
         cli[c].conn = k \/ \A d \in Clients : cli[d].conn # k,
         \A d \in Clients \ {c} : cli'[d] = cli[d],
         \A j \in Conns \ {k} : Keeps(j) /\ srv'[j] = srv[j],
         NEW d \in Clients \ {c}
  PROVE  ClientView(d)'
<1>1. cli[d] \in Ends /\ cli'[d] = cli[d]
  BY Zenon DEF TypeOK
<1>2. cli[d].conn # k
  BY SessionAssumption, Zenon DEF Attached
<1>3. cli[d].st # "down" => cli[d].conn \in Conns \ {k}
  BY <1>1, <1>2, Zenon DEF TypeOK, Ends
<1> QED
  BY <1>1, <1>3, ClientKeeps, Zenon DEF Ends

-----------------------------------------------------------------------------
(* The client's steps *)

LEMMA ConnectStep ==
  ASSUME IInv, NEW c \in Clients, NEW k \in Conns, Connect(c, k)
  PROVE  IInv'
<1> USE DEF IInv
<1>1. /\ k \in Unused
      /\ cli' = [cli EXCEPT ![c].st = "connect", ![c].conn = k]
      /\ conn' = [conn EXCEPT ![k] = Attempt]
      /\ UNCHANGED <<srv, owner, slots>>
  BY Zenon DEF Connect
<1>2. k # Free /\ srv[k].st = "none" /\ \A d \in Clients : cli[d].conn # k
  BY <1>1, SessionAssumption, Zenon DEF Unused, HasClient
<1>3. ClientGoes(c, "connect", k)
  BY <1>1, <1>2, Zenon DEF TypeOK, ClientGoes, Ends, Steps
<1>4. Attempt \in Streams /\ Attempt.req = <<>> /\ Attempt.ok = FALSE /\ Attempt.fin = "no"
  BY DEF Attempt, Streams, Links
<1>5. StreamGoes(k, <<>>, FALSE, "no")
  BY <1>1, <1>4, Zenon DEF TypeOK, StreamGoes
<1>6. TypeOK'
  BY <1>1, <1>2, <1>3, <1>5, Zenon DEF TypeOK, ClientGoes, StreamGoes
<1>7. Permits'
  BY <1>1, SameSessions, Zenon DEF Active
<1>8. Attached'
  BY <1>2, <1>3 DEF Attached, ClientGoes
<1>9. \A j \in Conns \ {k} : Keeps(j) /\ srv'[j] = srv[j]
  BY <1>1, <1>5, Zenon DEF StreamGoes, Keeps
<1>10. ClientView(c)'
  BY <1>1, <1>2, <1>3, <1>5, Zenon DEF ClientView, ClientGoes, StreamGoes
<1>11. \A d \in Clients \ {c} : ClientView(d)'
  BY <1>2, <1>3, <1>9, OtherClients, Zenon DEF ClientGoes
<1>12. ServerView(k)'
  BY <1>1, <1>2, Zenon DEF ServerView, Views
<1>13. \A j \in Conns \ {k} : ServerView(j)'
  BY <1>1, <1>9, SessionKeeps, Zenon
<1>14. Sockets'
  BY <1>1, Zenon DEF Sockets
<1> QED
  BY <1>6, <1>7, <1>8, <1>10, <1>11, <1>12, <1>13, <1>14, Zenon DEF Views

LEMMA RegisterStep ==
  ASSUME IInv, NEW c \in Clients, Register(c)
  PROVE  IInv'
<1> USE DEF IInv
<1>0. PICK k \in Conns : k = cli[c].conn /\ k # Free
  BY SessionAssumption, Zenon DEF Register, TypeOK, Ends
<1>1. /\ cli[c].st = "connect" /\ srv[k].st = "incoming"
      /\ cli' = [cli EXCEPT ![c].st = "register"]
      /\ conn' = [conn EXCEPT ![k].req = Offers(c)]
      /\ UNCHANGED <<srv, owner, slots>>
  BY <1>0, Zenon DEF Register
<1>2. cli[c] \in Ends /\ conn[k] \in Streams
  BY Zenon DEF TypeOK
<1>3. ClientGoes(c, "register", k)
  BY <1>0, <1>1, Zenon DEF TypeOK, ClientGoes, Ends, Steps
<1>4. StreamGoes(k, Offers(c), FALSE, "no")
  <2>1. conn[k].ok = FALSE /\ conn[k].fin = "no"
    BY <1>1, <1>0, <1>2, Zenon DEF Views, ClientView, Streams
  <2>2. Offers(c) \in Seq(Items)
    BY OffersType, Zenon
  <2> DEFINE r == [conn[k] EXCEPT !.req = Offers(c)]
  <2>3. r \in Streams /\ r.req = Offers(c) /\ r.ok = FALSE /\ r.fin = "no"
    BY <1>2, <2>1, <2>2, Zenon DEF Streams
  <2>4. conn' = [conn EXCEPT ![k] = r]
    BY <1>1, Zenon
  <2> HIDE DEF r
  <2> QED
    BY <2>3, <2>4, Zenon DEF TypeOK, StreamGoes
<1>5. TypeOK'
  BY <1>1, <1>0, <1>2, <1>3, <1>4, Zenon DEF TypeOK, ClientGoes, StreamGoes
<1>6. Permits'
  BY <1>1, SameSessions, Zenon DEF Active
<1>7. Attached'
  BY <1>0, <1>2, <1>3 DEF Attached, ClientGoes
<1>8. \A j \in Conns \ {k} : Keeps(j) /\ srv'[j] = srv[j]
  BY <1>1, <1>4, Zenon DEF StreamGoes, Keeps
<1>9. ClientView(c)'
  <2>1. Offers(c)' = Offers(c)
    BY <1>3, SameOffers, Zenon DEF ClientGoes
  <2> QED
    BY <2>1, <1>3, <1>4, Zenon DEF ClientView, ClientGoes, StreamGoes
<1>10. \A d \in Clients \ {c} : ClientView(d)'
  BY <1>0, <1>3, <1>8, OtherClients, SMTT(20) DEF ClientGoes
<1>11. ServerView(k)'
  BY <1>1, <1>0, <1>2, <1>4, Zenon DEF ServerView, Views, StreamGoes
<1>12. \A j \in Conns \ {k} : ServerView(j)'
  BY <1>1, <1>8, SessionKeeps, Zenon
<1>13. Sockets'
  BY <1>1, Zenon DEF Sockets
<1> QED
  BY <1>5, <1>6, <1>7, <1>9, <1>10, <1>11, <1>12, <1>13, Zenon DEF Views

LEMMA FinishStep ==
  ASSUME IInv, NEW c \in Clients, Finish(c)
  PROVE  IInv'
<1> USE DEF IInv
<1>0. PICK k \in Conns : k = cli[c].conn /\ k # Free
  BY SessionAssumption, Zenon DEF Finish, TypeOK, Ends
<1>1. /\ cli[c].st = "register" /\ conn[k].ok
      /\ cli' = [cli EXCEPT ![c].st = "finish"]
      /\ conn' = [conn EXCEPT ![k].fin = "finished"]
      /\ UNCHANGED <<srv, owner, slots>>
  BY <1>0, Zenon DEF Finish
<1>2. cli[c] \in Ends /\ conn[k] \in Streams
  BY Zenon DEF TypeOK
<1>3. ClientGoes(c, "finish", k)
  BY <1>0, <1>1, Zenon DEF TypeOK, ClientGoes, Ends, Steps
<1>4. StreamGoes(k, conn[k].req, TRUE, "finished")
  <2> DEFINE r == [conn[k] EXCEPT !.fin = "finished"]
  <2>1. r \in Streams /\ r.req = conn[k].req /\ r.ok = TRUE /\ r.fin = "finished"
    BY <1>1, <1>2, Zenon DEF Streams
  <2>2. conn' = [conn EXCEPT ![k] = r]
    BY <1>1, Zenon
  <2> HIDE DEF r
  <2> QED
    BY <2>1, <2>2, Zenon DEF TypeOK, StreamGoes
<1>5. TypeOK'
  BY <1>1, <1>0, <1>2, <1>3, <1>4, Zenon DEF TypeOK, ClientGoes, StreamGoes
<1>6. Permits'
  BY <1>1, SameSessions, Zenon DEF Active
<1>7. Attached'
  BY <1>0, <1>2, <1>3 DEF Attached, ClientGoes
<1>8. \A j \in Conns \ {k} : Keeps(j) /\ srv'[j] = srv[j]
  BY <1>1, <1>4, Zenon DEF StreamGoes, Keeps
<1>9. ClientView(c)'
  <2>1. Offers(c)' = Offers(c) /\ ClientView(c)
    BY <1>3, SameOffers, Zenon DEF ClientGoes, Views
  <2> QED
    BY <2>1, <1>0, <1>1, <1>3, <1>4 DEF ClientView, ClientGoes, StreamGoes
<1>10. \A d \in Clients \ {c} : ClientView(d)'
  BY <1>0, <1>3, <1>8, OtherClients, SMTT(20) DEF ClientGoes
<1>11. ServerView(k)'
  BY <1>1, <1>0, <1>2, <1>4 DEF ServerView, Views, StreamGoes
<1>12. \A j \in Conns \ {k} : ServerView(j)'
  BY <1>1, <1>8, SessionKeeps, Zenon
<1>13. Sockets'
  BY <1>1, Zenon DEF Sockets
<1> QED
  BY <1>5, <1>6, <1>7, <1>9, <1>10, <1>11, <1>12, <1>13, Zenon DEF Views

LEMMA ReadyStep ==
  ASSUME IInv, NEW c \in Clients, Ready(c)
  PROVE  IInv'
<1> USE DEF IInv
<1>1. /\ cli[c].st = "finish"
      /\ cli' = [cli EXCEPT ![c].st = "ready"]
      /\ UNCHANGED <<conn, srv, owner, slots>>
  BY Zenon DEF Ready
<1>2. ClientGoes(c, "ready", cli[c].conn)
  BY <1>1, Zenon DEF TypeOK, ClientGoes, Ends, Steps
<1>3. TypeOK'
  BY <1>1, <1>2, Zenon DEF TypeOK, ClientGoes
<1>4. Permits'
  BY <1>1, SameSessions, Zenon DEF Active
<1>5. Attached'
  BY <1>2 DEF Attached, ClientGoes
<1>6. \A j \in Conns : Keeps(j)
  BY <1>1, Zenon DEF Keeps
<1>7. ClientView(c)'
  <2>1. Offers(c)' = Offers(c) /\ ClientView(c)
    BY <1>2, SameOffers, Zenon DEF ClientGoes, Views
  <2> QED
    BY <2>1, <1>1, <1>2, Zenon DEF ClientView, ClientGoes
<1>8. ASSUME NEW d \in Clients \ {c} PROVE ClientView(d)'
  <2>1. cli'[d] = cli[d] /\ cli[d] \in Ends
    BY <1>2, Zenon DEF ClientGoes, TypeOK
  <2>2. cli[d].st # "down" => cli[d].conn \in Conns
    BY <2>1, Zenon DEF TypeOK, Ends
  <2> QED
    BY <2>1, <2>2, <1>1, <1>6, ClientKeeps, Zenon DEF Ends
<1>9. \A j \in Conns : ServerView(j)'
  BY <1>1, <1>6, SessionKeeps, Zenon
<1>10. Sockets'
  BY <1>1, Zenon DEF Sockets
<1> QED
  BY <1>3, <1>4, <1>5, <1>7, <1>8, <1>9, <1>10, Zenon DEF Views

\* Closing a connection leaves the registration to the other end, if there is one.
LEMMA ClosedStream ==
  ASSUME TypeOK, NEW k \in Conns, NEW b \in BOOLEAN
  PROVE  /\ Closed(k, b) \in Streams
         /\ b => /\ Closed(k, b).req = conn[k].req
                 /\ Closed(k, b).ok = conn[k].ok
                 /\ Closed(k, b).fin = conn[k].fin
         /\ ~b => Closed(k, b).req = <<>> /\ ~Closed(k, b).ok /\ Closed(k, b).fin = "no"
<1>1. conn[k] \in Streams
  BY Zenon DEF TypeOK
<1>2. CASE b
  BY <1>1, <1>2, Zenon DEF Closed, Streams, Links
<1>3. CASE ~b
  <2>1. Closed(k, b) = Gone
    BY <1>3, Zenon DEF Closed
  <2>2. Gone \in Streams /\ Gone.req = <<>> /\ ~Gone.ok /\ Gone.fin = "no"
    BY DEF Gone, Streams, Links
  <2> QED
    BY <2>1, <2>2, <1>3, Zenon
<1> QED
  BY <1>2, <1>3, Zenon

LEMMA LeaveStep ==
  ASSUME IInv, NEW c \in Clients, cli[c].st # "down", Leave(c)
  PROVE  IInv'
<1> USE DEF IInv
<1>1. PICK k \in Conns : k = cli[c].conn /\ k # Free
  BY SessionAssumption, Zenon DEF TypeOK, Ends
<1>2. PICK r \in Left(c) :
        /\ cli' = [cli EXCEPT ![c].st = "down", ![c].conn = Free]
        /\ conn' = [conn EXCEPT ![k] = r]
        /\ UNCHANGED <<srv, owner, slots>>
  BY <1>1, Zenon DEF Leave
<1>3. /\ r \in Streams
      /\ Active(k) => /\ r.req = conn[k].req /\ r.ok = conn[k].ok
                      /\ r.fin \in {conn[k].fin, "dropped"}
      /\ ~Active(k) => ~r.ok
  <2> DEFINE q == Closed(k, Active(k))
  <2>1. Active(k) \in BOOLEAN
    BY Zenon DEF Active
  <2>2. /\ q \in Streams
        /\ Active(k) => q.req = conn[k].req /\ q.ok = conn[k].ok /\ q.fin = conn[k].fin
        /\ ~Active(k) => ~q.ok
    BY <2>1, ClosedStream, Zenon
  <2>3. r = q \/ (Active(k) /\ r = [q EXCEPT !.fin = "dropped"])
    BY <1>1, <1>2, Zenon DEF Left
  <2> HIDE DEF q
  <2> QED
    BY <2>2, <2>3, Zenon DEF Streams
<1>4. ClientGoes(c, "down", Free)
  BY <1>2, Zenon DEF TypeOK, ClientGoes, Ends, Steps
<1>5. StreamGoes(k, r.req, r.ok, r.fin)
  BY <1>2, <1>3, Zenon DEF TypeOK, StreamGoes
<1>6. TypeOK'
  BY <1>2, <1>4, <1>5, Zenon DEF TypeOK, ClientGoes, StreamGoes
<1>7. Permits'
  BY <1>2, SameSessions, Zenon DEF Active
<1>8. Attached'
  BY <1>4 DEF Attached, ClientGoes
<1>9. \A j \in Conns \ {k} : Keeps(j) /\ srv'[j] = srv[j]
  BY <1>2, <1>5, Zenon DEF StreamGoes, Keeps
<1>10. ClientView(c)'
  BY <1>4, Zenon DEF ClientView, ClientGoes
<1>11. \A d \in Clients \ {c} : ClientView(d)'
  BY <1>1, <1>4, <1>9, OtherClients, Zenon DEF ClientGoes
<1>12. ServerView(k)'
  <2>1. ServerView(k) /\ srv'[k] = srv[k] /\ owner' = owner /\ srv[k] \in Tasks
    BY <1>2, Zenon DEF Views, TypeOK
  <2>2. CASE Active(k)
    BY <2>1, <2>2, <1>3, <1>5 DEF ServerView, StreamGoes, Active
  <2>3. CASE ~Active(k)
    BY <2>1, <2>3, <1>3, <1>5, Zenon DEF ServerView, StreamGoes, Active
  <2> QED
    BY <2>2, <2>3, Zenon
<1>13. \A j \in Conns \ {k} : ServerView(j)'
  BY <1>2, <1>9, SessionKeeps, Zenon
<1>14. Sockets'
  BY <1>2, Zenon DEF Sockets
<1> QED
  BY <1>6, <1>7, <1>8, <1>10, <1>11, <1>12, <1>13, <1>14, Zenon DEF Views

-----------------------------------------------------------------------------
(* The server's steps *)

\* No client moves: each keeps its view if its registration stays.
LEMMA ClientsStay ==
  ASSUME TypeOK, Views, cli' = cli,
         \A d \in Clients : cli[d].st # "down" =>
           /\ Keeps(cli[d].conn)
           /\ srv[cli[d].conn].st \in {"none", "incoming"} =>
                srv'[cli[d].conn].st \in {"none", "incoming"}
  PROVE  \A d \in Clients : ClientView(d)'
<1> SUFFICES ASSUME NEW d \in Clients PROVE ClientView(d)'
  BY Zenon
<1>1. cli'[d] = cli[d] /\ cli[d].st \in Steps
  BY Zenon DEF TypeOK, Ends
<1> QED
  BY <1>1, ClientKeeps, Zenon

\* the connection of a client that is not down
LEMMA ClientConn ==
  ASSUME TypeOK, NEW d \in Clients, cli[d].st # "down"
  PROVE  cli[d].conn \in Conns
BY Zenon DEF TypeOK, Ends

\* A session moves on without touching its stream or a socket.
MovesOn(k, st) ==
  /\ srv' = [srv EXCEPT ![k].st = st]
  /\ UNCHANGED <<conn, owner, cli>>

LEMMA MovesOnGoes ==
  ASSUME TypeOK, NEW k \in Conns, NEW st \in Stages, MovesOn(k, st)
  PROVE  SessionGoes(k, st, srv[k].bound) /\ conn' = conn /\ owner' = owner /\ cli' = cli
<1> DEFINE r == [srv[k] EXCEPT !.st = st]
<1>1. srv[k] \in Tasks
  BY Zenon DEF TypeOK
<1>2. r \in Tasks /\ r.st = st /\ r.bound = srv[k].bound
  BY <1>1, Zenon DEF Tasks
<1>3. srv' = [srv EXCEPT ![k] = r]
  BY Zenon DEF MovesOn
<1> HIDE DEF r
<1>4. SessionGoes(k, st, srv[k].bound)
  BY <1>2, <1>3, Zenon DEF TypeOK, SessionGoes
<1> QED
  BY <1>4, Zenon DEF MovesOn

LEMMA MovesOnStep ==
  ASSUME IInv, NEW k \in Conns, NEW st \in Stages, MovesOn(k, st),
         srv[k].st \in {"none", "incoming"} =>
           st \in {"none", "incoming"} \/ \A d \in Clients : cli[d].conn = k => cli[d].st # "connect",
         Permits', slots' \in Nat, ServerView(k)',
         srv[k].st \in {"bind", "confirm", "serve", "drop"} =>
           st \in {"bind", "confirm", "serve", "drop"}
  PROVE  IInv'
<1> USE DEF IInv
<1>1. SessionGoes(k, st, srv[k].bound) /\ conn' = conn /\ owner' = owner /\ cli' = cli
  BY MovesOnGoes, Zenon
<1>2. TypeOK'
  BY <1>1, Zenon DEF TypeOK, SessionGoes
<1>3. Attached'
  BY <1>1, Zenon DEF Attached
<1>4. \A j \in Conns : Keeps(j)
  BY <1>1, Zenon DEF Keeps
<1>5. ASSUME NEW d \in Clients PROVE ClientView(d)'
  <2>1. Offers(d)' = Offers(d) /\ ClientView(d)
    BY <1>1, SameOffers, Zenon DEF Views
  <2>2. cli[d].st = "connect" => srv'[cli[d].conn].st \in {"none", "incoming"}
    BY <2>1, <1>1, ClientConn, Zenon DEF ClientView, SessionGoes
  <2> QED
    BY <2>1, <2>2, <1>1, Zenon DEF ClientView
<1>6. \A j \in Conns \ {k} : ServerView(j)'
  BY <1>1, <1>4, SessionKeeps, Zenon DEF SessionGoes
<1>7. Sockets'
  BY <1>1, Zenon DEF Sockets, SessionGoes, TypeOK
<1> QED
  BY <1>2, <1>3, <1>5, <1>6, <1>7, Zenon DEF Views

LEMMA AcceptStep ==
  ASSUME IInv, NEW k \in Conns, Accept(k)
  PROVE  IInv'
<1> USE DEF IInv
<1>1. /\ srv[k].st = "none" /\ slots > 0 /\ slots' = slots - 1
      /\ MovesOn(k, "incoming") /\ Connecting(k)
  BY Zenon DEF Accept, Incoming, MovesOn
<1>2. SessionGoes(k, "incoming", srv[k].bound) /\ conn' = conn /\ owner' = owner /\ cli' = cli
  BY <1>1, MovesOnGoes, Zenon DEF Stages
<1>3. Permits' /\ slots' \in Nat
  <2>1. slots \in Nat /\ slots' \in Nat
    BY <1>1 DEF TypeOK
  <2> QED
    BY <2>1, <1>1, <1>2, SessionStarts, Zenon DEF Active, SessionGoes
<1>4. ~conn[k].ok
  BY <1>1, Zenon DEF Connecting, Views, ClientView
<1>5. ServerView(k)'
  BY <1>1, <1>2, <1>4, Zenon DEF ServerView, Views, SessionGoes
<1> QED
  BY <1>1, <1>3, <1>5, MovesOnStep, Zenon DEF Stages

LEMMA EstablishedStep ==
  ASSUME IInv, NEW k \in Conns, Established(k)
  PROVE  IInv'
<1> USE DEF IInv
<1>1. srv[k].st = "incoming" /\ conn[k].req # <<>> /\ slots' = slots /\ MovesOn(k, "setup")
  BY Zenon DEF Established, MovesOn
<1>2. SessionGoes(k, "setup", srv[k].bound) /\ conn' = conn /\ owner' = owner /\ cli' = cli
  BY <1>1, MovesOnGoes, Zenon DEF Stages
<1>3. Permits' /\ slots' \in Nat
  BY <1>1, <1>2, SameSessions, Zenon DEF Active, SessionGoes, TypeOK
<1>4. \A d \in Clients : cli[d].conn = k => cli[d].st # "connect"
  BY <1>1, Zenon DEF Views, ClientView
<1>5. ServerView(k)'
  BY <1>1, <1>2, Zenon DEF ServerView, Views, SessionGoes
<1> QED
  BY <1>1, <1>3, <1>4, <1>5, MovesOnStep, Zenon DEF Stages

LEMMA ConfirmStep ==
  ASSUME IInv, NEW k \in Conns, Confirm(k)
  PROVE  IInv'
<1> USE DEF IInv
<1>1. srv[k].st = "confirm" /\ conn[k].fin # "no" /\ slots' = slots /\ MovesOn(k, "serve")
  BY Zenon DEF Confirm, MovesOn
<1>2. SessionGoes(k, "serve", srv[k].bound) /\ conn' = conn /\ owner' = owner /\ cli' = cli
  BY <1>1, MovesOnGoes, Zenon DEF Stages
<1>3. Permits' /\ slots' \in Nat
  BY <1>1, <1>2, SameSessions, Zenon DEF Active, SessionGoes, TypeOK
<1>4. ServerView(k)'
  BY <1>1, <1>2, Zenon DEF ServerView, Views, SessionGoes
<1> QED
  BY <1>1, <1>3, <1>4, MovesOnStep, Zenon DEF Stages

\* The registration passes the check: nothing is bound yet.
LEMMA AdmitStep ==
  ASSUME IInv, NEW k \in Conns, srv[k].st = "setup", Admissible(conn[k].req),
         MovesOn(k, "bind"), slots' = slots
  PROVE  IInv'
<1> USE DEF IInv
<1>1. SessionGoes(k, "bind", srv[k].bound) /\ conn' = conn /\ owner' = owner /\ cli' = cli
  BY MovesOnGoes, Zenon DEF Stages
<1>2. Permits' /\ slots' \in Nat
  BY <1>1, SameSessions, Zenon DEF Active, SessionGoes, TypeOK
<1>3. ServerView(k)'
  <2>1. srv[k].bound = <<>> /\ ~conn[k].ok /\ conn[k] \in Streams
    BY Zenon DEF Views, ServerView, TypeOK
  <2>2. Len(srv[k].bound) = 0 /\ Len(conn[k].req) \in Nat
    BY <2>1 DEF Streams
  <2>3. Len(srv[k].bound) <= Len(conn[k].req) /\ 1 .. Len(srv[k].bound) = {}
    BY <2>2
  <2> QED
    BY <2>1, <2>3, <1>1, Zenon DEF ServerView, SessionGoes, Admissible
<1> QED
  BY <1>2, <1>3, MovesOnStep, Zenon DEF Stages

\* Only the state of the links changes.
LEMMA LinksStep ==
  ASSUME IInv, conn' \in [Conns -> Streams], \A j \in Conns : Keeps(j),
         UNCHANGED <<srv, owner, slots, cli>>
  PROVE  IInv'
<1> USE DEF IInv
<1>1. TypeOK'
  BY Zenon DEF TypeOK
<1>2. Permits'
  BY SameSessions, Zenon DEF Active
<1>3. Attached' /\ Sockets'
  BY Zenon DEF Attached, Sockets
<1>4. \A d \in Clients : ClientView(d)'
  BY ClientsStay, ClientConn, Zenon
<1>5. \A j \in Conns : ServerView(j)'
  BY SessionKeeps, Zenon
<1> QED
  BY <1>1, <1>2, <1>3, <1>4, <1>5, Zenon DEF Views

LEMMA RetryStep ==
  ASSUME IInv, NEW k \in Conns, Retry(k)
  PROVE  IInv'
<1> DEFINE r == [conn[k] EXCEPT !.valid = TRUE]
<1>1. conn' = [conn EXCEPT ![k] = r] /\ UNCHANGED <<srv, owner, slots, cli>>
  BY Zenon DEF Retry
<1>2. TypeOK /\ conn[k] \in Streams
  BY Zenon DEF IInv, TypeOK
<1>3. r \in Streams /\ r.req = conn[k].req /\ r.ok = conn[k].ok /\ r.fin = conn[k].fin
  BY <1>2, Zenon DEF Streams
<1> HIDE DEF r
<1>4. conn' \in [Conns -> Streams] /\ \A j \in Conns : Keeps(j)
  BY <1>1, <1>2, <1>3, Zenon DEF TypeOK, Keeps
<1> QED
  BY <1>1, <1>4, LinksStep, Zenon

LEMMA RefuseStep ==
  ASSUME IInv, NEW k \in Conns, Refuse(k)
  PROVE  IInv'
<1> DEFINE r == Closed(k, TRUE)
<1>1. conn' = [conn EXCEPT ![k] = r] /\ UNCHANGED <<srv, owner, slots, cli>>
  BY Zenon DEF Refuse
<1>2. TypeOK /\ conn[k] \in Streams
  BY Zenon DEF IInv, TypeOK
<1>3. r \in Streams /\ r.req = conn[k].req /\ r.ok = conn[k].ok /\ r.fin = conn[k].fin
  BY <1>2, Zenon DEF Closed, Streams, Links
<1> HIDE DEF r
<1>4. conn' \in [Conns -> Streams] /\ \A j \in Conns : Keeps(j)
  BY <1>1, <1>2, <1>3, Zenon DEF TypeOK, Keeps
<1> QED
  BY <1>1, <1>4, LinksStep, Zenon

LEMMA CutStep ==
  ASSUME IInv, NEW k \in Conns, Cut(k)
  PROVE  IInv'
<1> DEFINE r == [conn[k] EXCEPT !.link = "cut"]
<1>1. conn' = [conn EXCEPT ![k] = r] /\ UNCHANGED <<srv, owner, slots, cli>>
  BY Zenon DEF Cut
<1>2. TypeOK /\ conn[k] \in Streams
  BY Zenon DEF IInv, TypeOK
<1>3. r \in Streams /\ r.req = conn[k].req /\ r.ok = conn[k].ok /\ r.fin = conn[k].fin
  BY <1>2, Zenon DEF Streams, Links
<1> HIDE DEF r
<1>4. conn' \in [Conns -> Streams] /\ \A j \in Conns : Keeps(j)
  BY <1>1, <1>2, <1>3, Zenon DEF TypeOK, Keeps
<1> QED
  BY <1>1, <1>4, LinksStep, Zenon

\* A session ends: its permit is back, a client of its keeps what was written,
\* and its sockets are free or on their way.
LEMMA EndStep ==
  ASSUME IInv, NEW k \in Conns, Active(k), End(k)
  PROVE  IInv'
<1> USE DEF IInv
<1>1. /\ slots' = slots + 1 /\ cli' = cli
      /\ conn' = [conn EXCEPT ![k] = Closed(k, HasClient(k))]
  BY Zenon DEF End, PermitBack
<1>2. /\ conn' \in [Conns -> Streams]
      /\ \A j \in Conns \ {k} : conn'[j] = conn[j]
      /\ HasClient(k) => Keeps(k)
      /\ ~HasClient(k) => ~conn'[k].ok
  <2> DEFINE r == Closed(k, HasClient(k))
  <2>1. HasClient(k) \in BOOLEAN
    BY Zenon DEF HasClient
  <2>2. /\ r \in Streams
        /\ HasClient(k) => r.req = conn[k].req /\ r.ok = conn[k].ok /\ r.fin = conn[k].fin
        /\ ~HasClient(k) => ~r.ok
    BY <2>1, ClosedStream, Zenon
  <2> HIDE DEF r
  <2> QED
    BY <1>1, <2>2, Zenon DEF TypeOK, Keeps, r
<1>3. \/ srv[k].st = "serve" /\ SessionGoes(k, "drop", srv[k].bound) /\ owner' = owner
      \/ srv[k].st # "serve" /\ SessionGoes(k, "none", <<>>) /\ owner' = SocketsBack(k)
  <2>1. CASE srv[k].st = "serve"
    <3> DEFINE r == [srv[k] EXCEPT !.st = "drop"]
    <3>1. srv' = [srv EXCEPT ![k] = r] /\ owner' = owner
      BY <2>1, Zenon DEF End
    <3>2. srv[k] \in Tasks
      BY Zenon DEF TypeOK
    <3>3. r \in Tasks /\ r.st = "drop" /\ r.bound = srv[k].bound
      BY <3>2, Zenon DEF Tasks, Stages
    <3> HIDE DEF r
    <3> QED
      BY <2>1, <3>1, <3>3, Zenon DEF TypeOK, SessionGoes
  <2>2. CASE srv[k].st # "serve"
    <3> DEFINE r == [st |-> "none", bound |-> <<>>]
    <3>1. srv' = [srv EXCEPT ![k] = r] /\ owner' = SocketsBack(k)
      BY <2>2, Zenon DEF End
    <3>2. r \in Tasks /\ r.st = "none" /\ r.bound = <<>>
      BY DEF Tasks, Stages
    <3> HIDE DEF r
    <3> QED
      BY <2>2, <3>1, <3>2, Zenon DEF TypeOK, SessionGoes
  <2> QED
    BY <2>1, <2>2, Zenon
<1>4. /\ srv' \in [Conns -> Tasks] /\ srv'[k].st \in {"none", "drop"}
      /\ \A j \in Conns \ {k} : srv'[j] = srv[j]
  BY <1>3, Zenon DEF SessionGoes
<1>5. /\ owner' \in [Services -> Conns \cup {Free}]
      /\ \A s \in Services : owner[s] # k => owner'[s] = owner[s]
      /\ \A s \in Services : owner'[s] # Free => owner'[s] = owner[s]
      /\ srv[k].st # "serve" => \A s \in Services : owner'[s] # k
  BY <1>3, SessionAssumption, Zenon DEF SocketsBack, TypeOK
<1>6. TypeOK'
  BY <1>1, <1>2, <1>4, <1>5 DEF TypeOK
<1>7. Permits'
  BY <1>1, <1>4, SessionEnds, Zenon DEF Active, TypeOK
<1>8. Attached'
  BY <1>1, Zenon DEF Attached
<1>9. \A d \in Clients : ClientView(d)'
  <2>1. ASSUME NEW d \in Clients, cli[d].st # "down"
        PROVE  /\ Keeps(cli[d].conn)
               /\ srv[cli[d].conn].st \in {"none", "incoming"} =>
                    srv'[cli[d].conn].st \in {"none", "incoming"}
    <3>1. cli[d].conn \in Conns
      BY <2>1, ClientConn, Zenon
    <3>2. CASE cli[d].conn = k
      BY <3>2, <1>2, <1>3, Zenon DEF HasClient, SessionGoes
    <3>3. CASE cli[d].conn # k
      BY <3>1, <3>3, <1>2, <1>4, Zenon DEF Keeps
    <3> QED
      BY <3>2, <3>3, Zenon
  <2> QED
    BY <2>1, <1>1, ClientsStay, Zenon
<1>10. ServerView(k)'
  <2>1. ServerView(k)
    BY Zenon DEF Views
  <2>2. CASE srv[k].st = "serve"
    BY <2>1, <2>2, <1>2, <1>3, SMTT(20) DEF ServerView, SessionGoes, Keeps
  <2>3. CASE srv[k].st # "serve"
    BY <2>3, <1>3, Zenon DEF ServerView, SessionGoes
  <2> QED
    BY <2>2, <2>3, Zenon
<1>11. ASSUME NEW j \in Conns \ {k} PROVE ServerView(j)'
  <2>1. Keeps(j) /\ srv'[j] = srv[j] /\ \A s \in Services : owner[s] = j => owner'[s] = j
    BY <1>2, <1>4, <1>5, Zenon DEF Keeps
  <2> QED
    BY <2>1, SessionKeeps, Zenon
<1>12. Sockets'
  BY <1>3, <1>4, <1>5 DEF Sockets, SessionGoes, TypeOK
<1> QED
  BY <1>6, <1>7, <1>8, <1>9, <1>10, <1>11, <1>12, Zenon DEF Views

LEMMA BindStep ==
  ASSUME IInv, NEW k \in Conns, Bind(k)
  PROVE  IInv'
<1> USE DEF IInv
<1>1. srv[k] \in Tasks /\ conn[k] \in Streams /\ ServerView(k) /\ srv[k].st = "bind"
  BY Zenon DEF TypeOK, Views, Bind, Unbound
<1>2. PICK n \in Nat : n = Len(srv[k].bound)
  BY <1>1 DEF Tasks
<1>3. n + 1 \in 1 .. Len(conn[k].req)
  BY <1>1, <1>2 DEF Bind, Unbound, Streams
<1>4. PICK s : s = conn[k].req[n + 1]
  BY Zenon
<1>5. s \in Items /\ s \in Known /\ s \in Services
  BY <1>1, <1>3, <1>4 DEF Streams, ServerView, Range, Services
<1>6. /\ owner[s] = Free /\ owner' = [owner EXCEPT ![s] = k]
      /\ srv' = [srv EXCEPT ![k].bound = Append(@, s)]
      /\ UNCHANGED <<conn, slots, cli>>
  BY <1>2, <1>4, Zenon DEF Bind, ToBind
<1>7. SessionGoes(k, "bind", Append(srv[k].bound, s))
  <2> DEFINE r == [srv[k] EXCEPT !.bound = Append(srv[k].bound, s)]
  <2>1. srv' = [srv EXCEPT ![k] = r]
    BY <1>6, Zenon
  <2>2. Append(srv[k].bound, s) \in Seq(Items)
    BY <1>1, <1>5 DEF Tasks
  <2>3. \A q \in Tasks, b \in Seq(Items) :
          LET e == [q EXCEPT !.bound = b]
          IN  e \in Tasks /\ e.st = q.st /\ e.bound = b
    BY Zenon DEF Tasks
  <2>4. r \in Tasks /\ r.st = "bind" /\ r.bound = Append(srv[k].bound, s)
    BY <1>1, <2>2, <2>3, Zenon
  <2> HIDE DEF r
  <2> QED
    BY <2>1, <2>4, Zenon DEF TypeOK, SessionGoes
<1>8. /\ owner' \in [Services -> Conns \cup {Free}] /\ owner'[s] = k
      /\ \A u \in Services : owner[u] # Free => owner'[u] = owner[u]
      /\ \A u \in Services \ {s} : owner'[u] = owner[u]
  BY <1>5, <1>6, Zenon DEF TypeOK
<1>9. TypeOK'
  BY <1>6, <1>7, <1>8, Zenon DEF TypeOK, SessionGoes
<1>10. Permits'
  BY <1>1, <1>6, <1>7, SameSessions, Zenon DEF Active, SessionGoes
<1>11. Attached'
  BY <1>6, Zenon DEF Attached
<1>12. \A j \in Conns : Keeps(j)
  BY <1>6, Zenon DEF Keeps
<1>13. \A d \in Clients : ClientView(d)'
  <2>1. \A j \in Conns : srv'[j].st = srv[j].st
    BY <1>1, <1>7, Zenon DEF SessionGoes
  <2> QED
    BY <2>1, <1>6, <1>12, ClientsStay, ClientConn, Zenon
<1>14. ServerView(k)'
  <2>1. /\ Len(srv'[k].bound) = n + 1
        /\ \A i \in 1 .. n : srv'[k].bound[i] = srv[k].bound[i]
        /\ srv'[k].bound[n + 1] = s
    BY <1>1, <1>2, <1>5, <1>7 DEF SessionGoes, Tasks
  <2>2. ASSUME NEW i \in 1 .. n + 1
        PROVE  srv'[k].bound[i] = conn[k].req[i] /\ owner'[conn[k].req[i]] = k
    <3>1. CASE i = n + 1
      BY <3>1, <2>1, <1>4, <1>8, Zenon
    <3>2. CASE i \in 1 .. n
      <4>1. srv[k].bound[i] = conn[k].req[i] /\ owner[conn[k].req[i]] = k
        BY <3>2, <1>1, <1>2, Zenon DEF ServerView
      <4>2. conn[k].req[i] \in Services
        BY <3>2, <1>1, <1>3 DEF ServerView, Range, Services, Streams
      <4> QED
        BY <3>2, <4>1, <4>2, <2>1, <1>8, SessionAssumption, Zenon
    <3> QED
      BY <3>1, <3>2, <2>2
  <2>3. n + 1 <= Len(conn[k].req)
    BY <1>1, <1>3 DEF Streams
  <2>4. srv'[k].st = "bind" /\ conn' = conn
    BY <1>6, <1>7, Zenon DEF SessionGoes
  <2> QED
    BY <2>1, <2>2, <2>3, <2>4, <1>1, Zenon DEF ServerView
<1>15. ASSUME NEW j \in Conns \ {k} PROVE ServerView(j)'
  <2>1. srv'[j] = srv[j] /\ \A u \in Services : owner[u] = j => owner'[u] = j
    BY <1>7, <1>8, SessionAssumption, Zenon DEF SessionGoes
  <2> QED
    BY <2>1, <1>12, SessionKeeps, Zenon
<1>16. Sockets'
  <2>1. \A j \in Conns : srv'[j].st = srv[j].st
    BY <1>1, <1>7, Zenon DEF SessionGoes
  <2> QED
    BY <2>1, <1>1, <1>5, <1>8 DEF Sockets, TypeOK
<1> QED
  BY <1>9, <1>10, <1>11, <1>13, <1>14, <1>15, <1>16, Zenon DEF Views

LEMMA SendOkStep ==
  ASSUME IInv, NEW k \in Conns, SendOk(k)
  PROVE  IInv'
<1> USE DEF IInv
<1>1. /\ srv[k] \in Tasks /\ conn[k] \in Streams /\ ServerView(k)
      /\ srv[k].st = "bind" /\ ~Unbound(k)
      /\ conn' = [conn EXCEPT ![k].ok = TRUE]
      /\ srv' = [srv EXCEPT ![k].st = "confirm"]
      /\ UNCHANGED <<owner, slots, cli>>
  BY Zenon DEF TypeOK, Views, SendOk
<1>2. StreamGoes(k, conn[k].req, TRUE, conn[k].fin)
  <2> DEFINE r == [conn[k] EXCEPT !.ok = TRUE]
  <2>1. conn' = [conn EXCEPT ![k] = r]
    BY <1>1, Zenon
  <2>2. r \in Streams
    <3>1. \A b \in BOOLEAN, q \in Streams : [q EXCEPT !.ok = b] \in Streams
      BY Zenon DEF Streams
    <3> QED
      BY <3>1, <1>1, Zenon
  <2>3. r.req = conn[k].req /\ r.fin = conn[k].fin
    BY <1>1, Zenon DEF Streams
  <2>4. r.ok
    BY <1>1, Zenon DEF Streams
  <2> HIDE DEF r
  <2> QED
    BY <2>1, <2>2, <2>3, <2>4, Zenon DEF TypeOK, StreamGoes
<1>3. SessionGoes(k, "confirm", srv[k].bound)
  <2> DEFINE r == [srv[k] EXCEPT !.st = "confirm"]
  <2>1. srv' = [srv EXCEPT ![k] = r]
    BY <1>1, Zenon
  <2>2. r \in Tasks /\ r.st = "confirm" /\ r.bound = srv[k].bound
    BY <1>1, Zenon DEF Tasks, Stages
  <2> HIDE DEF r
  <2> QED
    BY <2>1, <2>2, Zenon DEF TypeOK, SessionGoes
<1>4. TypeOK'
  BY <1>1, <1>2, <1>3, Zenon DEF TypeOK, StreamGoes, SessionGoes
<1>5. Permits'
  BY <1>1, <1>3, SameSessions, Zenon DEF Active, SessionGoes
<1>6. Attached'
  BY <1>1, Zenon DEF Attached
<1>7. ASSUME NEW d \in Clients PROVE ClientView(d)'
  <2>1. Offers(d)' = Offers(d) /\ ClientView(d) /\ cli'[d] = cli[d]
    BY <1>1, SameOffers, Zenon DEF Views
  <2>2. CASE cli[d].st = "down"
    BY <2>1, <2>2, Zenon DEF ClientView
  <2>3. CASE cli[d].st # "down" /\ cli[d].conn = k
    BY <2>1, <2>3, <1>1, <1>2 DEF ClientView, StreamGoes
  <2>4. CASE cli[d].st # "down" /\ cli[d].conn # k
    <3>1. cli[d].conn \in Conns \ {k}
      BY <2>4, ClientConn, Zenon
    <3> QED
      BY <3>1, <2>1, <1>2, <1>3 DEF ClientView, StreamGoes, SessionGoes
  <2> QED
    BY <2>2, <2>3, <2>4, Zenon
<1>8. srv[k].bound = conn[k].req
  <2>1. Len(srv[k].bound) = Len(conn[k].req)
    BY <1>1 DEF Unbound, ServerView, Tasks, Streams
  <2> QED
    BY <2>1, <1>1 DEF ServerView, Tasks, Streams
<1>9. ServerView(k)'
  BY <1>1, <1>2, <1>3, <1>8 DEF ServerView, StreamGoes, SessionGoes
<1>10. ASSUME NEW j \in Conns \ {k} PROVE ServerView(j)'
  BY <1>1, <1>2, <1>3, SessionKeeps, Zenon DEF StreamGoes, SessionGoes, Keeps
<1>11. Sockets'
  BY <1>1, <1>3 DEF Sockets, SessionGoes, TypeOK
<1> QED
  BY <1>4, <1>5, <1>6, <1>7, <1>9, <1>10, <1>11, Zenon DEF Views

\* Release of a socket, by a session that has served.
LEMMA ReleaseStep ==
  ASSUME IInv, NEW s \in Services, Release(s)
  PROVE  IInv'
<1> USE DEF IInv
<1>1. PICK k \in Conns :
        /\ owner[s] = k /\ srv[k].st = "drop"
        /\ owner' = [owner EXCEPT ![s] = Free]
        /\ IF \A u \in Services \ {s} : owner[u] # k
             THEN srv' = [srv EXCEPT ![k] = [st |-> "none", bound |-> <<>>]]
             ELSE UNCHANGED srv
        /\ UNCHANGED <<conn, slots, cli>>
  BY Zenon DEF Release
<1>2. /\ owner' \in [Services -> Conns \cup {Free}] /\ owner'[s] = Free
      /\ \A u \in Services \ {s} : owner'[u] = owner[u]
  BY <1>1, Zenon DEF TypeOK
<1>3. /\ srv' \in [Conns -> Tasks]
      /\ \A j \in Conns \ {k} : srv'[j] = srv[j]
      /\ \/ srv'[k] = srv[k]
         \/ /\ srv'[k].st = "none" /\ srv'[k].bound = <<>>
            /\ \A u \in Services : owner'[u] # k
  <2>1. CASE \A u \in Services \ {s} : owner[u] # k
    <3> DEFINE r == [st |-> "none", bound |-> <<>>]
    <3>1. r \in Tasks /\ r.st = "none" /\ r.bound = <<>>
      BY DEF Tasks, Stages
    <3>2. srv' = [srv EXCEPT ![k] = r]
      BY <1>1, <2>1, Zenon
    <3> HIDE DEF r
    <3> QED
      BY <3>1, <3>2, <2>1, <1>2, SessionAssumption, Zenon DEF TypeOK
  <2>2. CASE ~ \A u \in Services \ {s} : owner[u] # k
    BY <1>1, <2>2, Zenon DEF TypeOK
  <2> QED
    BY <2>1, <2>2, Zenon
<1>4. TypeOK'
  BY <1>1, <1>2, <1>3, Zenon DEF TypeOK
<1>5. Permits'
  BY <1>1, <1>3, SameSessions, Zenon DEF Active
<1>6. Attached'
  BY <1>1, Zenon DEF Attached
<1>7. \A j \in Conns : Keeps(j)
  BY <1>1, Zenon DEF Keeps
<1>8. \A d \in Clients : ClientView(d)'
  <2>1. \A j \in Conns : srv[j].st \in {"none", "incoming"} => srv'[j].st \in {"none", "incoming"}
    BY <1>1, <1>3, Zenon
  <2> QED
    BY <2>1, <1>1, <1>7, ClientsStay, ClientConn, Zenon
<1>9. ServerView(k)'
  BY <1>1, <1>3 DEF ServerView, Views
<1>10. ASSUME NEW j \in Conns \ {k} PROVE ServerView(j)'
  <2>1. srv'[j] = srv[j] /\ \A u \in Services : owner[u] = j => owner'[u] = j
    BY <1>1, <1>2, <1>3, Zenon
  <2> QED
    BY <2>1, <1>7, SessionKeeps, Zenon
<1>11. Sockets'
  BY <1>1, <1>2, <1>3, SMTT(20) DEF Sockets, TypeOK
<1> QED
  BY <1>4, <1>5, <1>6, <1>8, <1>9, <1>10, <1>11, Zenon DEF Views

\* What is common to the two ways all sessions end at once: every session is
\* gone or drops its sockets, and a client keeps what was written.
LEMMA AllEndStep ==
  ASSUME IInv, slots' = MaxSessions, cli' = cli,
         conn' \in [Conns -> Streams], srv' \in [Conns -> Tasks],
         owner' \in [Services -> Conns \cup {Free}],
         \A k \in Conns : HasClient(k) => Keeps(k),
         \A k \in Conns : conn'[k].ok => Keeps(k),
         \A k \in Conns :
           \/ srv'[k].st = "none" /\ srv'[k].bound = <<>>
           \/ /\ srv'[k].st = "drop" /\ srv'[k].bound = srv[k].bound
              /\ srv[k].st \in {"serve", "drop"},
         \A s \in Services : owner'[s] # Free =>
           owner'[s] = owner[s] /\ srv'[owner[s]].st = "drop"
  PROVE  IInv'
<1> USE DEF IInv
<1>1. TypeOK'
  BY SessionAssumption, Zenon DEF TypeOK
<1>2. Permits'
  BY NoSessions, Zenon DEF Active
<1>3. Attached'
  BY Zenon DEF Attached
<1>4. \A d \in Clients : ClientView(d)'
  <2>1. ASSUME NEW d \in Clients, cli[d].st # "down"
        PROVE  /\ Keeps(cli[d].conn)
               /\ srv[cli[d].conn].st \in {"none", "incoming"} =>
                    srv'[cli[d].conn].st \in {"none", "incoming"}
    <3>1. cli[d].conn \in Conns /\ HasClient(cli[d].conn)
      BY <2>1, ClientConn, Zenon DEF HasClient
    <3> QED
      BY <3>1, Zenon
  <2> QED
    BY <2>1, ClientsStay, Zenon
<1>5. ASSUME NEW k \in Conns PROVE ServerView(k)'
  <2>1. ServerView(k)
    BY Zenon DEF Views
  <2>2. CASE srv'[k].st = "none"
    BY <2>2, SMTT(20) DEF ServerView
  <2>3. CASE srv'[k].st = "drop"
    BY <2>1, <2>3, Zenon DEF ServerView, Keeps
  <2> QED
    BY <2>2, <2>3, Zenon
<1>6. Sockets'
  BY DEF Sockets, TypeOK
<1> QED
  BY <1>1, <1>2, <1>3, <1>4, <1>5, <1>6, Zenon DEF Views

LEMMA RestartStep ==
  ASSUME IInv, Restart
  PROVE  IInv'
<1> USE DEF IInv
<1>1. /\ slots' = MaxSessions /\ cli' = cli
      /\ conn' = [k \in Conns |-> Closed(k, HasClient(k))]
      /\ srv' = [k \in Conns |->
                   IF srv[k].st \in {"serve", "drop"} THEN [srv[k] EXCEPT !.st = "drop"]
                   ELSE [st |-> "none", bound |-> <<>>]]
      /\ owner' = [s \in Services |->
                     IF owner[s] # Free /\ srv'[owner[s]].st = "drop" THEN owner[s] ELSE Free]
  BY Zenon DEF Restart
<1>2. ASSUME NEW k \in Conns
      PROVE  /\ conn'[k] \in Streams
             /\ HasClient(k) => Keeps(k)
             /\ conn'[k].ok => Keeps(k)
  <2>1. HasClient(k) \in BOOLEAN /\ conn'[k] = Closed(k, HasClient(k))
    BY <1>1, Zenon DEF HasClient
  <2> QED
    BY <2>1, ClosedStream, Zenon DEF Keeps
<1>3. ASSUME NEW k \in Conns
      PROVE  /\ srv'[k] \in Tasks
             /\ \/ srv'[k].st = "none" /\ srv'[k].bound = <<>>
                \/ /\ srv'[k].st = "drop" /\ srv'[k].bound = srv[k].bound
                   /\ srv[k].st \in {"serve", "drop"}
  <2>1. srv[k] \in Tasks
    BY Zenon DEF TypeOK
  <2>2. CASE srv[k].st \in {"serve", "drop"}
    <3>1. srv'[k] = [srv[k] EXCEPT !.st = "drop"]
      BY <1>1, <2>2, Zenon
    <3> QED
      BY <2>1, <2>2, <3>1, Zenon DEF Tasks, Stages
  <2>3. CASE srv[k].st \notin {"serve", "drop"}
    <3>1. srv'[k] = [st |-> "none", bound |-> <<>>]
      BY <1>1, <2>3, Zenon
    <3> QED
      BY <3>1 DEF Tasks, Stages
  <2> QED
    BY <2>2, <2>3, Zenon
<1>4. conn' \in [Conns -> Streams]
  BY <1>1, <1>2, Zenon
<1>5. srv' \in [Conns -> Tasks]
  BY <1>1, <1>3, Zenon
<1>6. /\ owner' \in [Services -> Conns \cup {Free}]
      /\ \A s \in Services : owner'[s] # Free =>
           owner'[s] = owner[s] /\ srv'[owner[s]].st = "drop"
  BY <1>1, Zenon DEF TypeOK
<1>7. slots' = MaxSessions /\ cli' = cli
  BY <1>1, Zenon
<1> QED
  BY <1>2, <1>3, <1>4, <1>5, <1>6, <1>7, AllEndStep, Zenon

LEMMA CrashStep ==
  ASSUME IInv, Crash
  PROVE  IInv'
<1> USE DEF IInv
<1>1. /\ slots' = MaxSessions /\ cli' = cli
      /\ conn' = [k \in Conns |->
                    IF HasClient(k) THEN [conn[k] EXCEPT !.link = IF @ = "live" THEN "cut" ELSE @]
                    ELSE Gone]
      /\ srv' = [k \in Conns |-> [st |-> "none", bound |-> <<>>]]
      /\ owner' = [s \in Services |-> Free]
  BY Zenon DEF Crash
<1>2. ASSUME NEW k \in Conns
      PROVE  /\ conn'[k] \in Streams
             /\ HasClient(k) => Keeps(k)
             /\ conn'[k].ok => Keeps(k)
  <2>1. conn[k] \in Streams
    BY Zenon DEF TypeOK
  <2>2. CASE HasClient(k)
    <3>1. conn'[k] = [conn[k] EXCEPT !.link = IF @ = "live" THEN "cut" ELSE @]
      BY <1>1, <2>2, Zenon
    <3> QED
      BY <2>1, <3>1, Zenon DEF Streams, Links, Keeps
  <2>3. CASE ~HasClient(k)
    <3>1. conn'[k] = Gone
      BY <1>1, <2>3, Zenon
    <3>2. Gone \in Streams /\ ~Gone.ok
      BY DEF Gone, Streams, Links
    <3> QED
      BY <2>3, <3>1, <3>2, Zenon
  <2> QED
    BY <2>2, <2>3, Zenon
<1>3. ASSUME NEW k \in Conns
      PROVE  srv'[k] \in Tasks /\ srv'[k].st = "none" /\ srv'[k].bound = <<>>
  <2>1. srv'[k] = [st |-> "none", bound |-> <<>>]
    BY <1>1, Zenon
  <2> QED
    BY <2>1 DEF Tasks, Stages
<1>4. conn' \in [Conns -> Streams]
  BY <1>1, <1>2, Zenon
<1>5. srv' \in [Conns -> Tasks]
  BY <1>1, <1>3, Zenon
<1>6. owner' \in [Services -> Conns \cup {Free}] /\ \A s \in Services : owner'[s] = Free
  BY <1>1, Zenon
<1>7. slots' = MaxSessions /\ cli' = cli
  BY <1>1, Zenon
<1> QED
  BY <1>2, <1>3, <1>4, <1>5, <1>6, <1>7, AllEndStep, Zenon

-----------------------------------------------------------------------------
(* The invariant *)

LEMMA Initially == Init => IInv
<1> SUFFICES ASSUME Init PROVE IInv
  BY Zenon
<1>1. PICK f \in Configs :
        cli = [c \in Clients |-> [st |-> "down", conn |-> Free, services |-> f[c]]]
  BY Zenon DEF Init
<1>2. \A c \in Clients : cli[c] \in Ends /\ cli[c].st = "down" /\ cli[c].conn = Free
  BY <1>1 DEF Ends, Steps, Lists
<1>3. /\ conn \in [Conns -> Streams]
      /\ \A k \in Conns : ~conn[k].ok
  <2>1. Gone \in Streams /\ ~Gone.ok
    BY DEF Gone, Streams, Links
  <2> QED
    BY <2>1, Zenon DEF Init
<1>4. /\ srv \in [Conns -> Tasks]
      /\ \A k \in Conns : srv[k].st = "none" /\ srv[k].bound = <<>>
  <2> DEFINE r == [st |-> "none", bound |-> <<>>]
  <2>1. r \in Tasks /\ r.st = "none" /\ r.bound = <<>>
    BY DEF Tasks, Stages
  <2>2. srv = [k \in Conns |-> r]
    BY Zenon DEF Init
  <2> HIDE DEF r
  <2> QED
    BY <2>1, <2>2, Zenon
<1>5. owner \in [Services -> Conns \cup {Free}] /\ \A s \in Services : owner[s] = Free
  BY Zenon DEF Init
<1>6. cli \in [Clients -> Ends]
  BY <1>1, <1>2, Zenon
<1>7. TypeOK
  BY <1>2, <1>3, <1>4, <1>5, <1>6, SessionAssumption, Zenon DEF TypeOK, Init
<1>8. Permits
  <2>1. Sessions = {}
    BY <1>4, Zenon DEF Sessions, Active
  <2> QED
    BY <2>1, FS_EmptySet, SessionAssumption DEF Permits, Init
<1>9. Attached /\ Sockets
  BY <1>2, <1>5, Zenon DEF Attached, Sockets
<1>10. \A c \in Clients : ClientView(c)
  BY <1>2, Zenon DEF ClientView
<1>11. \A k \in Conns : ServerView(k)
  BY <1>4, Zenon DEF ServerView
<1> QED
  BY <1>7, <1>8, <1>9, <1>10, <1>11, Zenon DEF IInv, Views

LEMMA Inductive == IInv /\ [Next]_vars => IInv'
<1> SUFFICES ASSUME IInv, [Next]_vars PROVE IInv'
  BY Zenon
<1>1. ASSUME NEW c \in Clients, Client(c) PROVE IInv'
  <2>1. ASSUME ClientLost(c) PROVE IInv'
    BY <2>1, LeaveStep, Zenon DEF ClientLost
  <2> QED
    BY <1>1, <2>1, ConnectStep, RegisterStep, FinishStep, ReadyStep, Zenon DEF Client
<1>2. ASSUME NEW c \in Clients, ClientGivesUp(c) PROVE IInv'
  BY <1>2, LeaveStep, Zenon DEF ClientGivesUp
<1>3. ASSUME NEW k \in Conns, Server(k) PROVE IInv'
  <2>1. ASSUME Check(k) PROVE IInv'
    <3>1. CASE Admissible(conn[k].req)
      BY <2>1, <3>1, AdmitStep, Zenon DEF Check, MovesOn
    <3>2. CASE ~Admissible(conn[k].req)
      BY <2>1, <3>2, EndStep, Zenon DEF Check, Active
    <3> QED
      BY <3>1, <3>2, Zenon
  <2>2. ASSUME BindFails(k) PROVE IInv'
    BY <2>2, EndStep, Zenon DEF BindFails, Unbound, Active
  <2>3. ASSUME ServerLost(k) PROVE IInv'
    BY <2>3, EndStep, Zenon DEF ServerLost
  <2> QED
    BY <1>3, <2>1, <2>2, <2>3, RetryStep, AcceptStep, RefuseStep, EstablishedStep, BindStep,
       SendOkStep, ConfirmStep, Zenon DEF Server
<1>4. ASSUME NEW k \in Conns, ServerGivesUp(k) PROVE IInv'
  BY <1>4, EndStep, Zenon DEF ServerGivesUp
<1>5. CASE UNCHANGED vars
  <2>1. UNCHANGED <<conn, srv, owner, slots, cli>>
    BY <1>5, Zenon DEF vars
  <2>2. conn' \in [Conns -> Streams] /\ \A j \in Conns : Keeps(j)
    BY <2>1, Zenon DEF IInv, TypeOK, Keeps
  <2> QED
    BY <2>1, <2>2, LinksStep, Zenon
<1> QED
  BY <1>1, <1>2, <1>3, <1>4, <1>5, CutStep, ReleaseStep, RestartStep, CrashStep, Zenon DEF Next

\* The views of the two ends, the permits and the sockets fit together in every
\* reachable state.
THEOREM Invariance == Spec => []IInv
BY Initially, Inductive, PTL DEF Spec

-----------------------------------------------------------------------------
(* The results *)

\* After any mixture of timeouts, refusals, losses, restarts and crashes every
\* permit of `slots` is available or held by a session that has not ended, for
\* any max_connections and any number of clients.
THEOREM PermitsNeverLeak == Spec => []PermitsConserved
<1>1. IInv => PermitsConserved
  BY DEF IInv, TypeOK, Permits, Sessions, PermitsConserved
<1> QED
  BY <1>1, Invariance, PTL

\* Registration is all or nothing: a session that has replied holds the socket
\* of every service it was asked for, and no socket is held outside a checked
\* registration, whoever else binds, fails or leaves in between.
THEOREM RegistrationAtomic == Spec => []AllOrNothing
<1>1. ASSUME IInv PROVE AllOrNothing
  <2>1. ASSUME NEW k \in Conns, srv[k].st \in {"confirm", "serve"},
               NEW s \in Range(conn[k].req)
        PROVE  owner[s] = k
    <3>1. conn[k] \in Streams /\ ServerView(k)
      BY <1>1, Zenon DEF IInv, TypeOK, Views
    <3>2. PICK i \in 1 .. Len(conn[k].req) : s = conn[k].req[i]
      BY <3>1 DEF Range, Streams
    <3> QED
      BY <2>1, <3>1, <3>2, Zenon DEF ServerView
  <2> QED
    BY <2>1, <1>1, Zenon DEF AllOrNothing, IInv, Sockets
<1> QED
  BY <1>1, Invariance, PTL

\* While client and server are both in a session, the n-th listener of the
\* server is that of the n-th service of the client's own list; and the server
\* does not serve while its client still waits for the connection or the reply.
THEOREM ServiceNumbersAgree == Spec => []EndsAgree
<1>1. ASSUME IInv PROVE EndsAgree
  <2>1. ASSUME NEW c \in Clients,
               cli[c].st \in {"finish", "ready"}, srv[cli[c].conn].st # "none"
        PROVE  srv[cli[c].conn].bound = Offers(c)
    <3>1. PICK k \in Conns : k = cli[c].conn
      BY <1>1, <2>1, ClientConn, Zenon DEF IInv
    <3>2. conn[k].ok /\ conn[k].req = Offers(c)
      BY <1>1, <2>1, <3>1, Zenon DEF IInv, Views, ClientView
    <3>3. ServerView(k) /\ srv[k].st \in Stages
      BY <1>1, Zenon DEF IInv, Views, TypeOK, Tasks
    <3> QED
      BY <2>1, <3>1, <3>2, <3>3, Zenon DEF ServerView, Stages
  <2>2. ASSUME NEW c \in Clients, cli[c].st \in {"connect", "register"}
        PROVE  srv[cli[c].conn].st # "serve"
    <3>1. PICK k \in Conns : k = cli[c].conn
      BY <1>1, <2>2, ClientConn, Zenon DEF IInv
    <3> QED
      BY <1>1, <2>2, <3>1, Zenon DEF IInv, Views, ClientView, ServerView
  <2> QED
    BY <2>1, <2>2, SMTT(20) DEF EndsAgree
<1> QED
  BY <1>1, Invariance, PTL
=============================================================================
