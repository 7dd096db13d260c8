-------------------------- MODULE TcpForwardProofs --------------------------
(***************************************************************************)
(* Many TCP connections in one session, for any number of them and any     *)
(* limits: the permits of both ends, the streams between them, and when    *)
(* the client reaches its local target.                                    *)
(*                                                                         *)
(* The two tasks of a connection know each other by the stream alone, and  *)
(* either may end at any point of the set-up of the other.  The invariant  *)
(* says what the stream then tells of the two tasks.                       *)
(***************************************************************************)
EXTENDS TcpForward, TLAPS

\* Permits are what the tasks of an end leave of its max_streams.
Busy(tasks) == {p \in Peers : tasks[p] # "none"}

Accounted(tasks, slots, limit) ==
  IsFiniteSet(Busy(tasks)) /\ slots \in Nat /\ slots + Cardinality(Busy(tasks)) = limit

\* Neither end loses or invents a permit: a semaphore has what its tasks leave of
\* max_streams, so there are never more tasks than that, however set-ups, timeouts
\* and ends of bridges interleave.
PermitsAccounted ==
  Accounted(srv, srvSlots, SrvStreams) /\ Accounted(cli, cliSlots, CliStreams)

\* The client dials its local target, or is connected to it, only for a stream on
\* which the server has confirmed the service; the server is then bridging that
\* connection or has let go of it.
DialsConfirmed ==
  \A p \in Peers :
    cli[p] = "connect" \/ loc[p] # "none" =>
      strm[p].ok /\ (srv[p] = "bridge" \/ strm[p].srv = "gone")

\* Every stream is held by a task or waits to be accepted, and there are no more
\* of them than the client's transport allows.
StreamsHeld ==
  /\ IsFiniteSet(Streams) /\ Cardinality(Streams) <= CliStreams + 1
  /\ \A p \in Streams : srv[p] \in {"setup", "bridge"} \/ cli[p] # "none" \/ strm[p].cli = "none"

-----------------------------------------------------------------------------
(* The inductive invariant                                                 *)

StreamStates == [srv : {"none", "open", "gone"}, cli : {"none", "open", "gone"}, ok : BOOLEAN]

PubStates == {"none", "queued", "open", "closed"}
LocStates == {"none", "open", "closed"}
SrvStates == {"none", "opening", "setup", "bridge"}
CliStates == {"none", "setup", "connect", "bridge"}

TypeOK ==
  /\ pub \in [Peers -> PubStates]
  /\ loc \in [Peers -> LocStates]
  /\ srv \in [Peers -> SrvStates]
  /\ cli \in [Peers -> CliStates]
  /\ strm \in [Peers -> StreamStates]

\* What the stream st of a connection says of its two TCP peers and tasks.
Link(pb, lc, sv, cl, st) ==
  /\ pb \in {"open", "closed"} <=> sv # "none"
  /\ pb = "queued" \/ sv = "opening" => st = NoStream
  /\ sv \in {"setup", "bridge"} <=> st.srv = "open"
  /\ cl # "none" <=> st.cli = "open"
  /\ lc # "none" <=> cl = "bridge"
  /\ st.srv = "none" => st = NoStream
  /\ st.srv = "gone" => st.cli # "gone"
  /\ st.ok => sv = "bridge" \/ st.srv = "gone"
  /\ cl \in {"connect", "bridge"} => st.ok

Linked(p) == Link(pub[p], loc[p], srv[p], cli[p], strm[p])

Open(streams) == {p \in Peers : streams[p] # NoStream}

Limited(streams) ==
  IsFiniteSet(Open(streams)) /\ Cardinality(Open(streams)) <= CliStreams + 1

IInv == TypeOK /\ (\A p \in Peers : Linked(p)) /\ PermitsAccounted /\ Limited(strm)

-----------------------------------------------------------------------------
(* One connection changes                                                  *)

Sets(new, old, p, v) == new = [old EXCEPT ![p] = v]

\* Connection p becomes a linked one, and no other changes.
Becomes(p, pb, lc, sv, cl, st) ==
  /\ pb \in PubStates /\ Sets(pub', pub, p, pb)
  /\ lc \in LocStates /\ Sets(loc', loc, p, lc)
  /\ sv \in SrvStates /\ Sets(srv', srv, p, sv)
  /\ cl \in CliStates /\ Sets(cli', cli, p, cl)
  /\ st \in StreamStates /\ Sets(strm', strm, p, st)
  /\ Link(pb, lc, sv, cl, st)

LEMMA LinksKept ==
  ASSUME TypeOK, \A q \in Peers : Linked(q), NEW p \in Peers,
         NEW pb, NEW lc, NEW sv, NEW cl, NEW st, Becomes(p, pb, lc, sv, cl, st)
  PROVE  TypeOK' /\ \A q \in Peers : Linked(q)'
<1>1. /\ pub' \in [Peers -> PubStates] /\ pub'[p] = pb
      /\ \A q \in Peers : q # p => pub'[q] = pub[q]
  BY Zenon DEF TypeOK, Becomes, Sets
<1>2. /\ loc' \in [Peers -> LocStates] /\ loc'[p] = lc
      /\ \A q \in Peers : q # p => loc'[q] = loc[q]
  BY Zenon DEF TypeOK, Becomes, Sets
<1>3. /\ srv' \in [Peers -> SrvStates] /\ srv'[p] = sv
      /\ \A q \in Peers : q # p => srv'[q] = srv[q]
  BY Zenon DEF TypeOK, Becomes, Sets
<1>4. /\ cli' \in [Peers -> CliStates] /\ cli'[p] = cl
      /\ \A q \in Peers : q # p => cli'[q] = cli[q]
  BY Zenon DEF TypeOK, Becomes, Sets
<1>5. /\ strm' \in [Peers -> StreamStates] /\ strm'[p] = st
      /\ \A q \in Peers : q # p => strm'[q] = strm[q]
  BY Zenon DEF TypeOK, Becomes, Sets
<1>6. TypeOK'
  BY <1>1, <1>2, <1>3, <1>4, <1>5, Zenon DEF TypeOK
<1>7. Linked(p)'
  BY <1>1, <1>2, <1>3, <1>4, <1>5, Zenon DEF Linked, Becomes
<1>8. ASSUME NEW q \in Peers, q # p PROVE Linked(q)'
  BY <1>1, <1>2, <1>3, <1>4, <1>5, <1>8, Zenon DEF Linked
<1> QED
  BY <1>6, <1>7, <1>8, Zenon

\* The parts of connection p
LEMMA Parts ==
  ASSUME TypeOK, NEW p \in Peers
  PROVE  /\ pub[p] \in PubStates /\ loc[p] \in LocStates
         /\ srv[p] \in SrvStates /\ cli[p] \in CliStates
         /\ strm[p] \in StreamStates
BY Zenon DEF TypeOK

\* What is left alone is set to what it was.
LEMMA Same ==
  ASSUME TypeOK, NEW p \in Peers
  PROVE  /\ pub' = pub => Sets(pub', pub, p, pub[p])
         /\ loc' = loc => Sets(loc', loc, p, loc[p])
         /\ srv' = srv => Sets(srv', srv, p, srv[p])
         /\ cli' = cli => Sets(cli', cli, p, cli[p])
         /\ strm' = strm => Sets(strm', strm, p, strm[p])
BY Zenon DEF TypeOK, Sets

\* A task or a stream that is set, and the others
Only(new, old, p, v) == new[p] = v /\ \A q \in Peers : q # p => new[q] = old[q]

LEMMA OnlyThat ==
  ASSUME TypeOK, NEW p \in Peers, NEW v
  PROVE  /\ Sets(srv', srv, p, v) => Only(srv', srv, p, v)
         /\ Sets(cli', cli, p, v) => Only(cli', cli, p, v)
         /\ Sets(strm', strm, p, v) => Only(strm', strm, p, v)
BY Zenon DEF TypeOK, Sets, Only

-----------------------------------------------------------------------------
(* Counting tasks and streams                                              *)

INSTANCE FiniteSetTheorems

\* A task takes a permit,
LEMMA TaskStarts ==
  ASSUME NEW old, NEW p \in Peers, NEW v, NEW new, Only(new, old, p, v), old[p] = "none", v # "none",
         NEW slots, NEW limit, Accounted(old, slots, limit), slots > 0
  PROVE  Accounted(new, slots - 1, limit)
<1>1. new[p] = v /\ \A q \in Peers : q # p => new[q] = old[q]
  BY Zenon DEF Only
<1>2. Busy(new) = Busy(old) \cup {p} /\ p \notin Busy(old)
  BY <1>1, Zenon DEF Busy
<1>3. IsFiniteSet(Busy(old)) /\ slots \in Nat /\ slots + Cardinality(Busy(old)) = limit
  BY Zenon DEF Accounted
<1>4. IsFiniteSet(Busy(new)) /\ Cardinality(Busy(new)) = Cardinality(Busy(old)) + 1
  <2>1. /\ IsFiniteSet(Busy(old) \cup {p})
        /\ Cardinality(Busy(old) \cup {p}) =
             IF p \in Busy(old) THEN Cardinality(Busy(old)) ELSE Cardinality(Busy(old)) + 1
    BY <1>3, FS_AddElement, Zenon
  <2> QED
    BY <1>2, <2>1, Zenon
<1>5. Cardinality(Busy(old)) \in Nat
  BY <1>3, FS_CardinalityType, Zenon
<1> QED
  BY <1>3, <1>4, <1>5 DEF Accounted

\* keeps it while it goes on,
LEMMA TaskGoesOn ==
  ASSUME NEW old, NEW p \in Peers, NEW v, NEW new, Only(new, old, p, v), old[p] # "none", v # "none",
         NEW slots, NEW limit, Accounted(old, slots, limit)
  PROVE  Accounted(new, slots, limit)
<1>1. new[p] = v /\ \A q \in Peers : q # p => new[q] = old[q]
  BY Zenon DEF Only
<1>2. Busy(new) = Busy(old)
  BY <1>1, Zenon DEF Busy
<1> QED
  BY <1>2, Zenon DEF Accounted

\* and returns it when it ends.
LEMMA TaskEnds ==
  ASSUME NEW old, NEW p \in Peers, NEW v, NEW new, Only(new, old, p, v), old[p] # "none", v = "none",
         NEW slots, NEW limit, Accounted(old, slots, limit)
  PROVE  Accounted(new, Returned(slots), limit)
<1>1. new[p] = v /\ \A q \in Peers : q # p => new[q] = old[q]
  BY Zenon DEF Only
<1>2. Busy(new) = Busy(old) \ {p} /\ p \in Busy(old)
  BY <1>1, Zenon DEF Busy
<1>3. IsFiniteSet(Busy(old)) /\ slots \in Nat /\ slots + Cardinality(Busy(old)) = limit
  BY Zenon DEF Accounted
<1>4. IsFiniteSet(Busy(new)) /\ Cardinality(Busy(new)) = Cardinality(Busy(old)) - 1
  BY <1>2, <1>3, FS_RemoveElement, Zenon
<1>5. Cardinality(Busy(old)) \in Nat
  BY <1>3, FS_CardinalityType, Zenon
<1> QED
  BY <1>3, <1>4, <1>5 DEF Accounted, Returned

\* A stream that is opened was allowed,
LEMMA StreamOpens ==
  ASSUME NEW old, NEW p \in Peers, NEW v, NEW new, Only(new, old, p, v), Limited(old), Cardinality(Open(old)) < CliStreams + 1
  PROVE  Limited(new)
<1>1. new[p] = v /\ \A q \in Peers : q # p => new[q] = old[q]
  BY Zenon DEF Only
<1>2. Open(new) \subseteq Open(old) \cup {p}
  BY <1>1, Zenon DEF Open
<1>3. IsFiniteSet(Open(old))
  BY Zenon DEF Limited
<1>4. /\ IsFiniteSet(Open(old) \cup {p})
      /\ \/ Cardinality(Open(old) \cup {p}) = Cardinality(Open(old))
         \/ Cardinality(Open(old) \cup {p}) = Cardinality(Open(old)) + 1
  BY <1>3, FS_AddElement, Zenon
<1>5. IsFiniteSet(Open(new)) /\ Cardinality(Open(new)) <= Cardinality(Open(old) \cup {p})
  BY <1>2, <1>4, FS_Subset, Zenon
<1>6. Cardinality(Open(old)) \in Nat /\ Cardinality(Open(new)) \in Nat
  BY <1>3, <1>5, FS_CardinalityType, Zenon
<1> QED
  BY <1>4, <1>5, <1>6, ForwardAssumption DEF Limited

\* and one that is there, or goes, needs no room.
LEMMA StreamGoesOn ==
  ASSUME NEW old, NEW p \in Peers, NEW v, NEW new, Only(new, old, p, v), Limited(old), old[p] # NoStream \/ v = NoStream
  PROVE  Limited(new)
<1>1. new[p] = v /\ \A q \in Peers : q # p => new[q] = old[q]
  BY Zenon DEF Only
<1>2. Open(new) \subseteq Open(old)
  BY <1>1, Zenon DEF Open
<1>3. IsFiniteSet(Open(old)) /\ Cardinality(Open(old)) <= CliStreams + 1
  BY Zenon DEF Limited
<1>4. IsFiniteSet(Open(new)) /\ Cardinality(Open(new)) <= Cardinality(Open(old))
  BY <1>2, <1>3, FS_Subset, Zenon
<1>5. Cardinality(Open(old)) \in Nat /\ Cardinality(Open(new)) \in Nat
  BY <1>3, <1>4, FS_CardinalityType, Zenon
<1> QED
  BY <1>3, <1>4, <1>5, ForwardAssumption DEF Limited

-----------------------------------------------------------------------------
(* What becomes of a stream                                                *)

Stream(s, c, k) == [srv |-> s, cli |-> c, ok |-> k]

LEMMA StreamFields ==
  ASSUME NEW st \in StreamStates
  PROVE  /\ st.srv \in {"none", "open", "gone"} /\ st.cli \in {"none", "open", "gone"}
         /\ st.ok \in BOOLEAN /\ st = Stream(st.srv, st.cli, st.ok)
BY DEF Stream, StreamStates

\* Updates of a field.  The proof has them happen inside a function, where the
\* provers know what they are.
WithSrv(st, v) == [st EXCEPT !.srv = v]
WithCli(st, v) == [st EXCEPT !.cli = v]
WithOk(st, v)  == [st EXCEPT !.ok = v]

LEMMA StreamSet ==
  ASSUME NEW s, NEW c, NEW k, NEW v
  PROVE  /\ WithSrv(Stream(s, c, k), v) = Stream(v, c, k)
         /\ WithCli(Stream(s, c, k), v) = Stream(s, v, k)
         /\ WithOk(Stream(s, c, k), v) = Stream(s, c, v)
<1>1. PICK st : st = Stream(s, c, k)
  BY Zenon
<1>2. PICK f : f = [x \in {v} |-> st]
  BY Zenon
<1>3. v \in DOMAIN f /\ f[v] = st
  BY <1>2, Zenon
<1>4. [f EXCEPT ![v] = [@ EXCEPT !.srv = v]][v] = Stream(v, c, k)
  BY <1>1, <1>3 DEF Stream
<1>5. [f EXCEPT ![v] = [@ EXCEPT !.cli = v]][v] = Stream(s, v, k)
  BY <1>1, <1>3 DEF Stream
<1>6. [f EXCEPT ![v] = [@ EXCEPT !.ok = v]][v] = Stream(s, c, v)
  BY <1>1, <1>3 DEF Stream
<1>7. /\ [f EXCEPT ![v] = [@ EXCEPT !.srv = v]][v] = [st EXCEPT !.srv = v]
      /\ [f EXCEPT ![v] = [@ EXCEPT !.cli = v]][v] = [st EXCEPT !.cli = v]
      /\ [f EXCEPT ![v] = [@ EXCEPT !.ok = v]][v] = [st EXCEPT !.ok = v]
  BY <1>3, Zenon
<1> QED
  BY <1>1, <1>4, <1>5, <1>6, <1>7, Zenon DEF WithSrv, WithCli, WithOk

LEMMA NoStreamParts ==
  /\ NoStream = Stream("none", "none", FALSE) /\ NoStream \in StreamStates
  /\ NoStream.srv = "none" /\ NoStream.cli = "none" /\ ~NoStream.ok
BY Zenon DEF NoStream, Stream, StreamStates

LEMMA ServerLetsGo ==
  ASSUME NEW st \in StreamStates
  PROVE  LetGo(st, "srv") = IF st.cli = "gone" THEN NoStream ELSE Stream("gone", st.cli, st.ok)
<1>1. PICK s, c, k : st = Stream(s, c, k)
  <2>1. st = Stream(st.srv, st.cli, st.ok)
    BY StreamFields, Zenon
  <2> QED
    BY <2>1, Zenon
<1>2. WithSrv(st, "gone") = Stream("gone", c, k)
  <2>1. WithSrv(Stream(s, c, k), "gone") = Stream("gone", c, k)
    BY StreamSet
  <2> QED
    BY <1>1, <2>1, Zenon
<1>3. /\ Stream("gone", c, k).srv = "gone" /\ Stream("gone", c, k).cli = c
      /\ st.cli = c /\ st.ok = k
  BY <1>1, Zenon DEF Stream
<1> QED
  BY <1>2, <1>3, Zenon DEF LetGo, WithSrv

LEMMA ClientLetsGo ==
  ASSUME NEW st \in StreamStates
  PROVE  LetGo(st, "cli") = IF st.srv = "gone" THEN NoStream ELSE Stream(st.srv, "gone", st.ok)
<1>1. PICK s, c, k : st = Stream(s, c, k)
  <2>1. st = Stream(st.srv, st.cli, st.ok)
    BY StreamFields, Zenon
  <2> QED
    BY <2>1, Zenon
<1>2. WithCli(st, "gone") = Stream(s, "gone", k)
  <2>1. WithCli(Stream(s, c, k), "gone") = Stream(s, "gone", k)
    BY StreamSet
  <2> QED
    BY <1>1, <2>1, Zenon
<1>3. /\ Stream(s, "gone", k).cli = "gone" /\ Stream(s, "gone", k).srv = s
      /\ st.srv = s /\ st.ok = k
  BY <1>1, Zenon DEF Stream
<1> QED
  BY <1>2, <1>3, Zenon DEF LetGo, WithCli

-----------------------------------------------------------------------------
(* The TCP peers                                                           *)

LEMMA PeersKeep ==
  ASSUME IInv, NEW p \in Peers, PeerConnects(p) \/ PeerCloses(p) \/ TargetCloses(p)
  PROVE  IInv'
<1>1. TypeOK /\ (\A q \in Peers : Linked(q)) /\ PermitsAccounted /\ Limited(strm)
  BY Zenon DEF IInv
<1>2. UNCHANGED <<srv, cli, strm, srvSlots, cliSlots>>
  BY Zenon DEF PeerConnects, PeerCloses, TargetCloses
<1>3. PermitsAccounted' /\ Limited(strm')
  BY <1>1, <1>2, Zenon DEF PermitsAccounted
<1>4. /\ Sets(srv', srv, p, srv[p]) /\ Sets(cli', cli, p, cli[p])
      /\ Sets(strm', strm, p, strm[p])
  BY <1>1, <1>2, Same, Zenon
<1>5. Link(pub[p], loc[p], srv[p], cli[p], strm[p])
  BY <1>1, Zenon DEF Linked
<1>6. CASE PeerConnects(p)
  <2>1. /\ Sets(pub', pub, p, "queued") /\ loc' = loc
        /\ pub[p] = "none" /\ strm[p] = NoStream
    BY <1>6, Zenon DEF PeerConnects, Sets
  <2>2. Sets(loc', loc, p, loc[p])
    BY <1>1, <2>1, Same, Zenon
  <2>3. Link("queued", loc[p], srv[p], cli[p], strm[p])
    BY <1>5, <2>1, Zenon DEF Link
  <2>4. TypeOK' /\ \A q \in Peers : Linked(q)'
    <3>1. Becomes(p, "queued", loc[p], srv[p], cli[p], strm[p])
      BY <1>1, <1>4, <2>1, <2>2, <2>3, Parts, Zenon DEF Becomes, PubStates, LocStates, SrvStates
    <3> QED
      BY <1>1, <3>1, LinksKept, Zenon
  <2> QED
    BY <1>3, <2>4, Zenon DEF IInv
<1>7. CASE PeerCloses(p)
  <2>1. Sets(pub', pub, p, "closed") /\ loc' = loc /\ pub[p] = "open"
    BY <1>7, Zenon DEF PeerCloses, Sets
  <2>2. Sets(loc', loc, p, loc[p])
    BY <1>1, <2>1, Same, Zenon
  <2>3. Link("closed", loc[p], srv[p], cli[p], strm[p])
    BY <1>5, <2>1, Zenon DEF Link
  <2>4. TypeOK' /\ \A q \in Peers : Linked(q)'
    <3>1. Becomes(p, "closed", loc[p], srv[p], cli[p], strm[p])
      BY <1>1, <1>4, <2>1, <2>2, <2>3, Parts, Zenon DEF Becomes, PubStates, LocStates, SrvStates
    <3> QED
      BY <1>1, <3>1, LinksKept, Zenon
  <2> QED
    BY <1>3, <2>4, Zenon DEF IInv
<1>8. CASE TargetCloses(p)
  <2>1. Sets(loc', loc, p, "closed") /\ pub' = pub /\ loc[p] = "open"
    BY <1>8, Zenon DEF TargetCloses, Sets
  <2>2. Sets(pub', pub, p, pub[p])
    BY <1>1, <2>1, Same, Zenon
  <2>3. Link(pub[p], "closed", srv[p], cli[p], strm[p])
    BY <1>5, <2>1, Zenon DEF Link
  <2>4. TypeOK' /\ \A q \in Peers : Linked(q)'
    <3>1. Becomes(p, pub[p], "closed", srv[p], cli[p], strm[p])
      BY <1>1, <1>4, <2>1, <2>2, <2>3, Parts, Zenon DEF Becomes, PubStates, LocStates, SrvStates
    <3> QED
      BY <1>1, <3>1, LinksKept, Zenon
  <2> QED
    BY <1>3, <2>4, Zenon DEF IInv
<1> QED
  BY <1>6, <1>7, <1>8, Zenon

-----------------------------------------------------------------------------
(* The server                                                              *)

LEMMA AcceptTcpKeeps == ASSUME IInv, NEW p \in Peers, AcceptTcp(p) PROVE IInv'
<1>1. TypeOK /\ (\A q \in Peers : Linked(q)) /\ PermitsAccounted /\ Limited(strm)
  BY Zenon DEF IInv
<1>2. pub[p] = "queued" /\ UNCHANGED <<loc, cli, strm, cliSlots>>
  BY Zenon DEF AcceptTcp
<1>3. Link(pub[p], loc[p], srv[p], cli[p], strm[p])
  BY <1>1, Zenon DEF Linked
<1>4. srv[p] = "none" /\ strm[p] = NoStream
  BY <1>2, <1>3, Zenon DEF Link
<1>5. /\ Sets(loc', loc, p, loc[p]) /\ Sets(cli', cli, p, cli[p])
      /\ Sets(strm', strm, p, strm[p]) /\ Limited(strm')
      /\ Accounted(cli', cliSlots', CliStreams)
  BY <1>1, <1>2, Same, Zenon DEF PermitsAccounted
<1>6. CASE srvSlots > 0
  <2>1. /\ Sets(pub', pub, p, "open") /\ Sets(srv', srv, p, "opening")
        /\ srvSlots' = srvSlots - 1
    BY <1>6, Zenon DEF AcceptTcp, Sets
  <2>2. Link("open", loc[p], "opening", cli[p], strm[p])
    BY <1>2, <1>3, <1>4, Zenon DEF Link, NoStream
  <2>3. TypeOK' /\ \A q \in Peers : Linked(q)'
    <3>1. Becomes(p, "open", loc[p], "opening", cli[p], strm[p])
      BY <1>1, <1>5, <2>1, <2>2, Parts, Zenon DEF Becomes, PubStates, LocStates, SrvStates
    <3> QED
      BY <1>1, <3>1, LinksKept, Zenon
  <2>4. Accounted(srv', srvSlots', SrvStreams)
    <3>1. Only(srv', srv, p, "opening") /\ Accounted(srv, srvSlots, SrvStreams)
      BY <1>1, <2>1, OnlyThat, Zenon DEF PermitsAccounted
    <3>2. Accounted(srv', srvSlots - 1, SrvStreams)
      BY <1>4, <1>6, <3>1, TaskStarts
    <3> QED
      BY <2>1, <3>2, Zenon
  <2> QED
    BY <1>5, <2>3, <2>4, Zenon DEF IInv, PermitsAccounted
<1>7. CASE ~(srvSlots > 0)
  <2>1. Sets(pub', pub, p, "none") /\ UNCHANGED <<srv, srvSlots>>
    BY <1>7, Zenon DEF AcceptTcp, Sets
  <2>2. Sets(srv', srv, p, srv[p])
    BY <1>1, <2>1, Same, Zenon
  <2>3. Link("none", loc[p], srv[p], cli[p], strm[p])
    BY <1>2, <1>3, <1>4, Zenon DEF Link
  <2>4. TypeOK' /\ \A q \in Peers : Linked(q)'
    <3>1. Becomes(p, "none", loc[p], srv[p], cli[p], strm[p])
      BY <1>1, <1>5, <2>1, <2>2, <2>3, Parts, Zenon DEF Becomes, PubStates, LocStates, SrvStates
    <3> QED
      BY <1>1, <3>1, LinksKept, Zenon
  <2> QED
    BY <1>1, <1>5, <2>1, <2>4, Zenon DEF IInv, PermitsAccounted
<1> QED
  BY <1>6, <1>7, Zenon

LEMMA OpenBiKeeps == ASSUME IInv, NEW p \in Peers, OpenBi(p) PROVE IInv'
<1> DEFINE st == Stream("open", "none", FALSE)
<1>1. TypeOK /\ (\A q \in Peers : Linked(q)) /\ PermitsAccounted /\ Limited(strm)
  BY Zenon DEF IInv
<1>2. /\ srv[p] = "opening" /\ Sets(srv', srv, p, "setup")
      /\ UNCHANGED <<pub, loc, cli, srvSlots, cliSlots>>
      /\ Cardinality(Open(strm)) < CliStreams + 1
  BY Zenon DEF OpenBi, Sets, Streams, Open
<1>3. Sets(strm', strm, p, st)
  <2>1. \A k : WithSrv(Stream("none", "none", k), "open") = Stream("open", "none", k)
    BY StreamSet
  <2>2. WithSrv(NoStream, "open") = st
    BY <2>1, NoStreamParts, Zenon
  <2>3. Sets(strm', strm, p, WithSrv(NoStream, "open"))
    BY Zenon DEF OpenBi, Sets, WithSrv
  <2> QED
    BY <2>2, <2>3, Zenon
<1>4. st \in StreamStates /\ st.srv = "open" /\ st.cli = "none" /\ ~st.ok
  BY Zenon DEF Stream, StreamStates
<1> HIDE DEF st
<1>5. Link(pub[p], loc[p], "opening", cli[p], NoStream)
  <2>1. Link(pub[p], loc[p], srv[p], cli[p], strm[p])
    BY <1>1, Zenon DEF Linked
  <2> QED
    BY <1>2, <2>1, Zenon DEF Link
<1>6. Link(pub[p], loc[p], "setup", cli[p], st)
  BY <1>4, <1>5, NoStreamParts, Zenon DEF Link
<1>7. TypeOK' /\ \A q \in Peers : Linked(q)'
  <2>1. Becomes(p, pub[p], loc[p], "setup", cli[p], st)
    BY <1>1, <1>2, <1>3, <1>4, <1>6, Parts, Same, Zenon DEF Becomes, SrvStates
  <2> QED
    BY <1>1, <2>1, LinksKept, Zenon
<1>8. Accounted(srv', srvSlots', SrvStreams) /\ Accounted(cli', cliSlots', CliStreams)
  <2>1. Only(srv', srv, p, "setup")
    BY <1>1, <1>2, OnlyThat, Zenon
  <2>2. Accounted(srv', srvSlots, SrvStreams)
    BY <1>1, <1>2, <2>1, TaskGoesOn, Zenon DEF PermitsAccounted
  <2> QED
    BY <1>1, <1>2, <2>2, Zenon DEF PermitsAccounted
<1>9. Limited(strm')
  <2>1. Only(strm', strm, p, st)
    BY <1>1, <1>3, OnlyThat, Zenon
  <2> QED
    BY <1>1, <1>2, <2>1, StreamOpens
<1> QED
  BY <1>7, <1>8, <1>9, Zenon DEF IInv, PermitsAccounted

LEMMA SendOkKeeps == ASSUME IInv, NEW p \in Peers, SendOk(p) PROVE IInv'
<1>1. TypeOK /\ (\A q \in Peers : Linked(q)) /\ PermitsAccounted /\ Limited(strm)
  BY Zenon DEF IInv
<1>2. /\ srv[p] = "setup" /\ cli[p] = "setup" /\ strm[p].cli = "open"
      /\ Sets(srv', srv, p, "bridge")
      /\ UNCHANGED <<pub, loc, cli, srvSlots, cliSlots>>
  BY Zenon DEF SendOk, Sets
<1>3. Link(pub[p], loc[p], srv[p], cli[p], strm[p])
  BY <1>1, Zenon DEF Linked
<1>4. strm[p].srv = "open" /\ strm[p] \in StreamStates
  BY <1>1, <1>2, <1>3, Parts, Zenon DEF Link
<1> DEFINE st == Stream("open", "open", TRUE)
<1>5. Sets(strm', strm, p, st)
  <2>1. strm[p] = Stream(strm[p].srv, strm[p].cli, strm[p].ok)
    BY <1>4, StreamFields, Zenon
  <2>2. PICK k : strm[p] = Stream("open", "open", k)
    BY <1>2, <1>4, <2>1, Zenon
  <2>3. \A v : WithOk(Stream("open", "open", k), v) = Stream("open", "open", v)
    BY StreamSet
  <2>4. Sets(strm', strm, p, WithOk(strm[p], TRUE))
    BY Zenon DEF SendOk, Sets, WithOk
  <2> QED
    BY <2>2, <2>3, <2>4, Zenon
<1>6. st \in StreamStates /\ st.srv = "open" /\ st.cli = "open" /\ st.ok
  BY Zenon DEF Stream, StreamStates
<1> HIDE DEF st
<1>7. Link(pub[p], loc[p], "bridge", cli[p], st)
  BY <1>2, <1>3, <1>4, <1>6, NoStreamParts, Zenon DEF Link
<1>8. TypeOK' /\ \A q \in Peers : Linked(q)'
  <2>1. Becomes(p, pub[p], loc[p], "bridge", cli[p], st)
    BY <1>1, <1>2, <1>5, <1>6, <1>7, Parts, Same, Zenon DEF Becomes, SrvStates
  <2> QED
    BY <1>1, <2>1, LinksKept, Zenon
<1>9. Accounted(srv', srvSlots', SrvStreams) /\ Accounted(cli', cliSlots', CliStreams)
  <2>1. Only(srv', srv, p, "bridge")
    BY <1>1, <1>2, OnlyThat, Zenon
  <2>2. Accounted(srv', srvSlots, SrvStreams)
    BY <1>1, <1>2, <2>1, TaskGoesOn, Zenon DEF PermitsAccounted
  <2> QED
    BY <1>1, <1>2, <2>2, Zenon DEF PermitsAccounted
<1>10. Limited(strm')
  <2>1. Only(strm', strm, p, st)
    BY <1>1, <1>5, OnlyThat, Zenon
  <2>2. strm[p] # NoStream
    BY <1>2, NoStreamParts, Zenon
  <2> QED
    BY <1>1, <2>1, <2>2, StreamGoesOn, Zenon
<1> QED
  BY <1>8, <1>9, <1>10, Zenon DEF IInv, PermitsAccounted

\* The task of the server ends, in whatever state it is.
LEMMA ServerEndsKeeps == ASSUME IInv, NEW p \in Peers, srv[p] # "none", ServerEnds(p) PROVE IInv'
<1> DEFINE st == IF srv[p] = "opening" THEN strm[p] ELSE LetGo(strm[p], "srv")
<1>1. TypeOK /\ (\A q \in Peers : Linked(q)) /\ PermitsAccounted /\ Limited(strm)
  BY Zenon DEF IInv
<1>2. /\ Sets(srv', srv, p, "none") /\ Sets(pub', pub, p, "none") /\ Sets(strm', strm, p, st)
      /\ srvSlots' = Returned(srvSlots) /\ UNCHANGED <<loc, cli, cliSlots>>
  BY Zenon DEF ServerEnds, Sets
<1>3. Link(pub[p], loc[p], srv[p], cli[p], strm[p])
  BY <1>1, Zenon DEF Linked
<1>4. strm[p] \in StreamStates /\ srv[p] \in SrvStates
  BY <1>1, Parts, Zenon
<1>5. /\ st \in StreamStates /\ Link("none", loc[p], "none", cli[p], st)
      /\ strm[p] # NoStream \/ st = NoStream
  <2>1. CASE srv[p] = "opening"
    <3>1. strm[p] = NoStream /\ st = NoStream
      BY <1>3, <2>1, Zenon DEF Link
    <3>2. Link("none", loc[p], "none", cli[p], NoStream)
      BY <1>3, <2>1, <3>1, NoStreamParts, Zenon DEF Link
    <3> QED
      BY <3>1, <3>2, NoStreamParts, Zenon
  <2>2. CASE srv[p] # "opening"
    <3>1. strm[p].srv = "open" /\ strm[p] # NoStream
      BY <1>3, <1>4, <2>2, NoStreamParts, Zenon DEF Link, SrvStates
    <3>2. CASE strm[p].cli = "gone"
      <4>1. st = NoStream
        BY <1>4, <2>2, <3>2, ServerLetsGo, Zenon
      <4>2. Link("none", loc[p], "none", cli[p], NoStream)
        BY <1>3, <3>2, NoStreamParts, Zenon DEF Link
      <4> QED
        BY <3>1, <4>1, <4>2, NoStreamParts, Zenon
    <3>3. CASE strm[p].cli # "gone"
      <4>1. st = Stream("gone", strm[p].cli, strm[p].ok)
        BY <1>4, <2>2, <3>3, ServerLetsGo, Zenon
      <4> HIDE DEF st
      <4>2. /\ strm[p].cli \in {"none", "open", "gone"} /\ strm[p].ok \in BOOLEAN
        BY <1>4, StreamFields, Zenon
      <4>3. /\ st \in StreamStates /\ st.srv = "gone" /\ st.cli = strm[p].cli
            /\ (st.ok <=> strm[p].ok)
        BY <4>1, <4>2, Zenon DEF Stream, StreamStates
      <4>4. Link("none", loc[p], "none", cli[p], st)
        BY <1>3, <3>3, <4>3, NoStreamParts, Zenon DEF Link
      <4> QED
        BY <3>1, <4>3, <4>4, Zenon
    <3> QED
      BY <3>2, <3>3, Zenon
  <2> QED
    BY <2>1, <2>2, Zenon
<1> HIDE DEF st
<1>6. TypeOK' /\ \A q \in Peers : Linked(q)'
  <2>1. Becomes(p, "none", loc[p], "none", cli[p], st)
    BY <1>1, <1>2, <1>5, Parts, Same, Zenon DEF Becomes, SrvStates, PubStates
  <2> QED
    BY <1>1, <2>1, LinksKept, Zenon
<1>7. Accounted(srv', srvSlots', SrvStreams) /\ Accounted(cli', cliSlots', CliStreams)
  <2>1. Only(srv', srv, p, "none") /\ Accounted(srv, srvSlots, SrvStreams)
    BY <1>1, <1>2, OnlyThat, Zenon DEF PermitsAccounted
  <2>2. Accounted(srv', Returned(srvSlots), SrvStreams)
    BY <2>1, TaskEnds
  <2> QED
    BY <1>1, <1>2, <2>2, Zenon DEF PermitsAccounted
<1>8. Limited(strm')
  <2>1. Only(strm', strm, p, st)
    BY <1>1, <1>2, OnlyThat, Zenon
  <2> QED
    BY <1>1, <1>5, <2>1, StreamGoesOn, Zenon
<1> QED
  BY <1>6, <1>7, <1>8, Zenon DEF IInv, PermitsAccounted

-----------------------------------------------------------------------------
(* The client                                                              *)

\* The client has let go of a stream: what is left of it is linked to no task.
LEMMA LetGoLinks ==
  ASSUME NEW pb, NEW lc, NEW sv, NEW cl, NEW old \in StreamStates,
         Link(pb, lc, sv, cl, old), old # NoStream
  PROVE  LetGo(old, "cli") \in StreamStates /\ Link(pb, "none", sv, "none", LetGo(old, "cli"))
<1>1. CASE old.srv = "gone"
  <2>1. LetGo(old, "cli") = NoStream
    BY <1>1, ClientLetsGo, Zenon
  <2>2. Link(pb, "none", sv, "none", NoStream)
    BY <1>1, NoStreamParts, Zenon DEF Link
  <2> QED
    BY <2>1, <2>2, NoStreamParts, Zenon
<1>2. CASE old.srv # "gone"
  <2>1. PICK st : st = Stream(old.srv, "gone", old.ok)
    BY Zenon
  <2>2. old.srv \in {"none", "open", "gone"} /\ old.ok \in BOOLEAN
    BY StreamFields, Zenon
  <2>3. /\ st \in StreamStates /\ st.srv = old.srv /\ st.cli = "gone"
        /\ (st.ok <=> old.ok)
    BY <2>1, <2>2, Zenon DEF Stream, StreamStates
  <2>4. Link(pb, "none", sv, "none", st)
    BY <1>2, <2>3, Zenon DEF Link
  <2>5. LetGo(old, "cli") = st
    BY <1>2, <2>1, ClientLetsGo, Zenon
  <2> QED
    BY <2>3, <2>4, <2>5, Zenon
<1> QED
  BY <1>1, <1>2, Zenon

LEMMA AcceptBiKeeps == ASSUME IInv, NEW p \in Peers, AcceptBi(p) PROVE IInv'
<1>1. TypeOK /\ (\A q \in Peers : Linked(q)) /\ PermitsAccounted /\ Limited(strm)
  BY Zenon DEF IInv
<1>2. /\ strm[p] # NoStream /\ strm[p].cli = "none"
      /\ UNCHANGED <<pub, loc, srv, srvSlots>>
  BY Zenon DEF AcceptBi
<1>3. Link(pub[p], loc[p], srv[p], cli[p], strm[p]) /\ strm[p] \in StreamStates
  BY <1>1, Parts, Zenon DEF Linked
<1>4. cli[p] = "none" /\ loc[p] = "none" /\ strm[p].srv # "none"
  BY <1>2, <1>3, Zenon DEF Link
<1>5. Accounted(srv', srvSlots', SrvStreams)
  BY <1>1, <1>2, Zenon DEF PermitsAccounted
<1>6. CASE cliSlots > 0
  <2> DEFINE st == WithCli(strm[p], "open")
  <2>1. /\ Sets(cli', cli, p, "setup") /\ Sets(strm', strm, p, st) /\ cliSlots' = cliSlots - 1
    BY <1>6, Zenon DEF AcceptBi, Sets, WithCli
  <2> HIDE DEF st
  <2>2. PICK s, k : /\ strm[p] = Stream(s, "none", k) /\ s = strm[p].srv
                    /\ k = strm[p].ok
    <3>1. strm[p] = Stream(strm[p].srv, strm[p].cli, strm[p].ok)
      BY <1>3, StreamFields, Zenon
    <3> QED
      BY <1>2, <3>1, Zenon
  <2>3. st = Stream(s, "open", k)
    <3>1. WithCli(Stream(s, "none", k), "open") = Stream(s, "open", k)
      BY StreamSet
    <3> QED
      BY <2>2, <3>1, Zenon DEF st
  <2>4. s \in {"none", "open", "gone"} /\ k \in BOOLEAN
    BY <1>3, <2>2, StreamFields, Zenon
  <2>5. /\ st \in StreamStates /\ st.srv = strm[p].srv /\ st.cli = "open"
        /\ (st.ok <=> strm[p].ok)
    BY <2>2, <2>3, <2>4, Zenon DEF Stream, StreamStates
  <2>6. Link(pub[p], loc[p], srv[p], "setup", st)
    BY <1>2, <1>3, <1>4, <2>5, Zenon DEF Link
  <2>7. TypeOK' /\ \A q \in Peers : Linked(q)'
    <3>1. Becomes(p, pub[p], loc[p], srv[p], "setup", st)
      BY <1>1, <1>2, <2>1, <2>5, <2>6, Parts, Same, Zenon DEF Becomes, CliStates
    <3> QED
      BY <1>1, <3>1, LinksKept, Zenon
  <2>8. Only(cli', cli, p, "setup") /\ Only(strm', strm, p, st)
    BY <1>1, <2>1, OnlyThat, Zenon
  <2>9. Accounted(cli', cliSlots', CliStreams)
    <3>1. Accounted(cli, cliSlots, CliStreams)
      BY <1>1, Zenon DEF PermitsAccounted
    <3>2. Accounted(cli', cliSlots - 1, CliStreams)
      BY <1>4, <1>6, <2>8, <3>1, TaskStarts
    <3> QED
      BY <2>1, <3>2, Zenon
  <2>10. Limited(strm')
    BY <1>1, <1>2, <2>8, StreamGoesOn, Zenon
  <2> QED
    BY <1>5, <2>7, <2>9, <2>10, Zenon DEF IInv, PermitsAccounted
<1>7. CASE ~(cliSlots > 0)
  <2> DEFINE st == LetGo(strm[p], "cli")
  <2>1. Sets(strm', strm, p, st) /\ UNCHANGED <<cli, cliSlots>>
    BY <1>7, Zenon DEF AcceptBi, Sets
  <2>2. st \in StreamStates /\ Link(pub[p], "none", srv[p], "none", st)
    BY <1>2, <1>3, LetGoLinks, Zenon
  <2> HIDE DEF st
  <2>3. TypeOK' /\ \A q \in Peers : Linked(q)'
    <3>1. Becomes(p, pub[p], loc[p], srv[p], cli[p], st)
      BY <1>1, <1>2, <1>4, <2>1, <2>2, Parts, Same, Zenon DEF Becomes
    <3> QED
      BY <1>1, <3>1, LinksKept, Zenon
  <2>4. Limited(strm')
    <3>1. Only(strm', strm, p, st)
      BY <1>1, <2>1, OnlyThat, Zenon
    <3> QED
      BY <1>1, <1>2, <3>1, StreamGoesOn, Zenon
  <2> QED
    BY <1>1, <1>5, <2>1, <2>3, <2>4, Zenon DEF IInv, PermitsAccounted
<1> QED
  BY <1>6, <1>7, Zenon

\* The "ok" is read; the local target is reached.
LEMMA DialKeeps ==
  ASSUME IInv, NEW p \in Peers, ReadOk(p) \/ LocalConnect(p)
  PROVE  IInv'
<1>1. TypeOK /\ (\A q \in Peers : Linked(q)) /\ PermitsAccounted /\ Limited(strm)
  BY Zenon DEF IInv
<1>2. UNCHANGED <<pub, srv, strm, srvSlots, cliSlots>>
  BY Zenon DEF ReadOk, LocalConnect
<1>3. Link(pub[p], loc[p], srv[p], cli[p], strm[p])
  BY <1>1, Zenon DEF Linked
<1>4. PICK lc \in LocStates, cl \in {"connect", "bridge"} :
        /\ Sets(loc', loc, p, lc) /\ Sets(cli', cli, p, cl)
        /\ Link(pub[p], lc, srv[p], cl, strm[p])
  <2>1. CASE ReadOk(p)
    <3>1. /\ Sets(cli', cli, p, "connect") /\ loc' = loc /\ cli[p] = "setup" /\ strm[p].ok
      BY <2>1, Zenon DEF ReadOk, Sets
    <3>2. Sets(loc', loc, p, loc[p]) /\ loc[p] \in LocStates
      BY <1>1, <3>1, Parts, Same, Zenon
    <3>3. Link(pub[p], loc[p], srv[p], "connect", strm[p])
      BY <1>3, <3>1, Zenon DEF Link
    <3> QED
      BY <3>1, <3>2, <3>3, Zenon
  <2>2. CASE LocalConnect(p)
    <3>1. Sets(cli', cli, p, "bridge") /\ Sets(loc', loc, p, "open") /\ cli[p] = "connect"
      BY <2>2, Zenon DEF LocalConnect, Sets
    <3>2. Link(pub[p], "open", srv[p], "bridge", strm[p])
      BY <1>3, <3>1, Zenon DEF Link
    <3> QED
      BY <3>1, <3>2, Zenon DEF LocStates
  <2> QED
    BY <2>1, <2>2, Zenon
<1>5. cli[p] # "none" /\ cl # "none" /\ cl \in CliStates
  BY Zenon DEF ReadOk, LocalConnect, CliStates
<1>6. TypeOK' /\ \A q \in Peers : Linked(q)'
  <2>1. Becomes(p, pub[p], lc, srv[p], cl, strm[p])
    BY <1>1, <1>2, <1>4, <1>5, Parts, Same, Zenon DEF Becomes
  <2> QED
    BY <1>1, <2>1, LinksKept, Zenon
<1>7. Accounted(cli', cliSlots', CliStreams)
  <2>1. Only(cli', cli, p, cl)
    BY <1>1, <1>4, OnlyThat, Zenon
  <2>2. Accounted(cli', cliSlots, CliStreams)
    BY <1>1, <1>5, <2>1, TaskGoesOn, Zenon DEF PermitsAccounted
  <2> QED
    BY <1>2, <2>2, Zenon
<1> QED
  BY <1>1, <1>2, <1>6, <1>7, Zenon DEF IInv, PermitsAccounted

\* The task of the client ends, in whatever state it is.
LEMMA ClientEndsKeeps == ASSUME IInv, NEW p \in Peers, cli[p] # "none", ClientEnds(p) PROVE IInv'
<1> DEFINE st == LetGo(strm[p], "cli")
<1>1. TypeOK /\ (\A q \in Peers : Linked(q)) /\ PermitsAccounted /\ Limited(strm)
  BY Zenon DEF IInv
<1>2. /\ Sets(cli', cli, p, "none") /\ Sets(loc', loc, p, "none") /\ Sets(strm', strm, p, st)
      /\ cliSlots' = Returned(cliSlots) /\ UNCHANGED <<pub, srv, srvSlots>>
  BY Zenon DEF ClientEnds, Sets
<1>3. Link(pub[p], loc[p], srv[p], cli[p], strm[p]) /\ strm[p] \in StreamStates
  BY <1>1, Parts, Zenon DEF Linked
<1>4. strm[p] # NoStream
  BY <1>3, NoStreamParts, Zenon DEF Link
<1>5. st \in StreamStates /\ Link(pub[p], "none", srv[p], "none", st)
  BY <1>3, <1>4, LetGoLinks, Zenon
<1> HIDE DEF st
<1>6. TypeOK' /\ \A q \in Peers : Linked(q)'
  <2>1. Becomes(p, pub[p], "none", srv[p], "none", st)
    BY <1>1, <1>2, <1>5, Parts, Same, Zenon DEF Becomes, CliStates, LocStates
  <2> QED
    BY <1>1, <2>1, LinksKept, Zenon
<1>7. Only(cli', cli, p, "none") /\ Only(strm', strm, p, st)
  BY <1>1, <1>2, OnlyThat, Zenon
<1>8. Accounted(srv', srvSlots', SrvStreams) /\ Accounted(cli', cliSlots', CliStreams)
  <2>1. Accounted(cli, cliSlots, CliStreams)
    BY <1>1, Zenon DEF PermitsAccounted
  <2>2. Accounted(cli', Returned(cliSlots), CliStreams)
    BY <1>7, <2>1, TaskEnds
  <2> QED
    BY <1>1, <1>2, <2>2, Zenon DEF PermitsAccounted
<1>9. Limited(strm')
  BY <1>1, <1>4, <1>7, StreamGoesOn, Zenon
<1> QED
  BY <1>6, <1>8, <1>9, Zenon DEF IInv, PermitsAccounted

-----------------------------------------------------------------------------

\* A session starts as the first one did.
Fresh ==
  /\ pub = [p \in Peers |-> "none"] /\ loc = [p \in Peers |-> "none"]
  /\ srv = [p \in Peers |-> "none"] /\ cli = [p \in Peers |-> "none"]
  /\ strm = [p \in Peers |-> NoStream]
  /\ srvSlots = SrvStreams /\ cliSlots = CliStreams

LEMMA FreshHolds == Fresh => IInv
<1> SUFFICES ASSUME Fresh PROVE IInv
  OBVIOUS
<1>1. TypeOK
  BY NoStreamParts, Zenon DEF Fresh, TypeOK, PubStates, LocStates, SrvStates, CliStates
<1>2. ASSUME NEW p \in Peers PROVE Linked(p)
  <2>1. /\ pub[p] = "none" /\ loc[p] = "none" /\ srv[p] = "none" /\ cli[p] = "none"
        /\ strm[p] = NoStream
    BY Zenon DEF Fresh
  <2>2. Link("none", "none", "none", "none", NoStream)
    BY NoStreamParts, Zenon DEF Link
  <2> QED
    BY <2>1, <2>2, Zenon DEF Linked
<1>3. Busy(srv) = {} /\ Busy(cli) = {} /\ Open(strm) = {}
  BY Zenon DEF Fresh, Busy, Open
<1>4. IsFiniteSet({}) /\ Cardinality({}) = 0
  BY FS_EmptySet, Zenon
<1>5. srvSlots = SrvStreams /\ cliSlots = CliStreams
  BY Zenon DEF Fresh
<1>6. PermitsAccounted /\ Limited(strm)
  BY <1>3, <1>4, <1>5, ForwardAssumption DEF PermitsAccounted, Accounted, Limited
<1> QED
  BY <1>1, <1>2, <1>6, Zenon DEF IInv

LEMMA Initially == Init => IInv
BY FreshHolds, Zenon DEF Init, Fresh

LEMMA FreshKeeps == Fresh' => IInv'
BY FreshHolds, PTL

LEMMA StutterKeeps ==
  ASSUME IInv, UNCHANGED <<pub, loc, srv, cli, strm, srvSlots, cliSlots>>
  PROVE  IInv'
<1>1. TypeOK'
  BY Zenon DEF IInv, TypeOK
<1>2. ASSUME NEW p \in Peers PROVE Linked(p)'
  BY Zenon DEF IInv, Linked
<1>3. PermitsAccounted' /\ Limited(strm')
  BY Zenon DEF IInv, PermitsAccounted
<1> QED
  BY <1>1, <1>2, <1>3, Zenon DEF IInv

LEMMA Inductive == ASSUME IInv, [Next]_vars PROVE IInv'
<1>1. CASE TargetFlips \/ UNCHANGED vars
  BY <1>1, StutterKeeps, Zenon DEF TargetFlips, vars
<1>2. CASE SessionEnds
  BY <1>2, FreshKeeps, Zenon DEF SessionEnds, Fresh
<1>3. ASSUME NEW p \in Peers, PeerConnects(p) \/ PeerCloses(p) \/ TargetCloses(p) PROVE IInv'
  BY <1>3, PeersKeep, Zenon
<1>4. ASSUME NEW p \in Peers, Server(p) \/ ServerFails(p) PROVE IInv'
  <2>1. CASE AcceptTcp(p) \/ OpenBi(p) \/ SendOk(p)
    BY <2>1, AcceptTcpKeeps, OpenBiKeeps, SendOkKeeps, Zenon
  <2>2. CASE ServerRefused(p) \/ ServerTimeout(p) \/ ServerBridged(p) \/ ServerFails(p)
    <3>1. srv[p] # "none" /\ ServerEnds(p)
      BY <2>2, Zenon DEF ServerRefused, ServerTimeout, InSetup, ServerBridged, ServerFails
    <3> QED
      BY <3>1, ServerEndsKeeps, Zenon
  <2> QED
    BY <1>4, <2>1, <2>2, Zenon DEF Server
<1>5. ASSUME NEW p \in Peers, Client(p) \/ ClientFails(p) PROVE IInv'
  <2>1. CASE AcceptBi(p) \/ ReadOk(p) \/ LocalConnect(p)
    BY <2>1, AcceptBiKeeps, DialKeeps, Zenon
  <2>2. CASE \/ LocalRefused(p) \/ ClientRefused(p) \/ ClientTimeout(p)
             \/ ClientBridged(p) \/ ClientFails(p)
    <3>1. cli[p] # "none" /\ ClientEnds(p)
      BY <2>2, Zenon DEF LocalRefused, ClientRefused, ClientTimeout, ClientBridged, ClientFails
    <3> QED
      BY <3>1, ClientEndsKeeps, Zenon
  <2> QED
    BY <1>5, <2>1, <2>2, Zenon DEF Client
<1> QED
  BY <1>1, <1>2, <1>3, <1>4, <1>5, Zenon DEF Next

LEMMA Invariant == Spec => []IInv
  BY Initially, Inductive, PTL DEF Spec

\* For any number of connections and any max_streams: the permits of tcp_listener
\* and of the client's accept_bi branch come back with their tasks, however the
\* tasks end, and bound the tasks of both ends.
THEOREM PermitsNeverStray == Spec => []PermitsAccounted
<1>1. IInv => PermitsAccounted
  BY Zenon DEF IInv
<1> QED
  BY <1>1, Invariant, PTL

\* tcp_client connects to its local target only once the server's "ok" is on the
\* stream, which it writes as it starts to bridge: a target never sees a
\* connection that the server has not committed to, whichever end times out.
THEOREM TargetSeesConfirmed == Spec => []DialsConfirmed
<1>1. IInv => DialsConfirmed
  <2> SUFFICES ASSUME IInv, NEW p \in Peers, cli[p] = "connect" \/ loc[p] # "none"
               PROVE  strm[p].ok /\ (srv[p] = "bridge" \/ strm[p].srv = "gone")
    BY Zenon DEF DialsConfirmed
  <2>1. Link(pub[p], loc[p], srv[p], cli[p], strm[p])
    BY Zenon DEF IInv, Linked
  <2> QED
    BY <2>1, Zenon DEF Link
<1> QED
  BY <1>1, Invariant, PTL

\* open_bi stays within the client's stream limit, and a stream that both ends are
\* done with, by whatever paths, is given back: it cannot block open_bi for ever.
THEOREM NoStreamStays == Spec => []StreamsHeld
<1>1. IInv => StreamsHeld
  <2> SUFFICES ASSUME IInv PROVE StreamsHeld
    OBVIOUS
  <2>1. IsFiniteSet(Streams) /\ Cardinality(Streams) <= CliStreams + 1
    BY Zenon DEF IInv, Limited, Open, Streams
  <2>2. ASSUME NEW p \in Streams
        PROVE  srv[p] \in {"setup", "bridge"} \/ cli[p] # "none" \/ strm[p].cli = "none"
    <3>1. p \in Peers /\ strm[p] # NoStream
      BY Zenon DEF Streams
    <3>2. Link(pub[p], loc[p], srv[p], cli[p], strm[p]) /\ strm[p] \in StreamStates
      BY <3>1, Parts, Zenon DEF IInv, Linked
    <3>3. strm[p].srv \in {"none", "open", "gone"} /\ strm[p].cli \in {"none", "open", "gone"}
      BY <3>2, StreamFields, Zenon
    <3> QED
      BY <3>1, <3>2, <3>3, Zenon DEF Link
  <2> QED
    BY <2>1, <2>2, Zenon DEF StreamsHeld
<1> QED
  BY <1>1, Invariant, PTL
=============================================================================
