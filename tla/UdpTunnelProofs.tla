-------------------------- MODULE UdpTunnelProofs ---------------------------
(***************************************************************************)
(* SourceIsolation (module UdpTunnel) for any services, peers, limits and  *)
(* timeouts.  The history `granted` says for ever which source a flow ID   *)
(* was given to; everything that carries an ID, at either end or between   *)
(* them, carries data of that source.                                      *)
(*                                                                         *)
(* The later sections prove the two ends by themselves.  The server's      *)
(* table (ServerFlows) stays consistent and bounded, and a flow ID belongs *)
(* to one source for ever.  The client's workers (ClientFlows) match its   *)
(* map of flows, and no permit of the byte budget is lost.  The tunnel     *)
(* contains both.                                                          *)
(***************************************************************************)
EXTENDS UdpTunnel, TLAPS

-----------------------------------------------------------------------------
(* What a step of the client does to a worker                              *)

Rec(key, pc, queue, hand, heard) ==
  [key |-> key, pc |-> pc, queue |-> queue, hand |-> hand, heard |-> heard]

Nil == <<>>

IsRec(x) == x = Rec(x.key, x.pc, x.queue, x.hand, x.heard)

Bound(x)   == Rec(x.key, "select", x.queue, x.hand, x.heard)
Taking(x)  == Rec(x.key, "send", Tail(x.queue), <<Head(x.queue)>>, x.heard)
Sending(x) == Rec(x.key, "select", x.queue, Nil, x.heard \cup {x.hand[1].data})
Stopped(x) == Rec(x.key, "done", Nil, Nil, x.heard)
Queueing(x, payload) == Rec(x.key, x.pc, Append(x.queue, payload), x.hand, x.heard)

\* One worker becomes another; no other changes.
Now(after, before, w, worker) ==
  /\ DOMAIN after = DOMAIN before
  /\ after[w] = worker
  /\ \A v \in DOMAIN before : v # w => after[v] = before[v]

Becomes(w, worker) == Now(workers', workers, w, worker)

SetsPc(g, ws, w, e)    == g = [ws EXCEPT ![w].pc = e]
SetsQueue(g, ws, w, e) == g = [ws EXCEPT ![w].queue = e]
SetsHand(g, ws, w, e)  == g = [ws EXCEPT ![w].hand = e]
SetsHeard(g, ws, w, e) == g = [ws EXCEPT ![w].heard = e]

\* An assignment to a field of a worker changes that field alone, and several
\* of them in a row change one worker.
LEMMA FieldSet ==
  ASSUME NEW f, NEW ws, NEW g, NEW w \in DOMAIN f,
         NEW a, NEW b, NEW c, NEW d, NEW e, NEW x,
         Now(ws, f, w, Rec(a, b, c, d, e))
  PROVE  /\ SetsPc(g, ws, w, x) => Now(g, f, w, Rec(a, x, c, d, e))
         /\ SetsQueue(g, ws, w, x) => Now(g, f, w, Rec(a, b, x, d, e))
         /\ SetsHand(g, ws, w, x) => Now(g, f, w, Rec(a, b, c, x, e))
         /\ SetsHeard(g, ws, w, x) => Now(g, f, w, Rec(a, b, c, d, x))
<1>0. /\ w \in DOMAIN ws /\ ws[w] = Rec(a, b, c, d, e) /\ DOMAIN ws = DOMAIN f
      /\ \A v \in DOMAIN f : v # w => ws[v] = f[v]
  BY Zenon DEF Now
<1>1. SetsPc(g, ws, w, x) => Now(g, f, w, Rec(a, x, c, d, e))
  BY <1>0 DEF Now, SetsPc, Rec
<1>2. SetsQueue(g, ws, w, x) => Now(g, f, w, Rec(a, b, x, d, e))
  BY <1>0 DEF Now, SetsQueue, Rec
<1>3. SetsHand(g, ws, w, x) => Now(g, f, w, Rec(a, b, c, x, e))
  BY <1>0 DEF Now, SetsHand, Rec
<1>4. SetsHeard(g, ws, w, x) => Now(g, f, w, Rec(a, b, c, d, x))
  BY <1>0 DEF Now, SetsHeard, Rec
<1> QED
  BY <1>1, <1>2, <1>3, <1>4, Zenon

LEMMA BindBecomes ==
  ASSUME NEW w \in DOMAIN workers, IsRec(workers[w]), Bind(w)
  PROVE  Becomes(w, Bound(workers[w]))
<1> DEFINE x == workers[w]
<1>1. Now(workers, workers, w, Rec(x.key, x.pc, x.queue, x.hand, x.heard))
  BY Zenon DEF Now, IsRec
<1>2. SetsPc(workers', workers, w, "select")
  BY Zenon DEF Bind, SetsPc
<1>3. Now(workers', workers, w, Rec(x.key, "select", x.queue, x.hand, x.heard))
  BY <1>1, <1>2, FieldSet, Zenon
<1> QED
  BY <1>3, Zenon DEF Becomes, Bound

LEMMA TakeBecomes ==
  ASSUME NEW w \in DOMAIN workers, IsRec(workers[w]), Take(w)
  PROVE  Becomes(w, Taking(workers[w]))
<1> DEFINE x == workers[w]
           q == Tail(x.queue)
           h == <<Head(x.queue)>>
           f == [workers EXCEPT ![w].pc = "send"]
           g == [f EXCEPT ![w].queue = q]
<1>1. Now(workers, workers, w, Rec(x.key, x.pc, x.queue, x.hand, x.heard))
  BY Zenon DEF Now, IsRec
<1>2. SetsPc(f, workers, w, "send") /\ SetsQueue(g, f, w, q) /\ SetsHand(workers', g, w, h)
  BY Zenon DEF Take, SetsPc, SetsQueue, SetsHand
<1> HIDE DEF f, g, q, h
<1>3. Now(f, workers, w, Rec(x.key, "send", x.queue, x.hand, x.heard))
  BY <1>1, <1>2, FieldSet, Zenon
<1>4. Now(g, workers, w, Rec(x.key, "send", q, x.hand, x.heard))
  BY <1>2, <1>3, FieldSet, Zenon
<1>5. Now(workers', workers, w, Rec(x.key, "send", q, h, x.heard))
  BY <1>2, <1>4, FieldSet, Zenon
<1> QED
  BY <1>5, Zenon DEF Becomes, Taking, q, h

LEMMA SentBecomes ==
  ASSUME NEW w \in DOMAIN workers, IsRec(workers[w]), Sent(w)
  PROVE  Becomes(w, Sending(workers[w]))
<1> DEFINE x == workers[w]
           s == x.heard \cup {x.hand[1].data}
           f == [workers EXCEPT ![w].pc = "select"]
           g == [f EXCEPT ![w].hand = Nil]
<1>1. Now(workers, workers, w, Rec(x.key, x.pc, x.queue, x.hand, x.heard))
  BY Zenon DEF Now, IsRec
<1>2. SetsPc(f, workers, w, "select") /\ SetsHand(g, f, w, Nil) /\ SetsHeard(workers', g, w, s)
  BY Zenon DEF Sent, Nil, SetsPc, SetsHand, SetsHeard
<1> HIDE DEF f, g, s
<1>3. Now(f, workers, w, Rec(x.key, "select", x.queue, x.hand, x.heard))
  BY <1>1, <1>2, FieldSet, Zenon
<1>4. Now(g, workers, w, Rec(x.key, "select", x.queue, Nil, x.heard))
  BY <1>2, <1>3, FieldSet, Zenon
<1>5. Now(workers', workers, w, Rec(x.key, "select", x.queue, Nil, s))
  BY <1>2, <1>4, FieldSet, Zenon
<1> QED
  BY <1>5, Zenon DEF Becomes, Sending, s

LEMMA StopBecomes ==
  ASSUME NEW w \in DOMAIN workers, IsRec(workers[w]), Stop(w)
  PROVE  Becomes(w, Stopped(workers[w]))
<1> DEFINE x == workers[w]
           f == [workers EXCEPT ![w].pc = "done"]
           g == [f EXCEPT ![w].queue = Nil]
<1>1. Now(workers, workers, w, Rec(x.key, x.pc, x.queue, x.hand, x.heard))
  BY Zenon DEF Now, IsRec
<1>2. SetsPc(f, workers, w, "done") /\ SetsQueue(g, f, w, Nil) /\ SetsHand(workers', g, w, Nil)
  BY Zenon DEF Stop, Nil, SetsPc, SetsQueue, SetsHand
<1> HIDE DEF f, g
<1>3. Now(f, workers, w, Rec(x.key, "done", x.queue, x.hand, x.heard))
  BY <1>1, <1>2, FieldSet, Zenon
<1>4. Now(g, workers, w, Rec(x.key, "done", Nil, x.hand, x.heard))
  BY <1>2, <1>3, FieldSet, Zenon
<1>5. Now(workers', workers, w, Rec(x.key, "done", Nil, Nil, x.heard))
  BY <1>2, <1>4, FieldSet, Zenon
<1> QED
  BY <1>5, Zenon DEF Becomes, Stopped

\* A packet is dropped without effect, or goes to the end of the worker's queue.
LEMMA EnqueueBecomes ==
  ASSUME NEW ws, NEW w \in DOMAIN ws, IsRec(ws[w]), NEW payload, Enqueue(ws, w, payload)
  PROVE  \/ Now(workers', ws, w, ws[w]) /\ UNCHANGED permits
         \/ /\ Now(workers', ws, w, Queueing(ws[w], payload))
            /\ Accepts(ws[w], payload) /\ permits' = permits - Cost(payload)
<1> DEFINE x == ws[w]
           q == Append(x.queue, payload)
<1>1. CASE ~Accepts(x, payload)
  BY <1>1, Zenon DEF Enqueue, Now
<1>2. CASE Accepts(x, payload)
  <2>1. SetsQueue(workers', ws, w, q) /\ permits' = permits - Cost(payload)
    BY <1>2, Zenon DEF Enqueue, SetsQueue
  <2>2. Now(ws, ws, w, Rec(x.key, x.pc, x.queue, x.hand, x.heard))
    BY Zenon DEF Now, IsRec
  <2> HIDE DEF q
  <2>3. Now(workers', ws, w, Rec(x.key, x.pc, q, x.hand, x.heard))
    BY <2>1, <2>2, FieldSet, Zenon
  <2> QED
    BY <1>2, <2>1, <2>3, Zenon DEF Queueing, q
<1> QED
  BY <1>1, <1>2, Zenon

\* A new worker joins the others.
Grown(ws, w, k) ==
  /\ DOMAIN ws = DOMAIN workers \cup {w}
  /\ ws[w] = NewWorker(k)
  /\ \A v \in DOMAIN workers : ws[v] = workers[v]

LEMMA SpawnGrows ==
  ASSUME NEW k, NEW payload, NEW w, Spawn(k, payload, w)
  PROVE  \E ws : Grown(ws, w, k) /\ Enqueue(ws, w, payload)
<1> DEFINE ws == Insert(workers, w, NewWorker(k))
<1>1. w \notin DOMAIN workers /\ Enqueue(ws, w, payload)
  BY Zenon DEF Spawn
<1>2. Grown(ws, w, k)
  BY <1>1, Zenon DEF Insert, Grown
<1> QED
  BY <1>1, <1>2, Zenon

\* Every worker starts as udp_flow does.
LEMMA NewWorkerRec ==
  ASSUME NEW k
  PROVE  IsRec(NewWorker(k)) /\ NewWorker(k) = Rec(k, "bind", Nil, Nil, {})
  BY DEF NewWorker, IsRec, Rec, Nil

-----------------------------------------------------------------------------
(* The inductive invariant                                                 *)

\* the server's tables give a flow ID to the source it was granted to
Table ==
  /\ next \in Nat
  /\ DOMAIN granted \subseteq Nat /\ \A f \in DOMAIN granted : f < next
  /\ \A f \in DOMAIN by_id :
       /\ by_id[f] \in [service : Services, peer : Peers, age : Nat]
       /\ f \in DOMAIN granted /\ granted[f] = <<by_id[f].service, by_id[f].peer>>
  /\ \A k \in DOMAIN by_peer : by_peer[k] \in DOMAIN granted /\ granted[by_peer[k]] = k

\* data under the key k are of the source that k's flow ID was granted to
Owned(k, d) == k[2] \in DOMAIN granted /\ d = granted[k[2]]

PacketsOf(d) == [data : {d}, size : {1}]

\* a worker with key k that has seen data d only
Worker(k, d) ==
  [key : {k}, pc : {"bind", "select", "send", "done"}, queue : Seq(PacketsOf(d)),
   hand : Seq(PacketsOf(d)), heard : SUBSET {d}]

Honest(worker) ==
  /\ Owned(worker.key, granted[worker.key[2]])
  /\ worker \in Worker(worker.key, granted[worker.key[2]])
  /\ worker.pc = "send" => worker.hand # <<>>

Served ==
  /\ \A k \in DOMAIN flows : flows[k] \in DOMAIN workers /\ workers[flows[k]].key = k
  /\ \A w \in DOMAIN workers : Honest(workers[w])

Channels == \A m \in down \cup back : Owned(m.key, m.data)

Routed == \A o \in out : o.data = <<o.service, o.peer>>

IInv == Table /\ Served /\ Channels /\ Routed

LEMMA Initially == TunnelInit => IInv
  BY DEF TunnelInit, Init, ClientInit, EmptyMap, IInv, Table, Served, Channels, Routed

-----------------------------------------------------------------------------
(* The server's table                                                      *)

\* What was granted stays granted.
Grows == \A f \in DOMAIN granted : f \in DOMAIN granted' /\ granted'[f] = granted[f]

LEMMA OwnedStays ==
  ASSUME Grows, NEW k, NEW d, Owned(k, d)
  PROVE  Owned(k, d)'
  BY Zenon DEF Grows, Owned

Touches(f) == by_id' = [by_id EXCEPT ![f].age = 0] /\ UNCHANGED <<next, by_peer, granted>>

\* A flow that is touched keeps its source.
LEMMA TouchKeeps ==
  ASSUME Table, NEW f, Touches(f)
  PROVE  Table' /\ Grows
<1> USE DEF Touches
<1>1. DOMAIN by_id' = DOMAIN by_id
  BY Zenon
<1>2. ASSUME NEW g \in DOMAIN by_id
      PROVE  /\ by_id'[g] \in [service : Services, peer : Peers, age : Nat]
             /\ by_id'[g].service = by_id[g].service /\ by_id'[g].peer = by_id[g].peer
  <2>1. by_id[g] \in [service : Services, peer : Peers, age : Nat]
    BY Zenon DEF Table
  <2>2. CASE g = f
    BY <2>1, <2>2, Zenon
  <2>3. CASE g # f
    BY <2>1, <2>3, Zenon
  <2> QED
    BY <2>2, <2>3, Zenon
<1> QED
  BY <1>1, <1>2 DEF Table, Grows

LEMMA AdmitKeeps ==
  ASSUME Table, NEW s \in Services, NEW p \in Peers, NEW f, Admit(s, p, f)
  PROVE  Table' /\ Grows /\ f \in DOMAIN granted' /\ granted'[f] = <<s, p>>
<1>1. f = next /\ next' = next + 1 /\ f \notin DOMAIN granted /\ f \in Nat
  BY DEF Admit, NewId, Table
<1>2. /\ DOMAIN by_id' = DOMAIN by_id \cup {f}
      /\ by_id'[f] = [service |-> s, peer |-> p, age |-> 0]
      /\ \A g \in DOMAIN by_id : g # f => by_id'[g] = by_id[g]
  BY Zenon DEF Admit, Insert, NewFlow
<1>3. /\ DOMAIN by_peer' = DOMAIN by_peer \cup {<<s, p>>}
      /\ by_peer'[<<s, p>>] = f
      /\ \A k \in DOMAIN by_peer : k # <<s, p>> => by_peer'[k] = by_peer[k]
  BY Zenon DEF Admit, Insert
<1>4. /\ DOMAIN granted' = DOMAIN granted \cup {f}
      /\ granted'[f] = <<s, p>>
      /\ \A g \in DOMAIN granted : g # f => granted'[g] = granted[g]
  BY Zenon DEF Admit, Insert
<1>5. Grows
  BY <1>1, <1>4, Zenon DEF Grows
<1>6. next' \in Nat /\ DOMAIN granted' \subseteq Nat /\ \A g \in DOMAIN granted' : g < next'
  BY <1>1, <1>4 DEF Table
<1>7. ASSUME NEW g \in DOMAIN by_id'
      PROVE  /\ by_id'[g] \in [service : Services, peer : Peers, age : Nat]
             /\ g \in DOMAIN granted' /\ granted'[g] = <<by_id'[g].service, by_id'[g].peer>>
  <2>1. CASE g = f
    BY <1>2, <1>4, <2>1
  <2>2. CASE g # f
    BY <1>2, <1>4, <1>7, <2>2, Zenon DEF Table
  <2> QED
    BY <2>1, <2>2, Zenon
<1>8. ASSUME NEW k \in DOMAIN by_peer'
      PROVE  by_peer'[k] \in DOMAIN granted' /\ granted'[by_peer'[k]] = k
  <2>1. CASE k = <<s, p>>
    BY <1>3, <1>4, <2>1, Zenon
  <2>2. CASE k # <<s, p>>
    <3>1. k \in DOMAIN by_peer /\ by_peer'[k] = by_peer[k]
      BY <1>3, <1>8, <2>2, Zenon
    <3> QED
      BY <1>1, <1>4, <3>1, Zenon DEF Table
  <2> QED
    BY <2>1, <2>2, Zenon
<1> QED
  BY <1>4, <1>5, <1>6, <1>7, <1>8, Zenon DEF Table

LEMMA ServerWorksKeeps ==
  ASSUME Table, ServerWorks
  PROVE  Table' /\ Grows
<1>1. CASE expire
  <2>1. /\ DOMAIN by_id' \subseteq DOMAIN by_id /\ \A f \in DOMAIN by_id' : by_id'[f] = by_id[f]
        /\ DOMAIN by_peer' \subseteq DOMAIN by_peer
        /\ \A k \in DOMAIN by_peer' : by_peer'[k] = by_peer[k]
        /\ UNCHANGED <<next, granted>>
    BY <1>1, Zenon DEF expire, Retain, Restrict
  <2> QED
    BY <2>1, Zenon DEF Table, Grows
<1>2. CASE Advance
  <2>1. DOMAIN by_id' = DOMAIN by_id /\ UNCHANGED <<next, by_peer, granted>>
    BY <1>2, Zenon DEF Advance
  <2>2. ASSUME NEW f \in DOMAIN by_id
        PROVE  /\ by_id'[f] \in [service : Services, peer : Peers, age : Nat]
               /\ by_id'[f].service = by_id[f].service /\ by_id'[f].peer = by_id[f].peer
    <3>1. by_id[f] \in [service : Services, peer : Peers, age : Nat]
      BY Zenon DEF Table
    <3>2. by_id'[f] = [by_id[f] EXCEPT !.age = IF by_id[f].age < IdleTimeout THEN by_id[f].age + 1 ELSE by_id[f].age]
      BY <1>2, Zenon DEF Advance
    <3> QED
      BY <3>1, <3>2
  <2> QED
    BY <2>1, <2>2, Zenon DEF Table, Grows
<1>3. CASE End \/ \E s \in Services, p \in Peers : IdsExhausted(s, p)
  <2>1. UNCHANGED <<next, by_id, by_peer, granted>>
    <3>1. CASE End
      BY <3>1, Zenon DEF End
    <3>2. ASSUME NEW s \in Services, NEW p \in Peers, IdsExhausted(s, p)
          PROVE  UNCHANGED <<next, by_id, by_peer, granted>>
      BY <3>2, Zenon DEF IdsExhausted
    <3> QED
      BY <1>3, <3>1, <3>2, Zenon
  <2> QED
    BY <2>1, Zenon DEF Table, Grows
<1> QED
  BY <1>1, <1>2, <1>3, Zenon DEF ServerWorks

-----------------------------------------------------------------------------
(* The client's workers                                                    *)

\* A worker keeps what it is while grants are only added.
LEMMA HonestStays ==
  ASSUME Grows, NEW worker, Honest(worker)
  PROVE  Honest(worker)'
<1>1. granted'[worker.key[2]] = granted[worker.key[2]] /\ worker.key[2] \in DOMAIN granted'
  BY Zenon DEF Honest, Owned, Grows
<1> QED
  BY <1>1, Zenon DEF Honest, Owned, Worker, Payloads

LEMMA BecomesKeeps ==
  ASSUME Served, UNCHANGED <<flows, granted>>, NEW w \in DOMAIN workers, NEW worker,
         Becomes(w, worker), worker.key = workers[w].key, Honest(worker)
  PROVE  Served'
<1>1. \A v \in DOMAIN workers' : Honest(workers'[v])
  BY Zenon DEF Served, Becomes, Now
<1>2. \A v \in DOMAIN workers' : Honest(workers[v])'
  BY <1>1, HonestStays, Zenon DEF Grows
<1>3. \A k \in DOMAIN flows' : flows'[k] \in DOMAIN workers' /\ workers'[flows'[k]].key = k
  BY Zenon DEF Served, Becomes, Now
<1> QED
  BY <1>2, <1>3, Zenon DEF Served

LEMMA WorkKeeps ==
  ASSUME Served, UNCHANGED granted, NEW w \in DOMAIN workers, Work(w)
  PROVE  Served'
<1> DEFINE x == workers[w]
           d == granted[x.key[2]]
           P == PacketsOf(d)
<1>1. Honest(x)
  BY Zenon DEF Served
<1>2. /\ IsRec(x)
      /\ x.pc \in {"bind", "select", "send", "done"} /\ x.queue \in Seq(P)
      /\ x.hand \in Seq(P) /\ x.heard \in SUBSET {d}
      /\ x.pc = "send" => x.hand # <<>>
      /\ Owned(x.key, d)
  BY <1>1, Zenon DEF Honest, Worker, IsRec, Rec
<1>3. ASSUME NEW pc \in {"bind", "select", "send", "done"}, NEW queue \in Seq(P),
             NEW hand \in Seq(P), NEW heard \in SUBSET {d},
             pc = "send" => hand # <<>>,
             Becomes(w, Rec(x.key, pc, queue, hand, heard)), UNCHANGED flows
      PROVE  Served'
  <2> DEFINE y == Rec(x.key, pc, queue, hand, heard)
  <2>1. y.key = x.key /\ y.pc = pc /\ y.hand = hand
    BY Zenon DEF Rec
  <2>2. y \in Worker(x.key, d)
    BY <1>3, Zenon DEF Worker, Rec
  <2>3. Becomes(w, y)
    BY <1>3, Zenon
  <2> HIDE DEF y
  <2>4. Honest(y)
    BY <1>2, <1>3, <2>1, <2>2, Zenon DEF Honest
  <2> QED
    BY <1>3, <2>1, <2>3, <2>4, BecomesKeeps, Zenon
<1>4. Nil \in Seq(P)
  BY DEF Nil
<1> HIDE DEF P
<1>5. CASE Bind(w)
  <2>1. Becomes(w, Rec(x.key, "select", x.queue, x.hand, x.heard)) /\ UNCHANGED flows
    BY <1>2, <1>5, BindBecomes, Zenon DEF Bind, Bound
  <2> QED
    BY <1>2, <1>3, <2>1, Zenon
<1>6. CASE Take(w)
  <2> DEFINE q == Tail(x.queue)
             h == <<Head(x.queue)>>
  <2>1. Becomes(w, Rec(x.key, "send", q, h, x.heard)) /\ UNCHANGED flows /\ x.queue # <<>>
    BY <1>2, <1>6, TakeBecomes, Zenon DEF Take, Taking
  <2>2. q \in Seq(P) /\ Head(x.queue) \in P
    BY <1>2, <2>1
  <2>3. h \in Seq(P) /\ h # <<>>
    BY <2>2
  <2> HIDE DEF q, h
  <2> QED
    BY <1>2, <1>3, <2>1, <2>2, <2>3, Zenon
<1>7. CASE Sent(w)
  <2> DEFINE s == x.heard \cup {x.hand[1].data}
  <2>1. Becomes(w, Rec(x.key, "select", x.queue, Nil, s)) /\ UNCHANGED flows /\ x.pc = "send"
    BY <1>2, <1>7, SentBecomes, Zenon DEF Sent, Sending
  <2>2. x.hand[1] \in P
    BY <1>2, <2>1
  <2>3. s \in SUBSET {d}
    BY <1>2, <2>2, Zenon DEF P, PacketsOf
  <2> HIDE DEF s
  <2> QED
    BY <1>2, <1>3, <1>4, <2>1, <2>3, Zenon
<1>8. CASE Stop(w)
  <2>1. Becomes(w, Rec(x.key, "done", Nil, Nil, x.heard)) /\ UNCHANGED flows
    BY <1>2, <1>8, StopBecomes, Zenon DEF Stop, Stopped
  <2> QED
    BY <1>2, <1>3, <1>4, <2>1, Zenon
<1> QED
  BY <1>5, <1>6, <1>7, <1>8, Zenon DEF Work

-----------------------------------------------------------------------------
(* The client's session loop                                               *)

LEMMA EnqueueKeeps ==
  ASSUME NEW ws, NEW w \in DOMAIN ws, Honest(ws[w]),
         NEW payload \in PacketsOf(granted[ws[w].key[2]]), Enqueue(ws, w, payload)
  PROVE  /\ Now(workers', ws, w, workers'[w])
         /\ workers'[w].key = ws[w].key
         /\ Honest(workers'[w])
<1> DEFINE x == ws[w]
           d == granted[x.key[2]]
           P == PacketsOf(d)
<1>1. /\ IsRec(x)
      /\ x.pc \in {"bind", "select", "send", "done"} /\ x.queue \in Seq(P)
      /\ x.hand \in Seq(P) /\ x.heard \in SUBSET {d}
      /\ x.pc = "send" => x.hand # <<>>
      /\ Owned(x.key, d)
  BY Zenon DEF Honest, Worker, IsRec, Rec
<1>2. CASE Now(workers', ws, w, x)
  BY <1>2, Zenon DEF Now
<1>3. CASE Now(workers', ws, w, Queueing(x, payload))
  <2> DEFINE q == Append(x.queue, payload)
             y == Rec(x.key, x.pc, q, x.hand, x.heard)
  <2>1. q \in Seq(P)
    BY <1>1
  <2> HIDE DEF q
  <2>2. Now(workers', ws, w, y)
    BY <1>3, Zenon DEF Queueing, q
  <2>3. y.key = x.key /\ y.pc = x.pc /\ y.hand = x.hand
    BY Zenon DEF Rec
  <2>4. y \in Worker(x.key, d)
    BY <1>1, <2>1, Zenon DEF Worker, Rec
  <2> HIDE DEF y
  <2>5. Honest(y)
    BY <1>1, <2>3, <2>4, Zenon DEF Honest
  <2> QED
    BY <2>2, <2>3, <2>5, Zenon DEF Now
<1> QED
  BY <1>1, <1>2, <1>3, EnqueueBecomes, Zenon

LEMMA ForwardKeeps ==
  ASSUME Served, UNCHANGED granted, NEW k, NEW payload \in PacketsOf(granted[k[2]]),
         Forward(k, payload)
  PROVE  Served'
<1> DEFINE w == flows[k]
<1>1. /\ w \in DOMAIN workers /\ workers[w].key = k /\ UNCHANGED flows
      /\ Enqueue(workers, w, payload) /\ Honest(workers[w])
  BY Zenon DEF Forward, Served
<1> HIDE DEF w
<1>2. /\ Now(workers', workers, w, workers'[w])
      /\ workers'[w].key = workers[w].key /\ Honest(workers'[w])
  BY <1>1, EnqueueKeeps, Zenon
<1> QED
  BY <1>1, <1>2, BecomesKeeps, Zenon DEF Becomes

LEMMA SpawnKeeps ==
  ASSUME Served, UNCHANGED granted, NEW k, Owned(k, granted[k[2]]),
         NEW payload \in PacketsOf(granted[k[2]]), NEW w, Spawn(k, payload, w)
  PROVE  Served'
<1> DEFINE x == NewWorker(k)
           ws == Insert(workers, w, x)
<1>1. k \notin DOMAIN flows /\ w \notin DOMAIN workers /\ Enqueue(ws, w, payload)
  BY Zenon DEF Spawn
<1>2. /\ DOMAIN flows' = DOMAIN flows \cup {k} /\ flows'[k] = w
      /\ \A j \in DOMAIN flows : flows'[j] = flows[j]
  BY <1>1, Zenon DEF Spawn, Insert
<1>3. x.key = k /\ Honest(x)
  <2>1. x.key = k /\ x.pc = "bind"
    BY Zenon DEF NewWorker
  <2>2. x \in Worker(k, granted[k[2]])
    BY DEF NewWorker, Worker
  <2> HIDE DEF x
  <2> QED
    BY <2>1, <2>2, Zenon DEF Honest
<1> HIDE DEF x
<1>4. /\ DOMAIN ws = DOMAIN workers \cup {w} /\ ws[w] = x
      /\ \A v \in DOMAIN workers : ws[v] = workers[v]
  BY <1>1, Zenon DEF Insert
<1> HIDE DEF ws
<1>5. /\ Now(workers', ws, w, workers'[w])
      /\ workers'[w].key = ws[w].key /\ Honest(workers'[w])
  BY <1>1, <1>3, <1>4, EnqueueKeeps, Zenon
<1>6. /\ DOMAIN workers' = DOMAIN workers \cup {w} /\ workers'[w].key = k
      /\ \A v \in DOMAIN workers : workers'[v] = workers[v]
  BY <1>1, <1>3, <1>4, <1>5, Zenon DEF Now
<1>7. \A v \in DOMAIN workers' : Honest(workers'[v])
  BY <1>5, <1>6, Zenon DEF Served
<1>8. \A v \in DOMAIN workers' : Honest(workers[v])'
  BY <1>7, HonestStays, Zenon DEF Grows
<1>9. \A j \in DOMAIN flows' : flows'[j] \in DOMAIN workers' /\ workers'[flows'[j]].key = j
  BY <1>2, <1>6, Zenon DEF Served
<1> QED
  BY <1>8, <1>9, Zenon DEF Served

LEMMA JoinKeeps ==
  ASSUME Served, UNCHANGED granted, NEW w \in DOMAIN workers, Join(w)
  PROVE  Served'
<1>1. /\ DOMAIN flows' = DOMAIN flows \ {workers[w].key}
      /\ \A k \in DOMAIN flows' : flows'[k] = flows[k]
  BY Zenon DEF Join, Remove, Restrict
<1>2. /\ DOMAIN workers' = DOMAIN workers \ {w}
      /\ \A v \in DOMAIN workers' : workers'[v] = workers[v]
  BY Zenon DEF Join, Remove, Restrict
<1>3. \A v \in DOMAIN workers' : Honest(workers'[v])
  BY <1>2, Zenon DEF Served
<1>4. \A v \in DOMAIN workers' : Honest(workers[v])'
  BY <1>3, HonestStays, Zenon DEF Grows
<1>5. \A k \in DOMAIN flows' : flows'[k] \in DOMAIN workers' /\ workers'[flows'[k]].key = k
  BY <1>1, <1>2, Zenon DEF Served
<1> QED
  BY <1>4, <1>5, Zenon DEF Served

-----------------------------------------------------------------------------
(* The two ends together                                                   *)

\* The client's side stays as it is while the server's table grows.
LEMMA ServedStays ==
  ASSUME Served, Grows, UNCHANGED client
  PROVE  Served'
<1>1. \A v \in DOMAIN workers' : Honest(workers[v])'
  BY HonestStays, Zenon DEF Served, client
<1> QED
  BY <1>1, Zenon DEF Served, client

LEMMA ChannelsStay ==
  ASSUME Channels, Grows, down' \subseteq down, back' \subseteq back
  PROVE  Channels'
<1>1. \A m \in down' \cup back' : Owned(m.key, m.data)
  BY Zenon DEF Channels
<1>2. ASSUME NEW m \in down' \cup back' PROVE m.key[2] \in DOMAIN granted' /\ m.data = granted'[m.key[2]]
  BY <1>1, Zenon DEF Owned, Grows
<1> QED
  BY <1>2, Zenon DEF Channels, Owned

\* A datagram from a public peer goes out under an ID granted to that source.
LEMMA ListenKeeps ==
  ASSUME IInv, NEW s \in Services, NEW p \in Peers, Listen(s, p)
  PROVE  IInv'
<1>1. PICK f \in 0 .. IdLimit :
        /\ Known(s, p, f) \/ Admit(s, p, f)
        /\ down' = down \cup {Packet(s, f, <<s, p>>)}
        /\ UNCHANGED <<client, back, out>>
  BY Zenon DEF Listen
<1>2. Table' /\ Grows /\ f \in DOMAIN granted' /\ granted'[f] = <<s, p>>
  <2>1. CASE Known(s, p, f)
    <3>1. /\ <<s, p>> \in DOMAIN by_peer /\ f = by_peer[<<s, p>>]
          /\ Touches(f) /\ UNCHANGED granted
      BY <2>1, Zenon DEF Known, Touches
    <3>2. Table' /\ Grows
      BY <3>1, TouchKeeps, Zenon DEF IInv
    <3> QED
      BY <3>1, <3>2, Zenon DEF IInv, Table
  <2>2. CASE Admit(s, p, f)
    BY <2>2, AdmitKeeps, Zenon DEF IInv
  <2> QED
    BY <1>1, <2>1, <2>2, Zenon
<1>3. Served'
  BY <1>1, <1>2, ServedStays, Zenon DEF IInv
<1>4. Channels'
  <2>1. ASSUME NEW m \in down' \cup back'
        PROVE  m.key[2] \in DOMAIN granted' /\ m.data = granted'[m.key[2]]
    <3>1. CASE m = Packet(s, f, <<s, p>>)
      BY <1>2, <3>1, Zenon DEF Packet
    <3>2. CASE m \in down \cup back
      BY <1>2, <3>2, Zenon DEF IInv, Channels, Owned, Grows
    <3> QED
      BY <1>1, <2>1, <3>1, <3>2, Zenon
  <2> QED
    BY <2>1, Zenon DEF Channels, Owned
<1>5. Routed'
  BY <1>1, Zenon DEF IInv, Routed
<1> QED
  BY <1>2, <1>3, <1>4, <1>5, Zenon DEF IInv

LEMMA ClientReadsKeeps ==
  ASSUME IInv, NEW m \in down, ClientReads(m)
  PROVE  IInv'
<1> DEFINE payload == [data |-> m.data, size |-> 1]
<1>1. /\ Arrive(m.key, payload)
      /\ down' \subseteq down /\ UNCHANGED <<vars, back, out>>
  BY Zenon DEF ClientReads
<1>2. UNCHANGED <<next, by_id, by_peer, granted>>
  BY <1>1, Zenon DEF vars
<1>3. Table' /\ Grows
  BY <1>2, Zenon DEF IInv, Table, Grows
<1>4. Owned(m.key, m.data)
  BY Zenon DEF IInv, Channels
<1>5. payload \in PacketsOf(granted[m.key[2]]) /\ Owned(m.key, granted[m.key[2]])
  BY <1>4, Zenon DEF PacketsOf, Owned
<1> HIDE DEF payload
<1>6. Served'
  <2>1. CASE Forward(m.key, payload)
    BY <1>2, <1>5, <2>1, ForwardKeeps, Zenon DEF IInv
  <2>2. ASSUME NEW w \in WorkerIds, Spawn(m.key, payload, w) PROVE Served'
    BY <1>2, <1>5, <2>2, SpawnKeeps, Zenon DEF IInv
  <2> QED
    BY <1>1, <2>1, <2>2, Zenon DEF Arrive
<1>7. Channels'
  BY <1>1, <1>3, ChannelsStay, Zenon DEF IInv
<1>8. Routed'
  BY <1>1, Zenon DEF IInv, Routed
<1> QED
  BY <1>3, <1>6, <1>7, <1>8, Zenon DEF IInv

LEMMA ClientWorksKeeps ==
  ASSUME IInv, ClientWorks
  PROVE  IInv'
<1>1. /\ UNCHANGED <<next, by_id, by_peer, granted>> /\ UNCHANGED <<down, back, out>>
      /\ \E w \in DOMAIN workers : Join(w) \/ Work(w)
  BY Zenon DEF ClientWorks, vars, channel
<1>2. Table' /\ Grows /\ Routed'
  BY <1>1, Zenon DEF IInv, Table, Grows, Routed
<1>3. Served'
  BY <1>1, JoinKeeps, WorkKeeps, Zenon DEF IInv
<1>4. Channels'
  BY <1>1, <1>2, ChannelsStay, Zenon DEF IInv
<1> QED
  BY <1>2, <1>3, <1>4, Zenon DEF IInv

\* A reply carries what the worker heard, under the key of the worker.
LEMMA WorkerRepliesKeeps ==
  ASSUME IInv, NEW w \in DOMAIN workers, NEW d \in workers[w].heard, WorkerReplies(w, d)
  PROVE  IInv'
<1> DEFINE k == workers[w].key
           r == Packet(k[1], k[2], d)
<1>1. /\ UNCHANGED <<next, by_id, by_peer, granted>> /\ UNCHANGED client
      /\ UNCHANGED <<down, out>> /\ back' = back \cup {r}
  BY Zenon DEF WorkerReplies, Reply, vars, client
<1>2. Table' /\ Grows /\ Routed'
  BY <1>1, Zenon DEF IInv, Table, Grows, Routed
<1>3. Served'
  BY <1>1, <1>2, ServedStays, Zenon DEF IInv
<1>4. k[2] \in DOMAIN granted /\ d = granted[k[2]]
  BY Zenon DEF IInv, Served, Honest, Owned, Worker
<1>5. r.key[2] = k[2] /\ r.data = d
  BY Zenon DEF Packet
<1> HIDE DEF r, k
<1>6. ASSUME NEW m \in down' \cup back'
      PROVE  m.key[2] \in DOMAIN granted' /\ m.data = granted'[m.key[2]]
  <2>1. CASE m = r
    BY <1>1, <1>4, <1>5, <2>1, Zenon
  <2>2. CASE m \in down \cup back
    BY <1>1, <2>2, Zenon DEF IInv, Channels, Owned
  <2> QED
    BY <1>1, <1>6, <2>1, <2>2, Zenon
<1>7. Channels'
  BY <1>6, Zenon DEF Channels, Owned
<1> QED
  BY <1>2, <1>3, <1>7, Zenon DEF IInv

\* A reply is sent to the peer of the flow, which is the source the ID was
\* granted to.
LEMMA ServerReadsKeeps ==
  ASSUME IInv, NEW m \in back, ServerReads(m)
  PROVE  IInv'
<1>1. PICK p \in Peers :
        /\ Route(m.key[1], m.key[2], p)
        /\ out' = {[service |-> m.key[1], peer |-> p, data |-> m.data]}
        /\ back' = back \ {m}
        /\ UNCHANGED <<client, down>>
  BY Zenon DEF ServerReads
<1> DEFINE f == m.key[2]
<1>2. /\ f \in DOMAIN by_id /\ by_id[f].service = m.key[1] /\ p = by_id[f].peer
      /\ Touches(f)
  BY <1>1, Zenon DEF Route, Touches
<1>3. Table' /\ Grows
  BY <1>2, TouchKeeps, Zenon DEF IInv
<1>4. m.data = <<m.key[1], p>>
  BY <1>2, Zenon DEF IInv, Table, Channels, Owned
<1>5. Routed'
  BY <1>1, <1>4 DEF Routed
<1>6. Served'
  BY <1>1, <1>3, ServedStays, Zenon DEF IInv
<1>7. Channels'
  BY <1>1, <1>3, ChannelsStay, Zenon DEF IInv
<1> QED
  BY <1>3, <1>5, <1>6, <1>7, Zenon DEF IInv

LEMMA ServerStepKeeps ==
  ASSUME IInv, ServerWorks
  PROVE  IInv'
<1>1. UNCHANGED client /\ UNCHANGED <<down, back, out>>
  BY Zenon DEF ServerWorks, channel
<1>2. Table' /\ Grows
  BY ServerWorksKeeps, Zenon DEF IInv
<1>3. Served' /\ Channels' /\ Routed'
  BY <1>1, <1>2, ServedStays, ChannelsStay, Zenon DEF IInv, Routed
<1> QED
  BY <1>2, <1>3, Zenon DEF IInv

\* Loss, and a step of neither end.
LEMMA LossKeeps ==
  ASSUME IInv, UNCHANGED vars, UNCHANGED client, UNCHANGED out,
         down' \subseteq down, back' \subseteq back
  PROVE  IInv'
<1>1. UNCHANGED <<next, by_id, by_peer, granted>>
  BY Zenon DEF vars
<1>2. Table' /\ Grows
  BY <1>1, Zenon DEF IInv, Table, Grows
<1>3. Served' /\ Channels' /\ Routed'
  BY <1>2, ServedStays, ChannelsStay, Zenon DEF IInv, Routed
<1> QED
  BY <1>2, <1>3, Zenon DEF IInv

LEMMA Inductive == IInv /\ [TunnelNext]_tunnel => IInv'
<1> SUFFICES ASSUME IInv, [TunnelNext]_tunnel PROVE IInv'
  BY Zenon
<1>1. CASE UNCHANGED tunnel
  BY <1>1, LossKeeps, Zenon DEF tunnel, channel
<1>2. ASSUME NEW s \in Services, NEW p \in Peers, Listen(s, p) PROVE IInv'
  BY <1>2, ListenKeeps, Zenon
<1>3. ASSUME NEW m \in down, ClientReads(m) \/ LosesPacket(m) PROVE IInv'
  <2>1. CASE LosesPacket(m)
    BY <2>1, LossKeeps, Zenon DEF LosesPacket
  <2> QED
    BY <1>3, <2>1, ClientReadsKeeps, Zenon
<1>4. ASSUME NEW m \in back, ServerReads(m) \/ LosesReply(m) PROVE IInv'
  <2>1. CASE LosesReply(m)
    BY <2>1, LossKeeps, Zenon DEF LosesReply
  <2> QED
    BY <1>4, <2>1, ServerReadsKeeps, Zenon
<1>5. ASSUME NEW w \in DOMAIN workers, NEW d \in workers[w].heard, WorkerReplies(w, d) PROVE IInv'
  BY <1>5, WorkerRepliesKeeps, Zenon
<1> QED
  BY <1>1, <1>2, <1>3, <1>4, <1>5, ClientWorksKeeps, ServerStepKeeps, Zenon DEF TunnelNext

\* For any services, peers, limits and timeouts, and however packets are lost or
\* reordered between the two ends: a public peer gets replies to its own
\* datagrams only, and the local service sees one source behind one socket.
THEOREM RepliesReachTheirSource == TunnelSpec => []SourceIsolation
<1>1. IInv => SourceIsolation
  <2> SUFFICES ASSUME IInv PROVE SourceIsolation
    BY Zenon
  <2>1. \A w \in DOMAIN workers : workers[w].heard \subseteq {granted[workers[w].key[2]]}
    BY Zenon DEF IInv, Served, Honest, Worker
  <2> QED
    BY <2>1, Zenon DEF IInv, Routed, SourceIsolation
<1> QED
  BY Initially, Inductive, <1>1, PTL DEF TunnelSpec

-----------------------------------------------------------------------------
(* The server's table by itself                                            *)

INSTANCE FiniteSetTheorems

LEMMA InitInv == Init => IndInv
<1> SUFFICES ASSUME Init PROVE IndInv OBVIOUS
<1>1. DOMAIN by_id = {} /\ DOMAIN by_peer = {} /\ DOMAIN granted = {} /\ next = 0
  BY DEF Init, EmptyMap
<1>2. TypeOK /\ TablesInverse
  BY <1>1, FlowsAssumption DEF TypeOK, TablesInverse, Init
<1>3. IsFiniteSet(DOMAIN by_id) /\ Size(by_id) <= MaxFlows
  BY <1>1, FS_EmptySet, FlowsAssumption DEF Size
<1>4. DOMAIN granted = 0 .. next - 1 BY <1>1
<1> QED BY <1>1, <1>2, <1>3, <1>4, Zenon DEF IndInv

\* A step that only changes ages keeps the invariant: touching a flow, from
\* either side, and the passing of time.
LEMMA AgesOnly ==
  ASSUME IndInv, UNCHANGED <<next, by_peer, granted>>, up' \in BOOLEAN,
         DOMAIN by_id' = DOMAIN by_id,
         \A f \in DOMAIN by_id :
           /\ by_id'[f] \in [service : Services, peer : Peers, age : 0 .. IdleTimeout]
           /\ by_id'[f].service = by_id[f].service
           /\ by_id'[f].peer = by_id[f].peer
  PROVE  IndInv'
<1>1. TypeOK' BY DEF IndInv, TypeOK
<1>2. TablesInverse' BY DEF IndInv, TablesInverse
<1>3. Size(by_id)' <= MaxFlows BY DEF IndInv, Size
<1> QED BY <1>1, <1>2, <1>3 DEF IndInv

LEMMA TouchInv ==
  ASSUME IndInv, NEW f \in DOMAIN by_id, by_id' = [by_id EXCEPT ![f].age = 0],
         UNCHANGED <<next, by_peer, up, granted>>
  PROVE  IndInv'
<1>1. /\ DOMAIN by_id' = DOMAIN by_id
      /\ up' \in BOOLEAN
      /\ \A g \in DOMAIN by_id :
           /\ by_id'[g] \in [service : Services, peer : Peers, age : 0 .. IdleTimeout]
           /\ by_id'[g].service = by_id[g].service
           /\ by_id'[g].peer = by_id[g].peer
  BY FlowsAssumption DEF IndInv, TypeOK
<1> QED BY <1>1, AgesOnly

LEMMA AdmitInv ==
  ASSUME IndInv, NEW s \in Services, NEW p \in Peers, NEW f, Admit(s, p, f)
  PROVE  IndInv'
<1>1. /\ f = next
      /\ f \notin DOMAIN by_id
      /\ f \notin DOMAIN granted
      /\ <<s, p>> \notin DOMAIN by_peer
      /\ next \in Nat
      /\ next < IdLimit
      /\ next' = next + 1
  BY FlowsAssumption DEF Admit, NewId, IdsLeft, IndInv, TypeOK
<1>2. /\ DOMAIN by_id' = DOMAIN by_id \cup {f}
      /\ by_id'[f] = NewFlow(s, p)
      /\ \A g \in DOMAIN by_id : by_id'[g] = by_id[g]
  BY <1>1, Zenon DEF Admit, Insert
<1>3. /\ DOMAIN by_peer' = DOMAIN by_peer \cup {<<s, p>>}
      /\ by_peer'[<<s, p>>] = f
      /\ \A k \in DOMAIN by_peer : by_peer'[k] = by_peer[k]
  BY <1>1, Zenon DEF Admit, Insert
<1>4. /\ DOMAIN granted' = DOMAIN granted \cup {f}
      /\ granted'[f] = <<s, p>>
      /\ \A g \in DOMAIN granted : granted'[g] = granted[g]
  BY <1>1, Zenon DEF Admit, Insert
<1>5. TypeOK'
  <2>1. next' \in 0 .. IdLimit /\ DOMAIN by_id' \subseteq 0 .. next' - 1
    BY <1>1, <1>2, FlowsAssumption DEF IndInv, TypeOK
  <2>2. NewFlow(s, p) \in [service : Services, peer : Peers, age : 0 .. IdleTimeout]
    BY FlowsAssumption DEF NewFlow
  <2>3. DOMAIN by_peer' \subseteq Sources BY <1>3 DEF IndInv, TypeOK, Sources
  <2> QED BY <1>2, <2>1, <2>2, <2>3 DEF Admit, IndInv, TypeOK
<1>6. TablesInverse'
  <2>1. by_id'[f].service = s /\ by_id'[f].peer = p BY <1>2 DEF NewFlow
  <2>2. \A k \in DOMAIN by_peer' :
          /\ by_peer'[k] \in DOMAIN by_id'
          /\ <<by_id'[by_peer'[k]].service, by_id'[by_peer'[k]].peer>> = k
    BY <1>2, <1>3, <2>1 DEF IndInv, TablesInverse
  <2>3. \A g \in DOMAIN by_id' :
          /\ <<by_id'[g].service, by_id'[g].peer>> \in DOMAIN by_peer'
          /\ by_peer'[<<by_id'[g].service, by_id'[g].peer>>] = g
    BY <1>1, <1>2, <1>3, <2>1 DEF IndInv, TablesInverse
  <2> QED BY <2>2, <2>3 DEF TablesInverse
<1>7. IsFiniteSet(DOMAIN by_id') /\ Cardinality(DOMAIN by_id') = Size(by_id) + 1
  <2>1. IsFiniteSet(DOMAIN by_id) /\ Size(by_id) = Cardinality(DOMAIN by_id)
    BY Zenon DEF IndInv, Size
  <2>2. /\ IsFiniteSet(DOMAIN by_id \cup {f})
        /\ Cardinality(DOMAIN by_id \cup {f}) = Cardinality(DOMAIN by_id) + 1
    BY <1>1, <2>1, FS_AddElement, Zenon
  <2> QED BY <1>2, <2>1, <2>2, Zenon
<1>8. Size(by_id)' <= MaxFlows
  BY <1>7, FS_CardinalityType, FlowsAssumption DEF Size, Admit, HasRoom, IndInv
<1>9. DOMAIN granted' = 0 .. next' - 1 BY <1>1, <1>4 DEF IndInv
<1>10. \A g \in DOMAIN by_id' : granted'[g] = <<by_id'[g].service, by_id'[g].peer>>
  <2>1. DOMAIN by_id \subseteq DOMAIN granted BY DEF IndInv, TypeOK
  <2> QED BY <1>2, <1>4, <2>1 DEF IndInv, NewFlow
<1> QED BY <1>5, <1>6, <1>7, <1>8, <1>9, <1>10, Zenon DEF IndInv

LEMMA ExpireInv ==
  ASSUME IndInv, expire
  PROVE  IndInv'
<1> DEFINE keys == {k \in DOMAIN by_peer : by_peer[k] \in Live}
<1>1. /\ DOMAIN by_id' = Live
      /\ \A f \in Live : by_id'[f] = by_id[f]
      /\ Live \subseteq DOMAIN by_id
  BY Zenon DEF expire, Live, Retain, Restrict
<1>2. /\ DOMAIN by_peer' = keys
      /\ \A k \in keys : by_peer'[k] = by_peer[k]
  BY Zenon DEF expire, Retain, Restrict
<1>3. UNCHANGED <<next, up, granted>> BY DEF expire
<1>4. TypeOK' BY <1>1, <1>2, <1>3 DEF IndInv, TypeOK
<1>5. TablesInverse'
  <2>1. \A k \in keys :
          /\ by_peer[k] \in Live
          /\ <<by_id[by_peer[k]].service, by_id[by_peer[k]].peer>> = k
    BY Zenon DEF IndInv, TablesInverse
  <2>2. \A f \in Live :
          /\ <<by_id[f].service, by_id[f].peer>> \in keys
          /\ by_peer[<<by_id[f].service, by_id[f].peer>>] = f
    BY <1>1, Zenon DEF IndInv, TablesInverse
  <2> QED BY <1>1, <1>2, <2>1, <2>2 DEF TablesInverse
<1>6. IsFiniteSet(Live) /\ Cardinality(Live) <= Cardinality(DOMAIN by_id)
  BY <1>1, FS_Subset, Zenon DEF IndInv
<1>7. Size(by_id)' <= MaxFlows
  BY <1>1, <1>6, FS_CardinalityType, FlowsAssumption DEF Size, IndInv
<1> QED BY <1>1, <1>3, <1>4, <1>5, <1>6, <1>7, Zenon DEF IndInv

LEMMA NextInv == IndInv /\ [Next]_vars => IndInv'
<1> SUFFICES ASSUME IndInv, [Next]_vars PROVE IndInv' OBVIOUS
<1>1. ASSUME NEW s \in Services, NEW p \in Peers, NEW f, Known(s, p, f)
      PROVE  IndInv'
  <2>1. f \in DOMAIN by_id BY <1>1 DEF Known, IndInv, TablesInverse
  <2> QED BY <1>1, <2>1, TouchInv, Zenon DEF Known
<1>2. ASSUME NEW s \in Services, NEW p \in Peers, NEW f, Route(s, f, p)
      PROVE  IndInv'
  BY <1>2, TouchInv, Zenon DEF Route
<1>3. ASSUME UNCHANGED <<next, by_id, by_peer, granted>>, up' \in BOOLEAN
      PROVE  IndInv'
  <2>1. \A f \in DOMAIN by_id :
          by_id'[f] \in [service : Services, peer : Peers, age : 0 .. IdleTimeout]
    BY <1>3, Zenon DEF IndInv, TypeOK
  <2> QED BY <1>3, <2>1, AgesOnly
<1>4. ASSUME NEW s \in Services, NEW p \in Peers, IdsExhausted(s, p)
      PROVE  IndInv'
  BY <1>3, <1>4, Zenon DEF IdsExhausted
<1>5. CASE End BY <1>3, <1>5, Zenon DEF End
<1>6. CASE Advance
  <2>1. /\ DOMAIN by_id' = DOMAIN by_id
        /\ \A f \in DOMAIN by_id :
             by_id'[f] = [by_id[f] EXCEPT !.age = IF @ < IdleTimeout THEN @ + 1 ELSE @]
        /\ UNCHANGED <<next, by_peer, up, granted>>
    BY <1>6, Zenon DEF Advance
  <2>2. \A f \in DOMAIN by_id :
          /\ by_id'[f] \in [service : Services, peer : Peers, age : 0 .. IdleTimeout]
          /\ by_id'[f].service = by_id[f].service
          /\ by_id'[f].peer = by_id[f].peer
    BY <2>1, FlowsAssumption DEF IndInv, TypeOK
  <2>3. up' \in BOOLEAN BY <2>1 DEF IndInv, TypeOK
  <2> QED BY <2>1, <2>2, <2>3, AgesOnly
<1>7. CASE UNCHANGED vars BY <1>3, <1>7 DEF vars, IndInv, TypeOK
<1> QED BY <1>1, <1>2, <1>4, <1>5, <1>6, <1>7, AdmitInv, ExpireInv DEF Next

\* The inductive invariant holds of every reachable state.
THEOREM TableInvariance == Spec => []IndInv
BY InitInv, NextInv, PTL DEF Spec

\* The maps keep their types and all IDs stay below `next`.
THEOREM TypeCorrect == Spec => []TypeOK
<1>1. IndInv => TypeOK BY DEF IndInv
<1> QED BY <1>1, TableInvariance, PTL

\* by_peer and by_id are inverse to each other in every reachable state, so the
\* unwrap() of udp_listener never fails.
THEOREM TablesAlwaysInverse == Spec => []TablesInverse
<1>1. IndInv => TablesInverse BY DEF IndInv
<1> QED BY <1>1, TableInvariance, PTL

\* Neither map grows beyond max_udp_flows.
THEOREM FlowsBounded == Spec => []FlowLimit
<1>1. IndInv => FlowLimit
  <2> SUFFICES ASSUME IndInv PROVE FlowLimit OBVIOUS
  <2> DEFINE g == [k \in DOMAIN by_peer |-> by_peer[k]]
  <2>1. g \in Injection(DOMAIN by_peer, DOMAIN by_id)
    BY Zenon DEF IndInv, TablesInverse, Injection, IsInjective
  <2>2. Cardinality(DOMAIN by_peer) <= Cardinality(DOMAIN by_id)
        /\ IsFiniteSet(DOMAIN by_peer)
    BY <2>1, FS_Injection, Zenon DEF IndInv
  <2> QED
    BY <2>2, FS_CardinalityType, FlowsAssumption DEF Size, FlowLimit, IndInv
<1> QED BY <1>1, TableInvariance, PTL

\* A flow ID is given to one source only, also after its flow expired.
THEOREM IdsNeverReused == Spec => IdForOneSource
<1>1. IndInv /\ [Next]_vars =>
        [\A f \in DOMAIN granted : f \in DOMAIN granted' /\ granted'[f] = granted[f]]_vars
  <2> SUFFICES ASSUME IndInv, Next
               PROVE  \A f \in DOMAIN granted :
                        f \in DOMAIN granted' /\ granted'[f] = granted[f]
    BY Zenon
  <2>1. CASE UNCHANGED granted BY <2>1
  <2>2. ASSUME NEW s \in Services, NEW p \in Peers, NEW f, Admit(s, p, f)
        PROVE  \A g \in DOMAIN granted :
                 g \in DOMAIN granted' /\ granted'[g] = granted[g]
    <3>1. f \notin DOMAIN granted
      BY <2>2, FlowsAssumption DEF Admit, NewId, IndInv, TypeOK
    <3> QED BY <2>2, <3>1 DEF Admit, Insert
  <2> QED
    BY <2>1, <2>2, Zenon DEF Next, Known, Route, IdsExhausted, expire, End, Advance
<1> QED BY <1>1, TableInvariance, PTL DEF Spec, IdForOneSource

-----------------------------------------------------------------------------
(* Permits as sets: what a packet owns, and what a worker holds            *)

LEMMA DisjointUnion ==
  ASSUME NEW S, NEW T, IsFiniteSet(S), IsFiniteSet(T), S \cap T = {}
  PROVE  /\ IsFiniteSet(S \cup T)
         /\ Cardinality(S \cup T) = Cardinality(S) + Cardinality(T)
<1>1. IsFiniteSet(S \cup T)
      /\ Cardinality(S \cup T) = Cardinality(S) + Cardinality(T) - Cardinality(S \cap T)
  BY FS_Union, Zenon
<1>2. Cardinality(S \cap T) = 0
  BY FS_EmptySet, Zenon
<1>3. Cardinality(S) \in Nat /\ Cardinality(T) \in Nat
  BY FS_CardinalityType, Zenon
<1> QED
  BY <1>1, <1>2, <1>3

Unit(w, place, i, n) == <<<<w, place, i>>, n>>

LEMMA UnitOf ==
  ASSUME NEW w, NEW place, NEW payloads, NEW u
  PROVE  u \in PermitsOf(w, place, payloads)
           <=> \E i \in DOMAIN payloads : \E n \in 1 .. Cost(payloads[i]) : u = Unit(w, place, i, n)
<1>1. ASSUME NEW i \in DOMAIN payloads
      PROVE  u \in {<<w, place, i>>} \X (1 .. Cost(payloads[i]))
               <=> \E n \in 1 .. Cost(payloads[i]) : u = Unit(w, place, i, n)
  BY DEF Unit
<1>2. u \in PermitsOf(w, place, payloads)
        <=> \E i \in DOMAIN payloads : u \in {<<w, place, i>>} \X (1 .. Cost(payloads[i]))
  BY Zenon DEF PermitsOf
<1> QED
  BY <1>1, <1>2, Zenon

LEMMA NoUnits ==
  ASSUME NEW w, NEW place
  PROVE  PermitsOf(w, place, Nil) = {}
<1>1. DOMAIN Nil = {}
  BY DEF Nil
<1> QED
  BY <1>1, UnitOf, Zenon

\* Workers hold different permits, and so do the queue and the hand of one.
LEMMA PlacesDiffer ==
  ASSUME NEW w, NEW v, NEW place, NEW spot, NEW ps, NEW qs, w # v \/ place # spot
  PROVE  PermitsOf(w, place, ps) \cap PermitsOf(v, spot, qs) = {}
<1> SUFFICES ASSUME NEW u \in PermitsOf(w, place, ps), u \in PermitsOf(v, spot, qs) PROVE FALSE
  BY Zenon
<1>1. PICK i \in DOMAIN ps : \E n \in 1 .. Cost(ps[i]) : u = Unit(w, place, i, n)
  BY UnitOf
<1>2. PICK j \in DOMAIN qs : \E n \in 1 .. Cost(qs[j]) : u = Unit(v, spot, j, n)
  BY UnitOf
<1>3. PICK n, m : u = Unit(w, place, i, n) /\ u = Unit(v, spot, j, m)
  BY <1>1, <1>2, Zenon
<1>4. Unit(w, place, i, n) = Unit(v, spot, j, m)
  BY <1>3, Zenon
<1>5. w = v /\ place = spot
  BY <1>4, Zenon DEF Unit
<1> QED
  BY <1>5, Zenon

LEMMA WorkersDiffer ==
  ASSUME NEW w, NEW v, w # v, NEW x, NEW y
  PROVE  Held(w, x) \cap Held(v, y) = {}
<1>1. /\ PermitsOf(w, "queue", x.queue) \cap PermitsOf(v, "queue", y.queue) = {}
      /\ PermitsOf(w, "queue", x.queue) \cap PermitsOf(v, "hand", y.hand) = {}
      /\ PermitsOf(w, "hand", x.hand) \cap PermitsOf(v, "queue", y.queue) = {}
      /\ PermitsOf(w, "hand", x.hand) \cap PermitsOf(v, "hand", y.hand) = {}
  BY PlacesDiffer, Zenon
<1> QED
  BY <1>1, Zenon DEF Held, InHand

\* What the workers hold together changes by what the one that steps holds more
\* or less.
LEMMA OnlyOneChanges ==
  ASSUME NEW after, NEW before, NEW w \in DOMAIN before, NEW y, Now(after, before, w, y),
         IsFiniteSet(HeldBy(before)), IsFiniteSet(Held(w, y))
  PROVE  /\ IsFiniteSet(HeldBy(after)) /\ IsFiniteSet(Held(w, before[w]))
         /\ Cardinality(HeldBy(after)) + Cardinality(Held(w, before[w]))
              = Cardinality(HeldBy(before)) + Cardinality(Held(w, y))
<1> DEFINE rest == UNION {Held(v, before[v]) : v \in DOMAIN before \ {w}}
<1>1. HeldBy(before) = rest \cup Held(w, before[w])
  BY Zenon DEF HeldBy
<1>2. HeldBy(after) = rest \cup Held(w, y)
  <2>1. \A v \in DOMAIN before \ {w} : after[v] = before[v]
    BY Zenon DEF Now
  <2>2. DOMAIN after = DOMAIN before /\ after[w] = y
    BY Zenon DEF Now
  <2> QED
    BY <2>1, <2>2, Zenon DEF HeldBy
<1>3. rest \cap Held(w, before[w]) = {} /\ rest \cap Held(w, y) = {}
  <2>1. ASSUME NEW x PROVE rest \cap Held(w, x) = {}
    <3>1. \A v \in DOMAIN before \ {w} : Held(v, before[v]) \cap Held(w, x) = {}
      BY WorkersDiffer, Zenon
    <3> QED
      BY <3>1, Zenon
  <2> QED
    BY <2>1, Zenon
<1> HIDE DEF rest
<1>4. rest \in SUBSET HeldBy(before) /\ Held(w, before[w]) \in SUBSET HeldBy(before)
  BY <1>1, Zenon
<1>5. IsFiniteSet(rest) /\ IsFiniteSet(Held(w, before[w]))
  BY <1>4, FS_Subset, Zenon
<1>6. Cardinality(HeldBy(before)) = Cardinality(rest) + Cardinality(Held(w, before[w]))
  BY <1>1, <1>3, <1>5, DisjointUnion, Zenon
<1>7. /\ IsFiniteSet(HeldBy(after))
      /\ Cardinality(HeldBy(after)) = Cardinality(rest) + Cardinality(Held(w, y))
  BY <1>2, <1>3, <1>5, DisjointUnion, Zenon
<1>8. /\ Cardinality(rest) \in Nat /\ Cardinality(Held(w, before[w])) \in Nat
      /\ Cardinality(Held(w, y)) \in Nat
  BY <1>5, FS_CardinalityType, Zenon
<1> QED
  BY <1>5, <1>6, <1>7, <1>8

\* A packet at the end of the queue brings its permits with it.
LEMMA QueueingAdds ==
  ASSUME NEW w, NEW x, IsRec(x), x.queue \in Seq(Payloads), NEW payload \in Payloads,
         IsFiniteSet(Held(w, x))
  PROVE  /\ IsFiniteSet(Held(w, Queueing(x, payload)))
         /\ Cardinality(Held(w, Queueing(x, payload))) = Cardinality(Held(w, x)) + Cost(payload)
         /\ Cost(payload) \in Nat
<1> DEFINE last == Len(x.queue) + 1
           q == Append(x.queue, payload)
           new == {<<w, "queue", last>>} \X (1 .. Cost(payload))
<1>1. /\ DOMAIN q = DOMAIN x.queue \cup {last} /\ last \notin DOMAIN x.queue
      /\ q[last] = payload /\ \A i \in DOMAIN x.queue : q[i] = x.queue[i]
  OBVIOUS
<1>2. Queueing(x, payload).queue = q /\ Queueing(x, payload).hand = x.hand
  BY Zenon DEF Queueing, Rec
<1>3. Cost(payload) \in Nat
  <2>1. payload.size \in Nat
    BY ClientFlowsAssumption, Zenon DEF Payloads
  <2> QED
    BY <2>1 DEF Cost
<1> HIDE DEF last, q
<1>4. PermitsOf(w, "queue", q) = PermitsOf(w, "queue", x.queue) \cup new
  <2> DEFINE share(p, i) == {<<w, "queue", i>>} \X (1 .. Cost(p[i]))
  <2>1. share(q, last) = new /\ \A i \in DOMAIN x.queue : share(q, i) = share(x.queue, i)
    BY <1>1, Zenon
  <2>2. /\ PermitsOf(w, "queue", q) = UNION {share(q, i) : i \in DOMAIN q}
        /\ PermitsOf(w, "queue", x.queue) = UNION {share(x.queue, i) : i \in DOMAIN x.queue}
    BY Zenon DEF PermitsOf
  <2> HIDE DEF share, new
  <2>3. ASSUME NEW u \in PermitsOf(w, "queue", q)
        PROVE  u \in PermitsOf(w, "queue", x.queue) \cup new
    <3>1. PICK i \in DOMAIN q : u \in share(q, i)
      BY <2>2, Zenon
    <3> QED
      BY <1>1, <2>1, <2>2, <3>1, Zenon
  <2>4. PermitsOf(w, "queue", x.queue) \subseteq PermitsOf(w, "queue", q)
    BY <1>1, <2>1, <2>2, Zenon
  <2>5. new \subseteq PermitsOf(w, "queue", q)
    BY <1>1, <2>1, <2>2, Zenon
  <2> QED
    BY <2>3, <2>4, <2>5, Zenon
<1>5. new \cap Held(w, x) = {}
  <2> SUFFICES ASSUME NEW u \in new, u \in Held(w, x) PROVE FALSE
    BY Zenon
  <2>1. PICK n : u = Unit(w, "queue", last, n)
    BY DEF Unit
  <2>2. CASE u \in PermitsOf(w, "queue", x.queue)
    <3>1. PICK i \in DOMAIN x.queue : \E m \in 1 .. Cost(x.queue[i]) : u = Unit(w, "queue", i, m)
      BY <2>2, UnitOf
    <3>2. PICK m : Unit(w, "queue", last, n) = Unit(w, "queue", i, m)
      BY <2>1, <3>1, Zenon
    <3>3. last = i
      BY <3>2, Zenon DEF Unit
    <3> QED
      BY <1>1, <3>3, Zenon
  <2>3. CASE u \in PermitsOf(w, "hand", x.hand)
    <3>1. PICK i \in DOMAIN x.hand : \E m \in 1 .. Cost(x.hand[i]) : u = Unit(w, "hand", i, m)
      BY <2>3, UnitOf
    <3>2. PICK m : Unit(w, "queue", last, n) = Unit(w, "hand", i, m)
      BY <2>1, <3>1, Zenon
    <3>3. "queue" = "hand"
      BY <3>2, Zenon DEF Unit
    <3> QED
      BY <3>3
  <2> QED
    BY <2>2, <2>3, Zenon DEF Held, InHand
<1>6. IsFiniteSet(new) /\ Cardinality(new) = Cost(payload)
  <2>1. IsFiniteSet(1 .. Cost(payload)) /\ Cardinality(1 .. Cost(payload)) = Cost(payload)
    BY <1>3, FS_Interval
  <2>2. IsFiniteSet({<<w, "queue", last>>}) /\ Cardinality({<<w, "queue", last>>}) = 1
    BY FS_Singleton, Zenon
  <2>3. IsFiniteSet(new)
        /\ Cardinality(new) = Cardinality({<<w, "queue", last>>}) * Cardinality(1 .. Cost(payload))
    BY <2>1, <2>2, FS_Product, Zenon
  <2> QED
    BY <1>3, <2>1, <2>2, <2>3
<1>7. Held(w, Queueing(x, payload)) = new \cup Held(w, x)
  BY <1>2, <1>4, Zenon DEF Held, InHand
<1> HIDE DEF new
<1>8. /\ IsFiniteSet(Held(w, Queueing(x, payload)))
      /\ Cardinality(Held(w, Queueing(x, payload))) = Cardinality(new) + Cardinality(Held(w, x))
  BY <1>5, <1>6, <1>7, DisjointUnion, Zenon
<1>9. Cardinality(Held(w, x)) \in Nat
  BY FS_CardinalityType, Zenon
<1> QED
  BY <1>3, <1>6, <1>8, <1>9

\* rx.recv() moves a packet and its permits from the queue into the hand, and
\* loses none.
Place(w, i) == IF i = 1 THEN <<w, "hand", 1>> ELSE <<w, "queue", i - 1>>

LEMMA TakingKeeps ==
  ASSUME NEW w, NEW x, IsRec(x), x.queue \in Seq(Payloads), x.queue # <<>>, x.hand = Nil,
         IsFiniteSet(Held(w, x))
  PROVE  /\ IsFiniteSet(Held(w, Taking(x)))
         /\ Cardinality(Held(w, Taking(x))) = Cardinality(Held(w, x))
<1> DEFINE q == x.queue
           t == Tail(q)
           h == <<Head(q)>>
           S == Held(w, x)
           T == Held(w, Taking(x))
           f == [u \in S |-> <<Place(w, u[1][3]), u[2]>>]
<1>1. /\ DOMAIN h = {1} /\ h[1] = q[1] /\ 1 \in DOMAIN q
      /\ DOMAIN q \subseteq Nat \ {0}
      /\ \A i \in DOMAIN q : i # 1 => i - 1 \in DOMAIN t /\ t[i - 1] = q[i]
      /\ \A i \in DOMAIN t : i + 1 \in DOMAIN q /\ t[i] = q[i + 1] /\ i + 1 # 1 /\ i \in Nat
  OBVIOUS
<1>2. Taking(x).queue = t /\ Taking(x).hand = h
  BY Zenon DEF Taking, Rec
<1> HIDE DEF t, h, q
<1>3. S = PermitsOf(w, "queue", q)
  BY NoUnits, Zenon DEF Held, InHand, q
<1>4. T = PermitsOf(w, "queue", t) \cup PermitsOf(w, "hand", h)
  BY <1>2, Zenon DEF Held, InHand
<1>5. ASSUME NEW u \in S
      PROVE  \E i \in DOMAIN q : \E n \in 1 .. Cost(q[i]) : /\ u = Unit(w, "queue", i, n)
                                                            /\ f[u] = <<Place(w, i), n>>
  <2>1. PICK i \in DOMAIN q : \E n \in 1 .. Cost(q[i]) : u = Unit(w, "queue", i, n)
    BY <1>3, UnitOf
  <2>2. PICK n \in 1 .. Cost(q[i]) : u = Unit(w, "queue", i, n)
    BY <2>1, Zenon
  <2>3. u[1][3] = i /\ u[2] = n
    BY <2>2 DEF Unit
  <2> QED
    BY <2>2, <2>3, Zenon
<1>6. \A i \in DOMAIN q, j \in DOMAIN q : Place(w, i) = Place(w, j) => i = j
  BY <1>1 DEF Place
<1>7. ASSUME NEW i \in DOMAIN q, NEW n \in 1 .. Cost(q[i])
      PROVE  <<Place(w, i), n>> \in T
  <2>1. CASE i = 1
    <3>1. <<Place(w, i), n>> = Unit(w, "hand", 1, n) /\ n \in 1 .. Cost(h[1])
      BY <1>1, <2>1, Zenon DEF Place, Unit
    <3>2. 1 \in DOMAIN h
      BY <1>1, Zenon
    <3>3. <<Place(w, i), n>> \in PermitsOf(w, "hand", h)
      BY <3>1, <3>2, UnitOf
    <3> QED
      BY <1>4, <3>3, Zenon
  <2>2. CASE i # 1
    <3>1. <<Place(w, i), n>> = Unit(w, "queue", i - 1, n) /\ n \in 1 .. Cost(t[i - 1]) /\ i - 1 \in DOMAIN t
      BY <1>1, <2>2, Zenon DEF Place, Unit
    <3>2. <<Place(w, i), n>> \in PermitsOf(w, "queue", t)
      BY <3>1, UnitOf
    <3> QED
      BY <1>4, <3>2, Zenon
  <2> QED
    BY <2>1, <2>2, Zenon
<1>8. ASSUME NEW v \in T
      PROVE  \E i \in DOMAIN q : \E n \in 1 .. Cost(q[i]) : v = <<Place(w, i), n>>
  <2>1. CASE v \in PermitsOf(w, "hand", h)
    <3>1. PICK i \in DOMAIN h : \E n \in 1 .. Cost(h[i]) : v = Unit(w, "hand", i, n)
      BY <2>1, UnitOf
    <3>2. i = 1 /\ h[i] = q[1] /\ 1 \in DOMAIN q
      BY <1>1, Zenon
    <3>3. PICK n \in 1 .. Cost(q[1]) : v = Unit(w, "hand", 1, n)
      BY <3>1, <3>2, Zenon
    <3>4. v = <<Place(w, 1), n>>
      BY <3>3, Zenon DEF Place, Unit
    <3> QED
      BY <3>2, <3>4, Zenon
  <2>2. CASE v \in PermitsOf(w, "queue", t)
    <3>1. PICK i \in DOMAIN t : \E n \in 1 .. Cost(t[i]) : v = Unit(w, "queue", i, n)
      BY <2>2, UnitOf
    <3>2. i + 1 \in DOMAIN q /\ t[i] = q[i + 1] /\ i + 1 # 1 /\ i \in Nat
      BY <1>1, Zenon
    <3>3. PICK n \in 1 .. Cost(q[i + 1]) : v = Unit(w, "queue", i, n)
      BY <3>1, <3>2, Zenon
    <3>4. (i + 1) - 1 = i
      BY <3>2
    <3>5. v = <<Place(w, i + 1), n>>
      BY <3>2, <3>3, <3>4, Zenon DEF Place, Unit
    <3> QED
      BY <3>2, <3>5, Zenon
  <2> QED
    BY <1>4, <2>1, <2>2, Zenon
<1>9. f \in Bijection(S, T)
  <2>1. f \in [S -> T]
    <3>1. \A u \in S : f[u] \in T
      BY <1>5, <1>7, Zenon
    <3> QED
      BY <3>1, Zenon
  <2>2. ASSUME NEW u \in S, NEW v \in S, f[u] = f[v] PROVE u = v
    <3>1. PICK i \in DOMAIN q : \E n \in 1 .. Cost(q[i]) : u = Unit(w, "queue", i, n) /\ f[u] = <<Place(w, i), n>>
      BY <1>5, Zenon
    <3>2. PICK j \in DOMAIN q : \E n \in 1 .. Cost(q[j]) : v = Unit(w, "queue", j, n) /\ f[v] = <<Place(w, j), n>>
      BY <1>5, Zenon
    <3>3. PICK n, m : /\ u = Unit(w, "queue", i, n) /\ f[u] = <<Place(w, i), n>>
                      /\ v = Unit(w, "queue", j, m) /\ f[v] = <<Place(w, j), m>>
      BY <3>1, <3>2, Zenon
    <3>4. Place(w, i) = Place(w, j) /\ n = m
      BY <2>2, <3>3, Zenon
    <3> QED
      BY <1>6, <3>3, <3>4, Zenon
  <2>3. ASSUME NEW v \in T PROVE \E u \in S : f[u] = v
    <3>1. PICK i \in DOMAIN q : \E n \in 1 .. Cost(q[i]) : v = <<Place(w, i), n>>
      BY <1>8, Zenon
    <3>2. PICK n \in 1 .. Cost(q[i]) : v = <<Place(w, i), n>>
      BY <3>1, Zenon
    <3>3. Unit(w, "queue", i, n) \in S
      BY <1>3, UnitOf
    <3>4. f[Unit(w, "queue", i, n)] = <<Place(w, Unit(w, "queue", i, n)[1][3]), Unit(w, "queue", i, n)[2]>>
      BY <3>3, Zenon
    <3>5. Unit(w, "queue", i, n)[1][3] = i /\ Unit(w, "queue", i, n)[2] = n
      BY DEF Unit
    <3> QED
      BY <3>2, <3>3, <3>4, <3>5, Zenon
  <2> HIDE DEF f, S, T
  <2> QED
    BY <2>1, <2>2, <2>3, Zenon DEF Bijection, Injection, Surjection, IsInjective
<1> HIDE DEF f
<1> QED
  BY <1>9, FS_Bijection, Zenon DEF ExistsBijection

-----------------------------------------------------------------------------
(* The client's workers by themselves                                      *)

\* The map and the JoinSet are inverse to each other and grow and shrink
\* together; the limit is checked against the map alone.
Paired ==
  /\ \A k \in DOMAIN flows : flows[k] \in DOMAIN workers /\ workers[flows[k]].key = k
  /\ \A w \in DOMAIN workers :
       workers[w].key \in DOMAIN flows /\ flows[workers[w].key] = w
  /\ IsFiniteSet(DOMAIN flows) /\ IsFiniteSet(DOMAIN workers)
  /\ Size(flows) = Size(workers)
  /\ Size(flows) <= ClientMaxFlows

\* A packet is in hand only while it is sent, and a worker that is done has none.
Tidy(x) ==
  /\ IsRec(x)
  /\ x.queue \in Seq(Payloads)
  /\ x.pc # "send" => x.hand = Nil
  /\ x.pc = "done" => x.queue = Nil

\* p permits are available while the workers ws hold theirs
Balanced(ws, p) ==
  /\ IsFiniteSet(HeldBy(ws))
  /\ p \in Nat
  /\ p + Cardinality(HeldBy(ws)) = QueueBytes

ClientInv ==
  /\ Paired
  /\ \A w \in DOMAIN workers : Tidy(workers[w])
  /\ Balanced(workers, permits)

LEMMA ClientInitially == ClientInit => ClientInv
<1> SUFFICES ASSUME ClientInit PROVE ClientInv
  BY Zenon
<1>1. DOMAIN flows = {} /\ DOMAIN workers = {} /\ permits = QueueBytes
  BY DEF ClientInit, EmptyMap
<1>2. Paired
  BY <1>1, FS_EmptySet, ClientFlowsAssumption DEF Paired, Size
<1>3. HeldBy(workers) = {}
  BY <1>1, Zenon DEF HeldBy
<1>4. Balanced(workers, permits)
  BY <1>1, <1>3, FS_EmptySet, ClientFlowsAssumption DEF Balanced
<1> QED
  BY <1>1, <1>2, <1>4, Zenon DEF ClientInv

\* A worker that steps keeps its key.
LEMMA StepPaired ==
  ASSUME ClientInv, UNCHANGED flows, NEW w \in DOMAIN workers, NEW y,
         Becomes(w, y), y.key = workers[w].key, Tidy(y), Balanced(workers', permits')
  PROVE  ClientInv'
<1>1. /\ DOMAIN workers' = DOMAIN workers /\ workers'[w] = y
      /\ \A v \in DOMAIN workers : v # w => workers'[v] = workers[v]
  BY Zenon DEF Becomes, Now
<1>2. \A v \in DOMAIN workers : workers'[v].key = workers[v].key /\ Tidy(workers'[v])
  BY <1>1, Zenon DEF ClientInv
<1>3. Size(flows)' = Size(flows) /\ Size(workers)' = Size(workers)
  BY <1>1, Zenon DEF Size
<1>4. Paired'
  BY <1>1, <1>2, <1>3, Zenon DEF ClientInv, Paired
<1>5. \A v \in DOMAIN workers' : Tidy(workers[v])'
  BY <1>1, <1>2, Zenon DEF Tidy, IsRec
<1>6. Balanced(workers, permits)'
  BY Zenon DEF Balanced
<1> QED
  BY <1>4, <1>5, <1>6, Zenon DEF ClientInv

\* What one worker holds more is taken from the semaphore, what it holds less is
\* given back.
LEMMA StepBalanced ==
  ASSUME NEW after, NEW before, NEW w \in DOMAIN before, NEW y, Now(after, before, w, y),
         NEW p, Balanced(before, p), IsFiniteSet(Held(w, y)), NEW n \in Nat,
         n + Cardinality(Held(w, y)) = p + Cardinality(Held(w, before[w]))
  PROVE  Balanced(after, n)
<1>0. IsFiniteSet(HeldBy(before))
  BY Zenon DEF Balanced
<1>1. /\ IsFiniteSet(HeldBy(after)) /\ IsFiniteSet(Held(w, before[w]))
      /\ Cardinality(HeldBy(after)) + Cardinality(Held(w, before[w]))
           = Cardinality(HeldBy(before)) + Cardinality(Held(w, y))
  BY <1>0, OnlyOneChanges
<1>2. /\ Cardinality(HeldBy(after)) \in Nat /\ Cardinality(Held(w, before[w])) \in Nat
      /\ Cardinality(HeldBy(before)) \in Nat /\ Cardinality(Held(w, y)) \in Nat
  BY <1>0, <1>1, FS_CardinalityType, Zenon
<1>3. p \in Nat /\ p + Cardinality(HeldBy(before)) = QueueBytes
  BY Zenon DEF Balanced
<1>4. n + Cardinality(HeldBy(after)) = QueueBytes
  BY <1>1, <1>2, <1>3
<1> QED
  BY <1>1, <1>4, Zenon DEF Balanced

LEMMA HeldFinite ==
  ASSUME NEW ws, NEW p, Balanced(ws, p), NEW w \in DOMAIN ws
  PROVE  IsFiniteSet(Held(w, ws[w])) /\ Cardinality(Held(w, ws[w])) \in Nat
<1>1. Held(w, ws[w]) \in SUBSET HeldBy(ws)
  BY Zenon DEF HeldBy
<1>2. IsFiniteSet(HeldBy(ws))
  BY Zenon DEF Balanced
<1>3. IsFiniteSet(Held(w, ws[w]))
  BY <1>1, <1>2, FS_Subset, Zenon
<1> QED
  BY <1>3, FS_CardinalityType, Zenon

LEMMA WorkInv ==
  ASSUME ClientInv, NEW w \in DOMAIN workers, Work(w)
  PROVE  ClientInv'
<1> DEFINE x == workers[w]
<1>1. /\ Tidy(x) /\ IsRec(x) /\ x.queue \in Seq(Payloads)
      /\ x.pc # "send" => x.hand = Nil
      /\ Balanced(workers, permits)
  BY Zenon DEF ClientInv, Tidy
<1>2. IsFiniteSet(Held(w, x)) /\ Cardinality(Held(w, x)) \in Nat
  BY <1>1, HeldFinite, Zenon
<1>3. permits \in Nat
  BY <1>1, Zenon DEF Balanced
<1>4. ASSUME NEW y, Becomes(w, y), y.key = x.key, Tidy(y), UNCHANGED flows,
             IsFiniteSet(Held(w, y)), permits' \in Nat,
             permits' + Cardinality(Held(w, y)) = permits + Cardinality(Held(w, x))
      PROVE  ClientInv'
  <2>1. Balanced(workers', permits')
    BY <1>1, <1>4, StepBalanced, Zenon DEF Becomes
  <2> QED
    BY <1>4, <2>1, StepPaired, Zenon
<1>5. CASE Bind(w)
  <2> DEFINE y == Bound(x)
  <2>1. Becomes(w, y) /\ UNCHANGED <<flows, permits>> /\ x.pc = "bind"
    BY <1>1, <1>5, BindBecomes, Zenon DEF Bind
  <2>2. y.key = x.key /\ y.pc = "select" /\ y.queue = x.queue /\ y.hand = x.hand /\ IsRec(y)
    BY Zenon DEF Bound, Rec, IsRec
  <2> HIDE DEF y
  <2>3. x.hand = Nil
    BY <1>1, <2>1
  <2>4. Tidy(y)
    BY <1>1, <2>2, <2>3 DEF Tidy
  <2>5. Held(w, y) = Held(w, x)
    BY <2>2, Zenon DEF Held, InHand
  <2>6. permits' = permits /\ UNCHANGED flows
    BY <2>1, Zenon
  <2> QED
    BY <1>2, <1>3, <1>4, <2>1, <2>2, <2>4, <2>5, <2>6, Zenon
<1>6. CASE Take(w)
  <2> DEFINE y == Taking(x)
  <2>1. Becomes(w, y) /\ UNCHANGED <<flows, permits>> /\ x.pc = "select" /\ x.queue # <<>>
    BY <1>1, <1>6, TakeBecomes, Zenon DEF Take
  <2>2. y.key = x.key /\ y.pc = "send" /\ y.queue = Tail(x.queue) /\ IsRec(y)
    BY Zenon DEF Taking, Rec, IsRec
  <2>3. x.hand = Nil
    BY <1>1, <2>1
  <2>4. IsFiniteSet(Held(w, y)) /\ Cardinality(Held(w, y)) = Cardinality(Held(w, x))
    BY <1>1, <1>2, <2>1, <2>3, TakingKeeps, Zenon
  <2> HIDE DEF y
  <2>5. Tail(x.queue) \in Seq(Payloads)
    BY <1>1, <2>1
  <2>6. Tidy(y)
    BY <2>2, <2>5 DEF Tidy
  <2>7. permits' = permits /\ UNCHANGED flows
    BY <2>1, Zenon
  <2> QED
    BY <1>3, <1>4, <2>1, <2>2, <2>4, <2>6, <2>7, Zenon
<1>7. CASE Sent(w)
  <2> DEFINE y == Sending(x)
  <2>1. /\ Becomes(w, y) /\ UNCHANGED flows /\ x.pc = "send"
        /\ permits' = permits + Cardinality(InHand(w, x))
    BY <1>1, <1>7, SentBecomes, Zenon DEF Sent
  <2>2. y.key = x.key /\ y.pc = "select" /\ y.queue = x.queue /\ y.hand = Nil /\ IsRec(y)
    BY Zenon DEF Sending, Rec, IsRec
  <2> HIDE DEF y
  <2>3. Tidy(y)
    BY <1>1, <2>2 DEF Tidy
  <2>4. Held(w, x) = Held(w, y) \cup InHand(w, x) /\ Held(w, y) \cap InHand(w, x) = {}
    <3>1. Held(w, y) = PermitsOf(w, "queue", x.queue)
      BY <2>2, NoUnits, Zenon DEF Held, InHand
    <3>2. "queue" # "hand"
      OBVIOUS
    <3>3. PermitsOf(w, "queue", x.queue) \cap PermitsOf(w, "hand", x.hand) = {}
      BY <3>2, PlacesDiffer, Zenon
    <3> QED
      BY <3>1, <3>3, Zenon DEF Held, InHand
  <2>5. Held(w, y) \in SUBSET Held(w, x) /\ InHand(w, x) \in SUBSET Held(w, x)
    BY <2>4, Zenon
  <2>6. IsFiniteSet(Held(w, y)) /\ IsFiniteSet(InHand(w, x))
    BY <1>2, <2>5, FS_Subset, Zenon
  <2>7. Cardinality(Held(w, x)) = Cardinality(Held(w, y)) + Cardinality(InHand(w, x))
    BY <2>4, <2>6, DisjointUnion, Zenon
  <2>8. Cardinality(Held(w, y)) \in Nat /\ Cardinality(InHand(w, x)) \in Nat
    BY <2>6, FS_CardinalityType, Zenon
  <2>9. /\ permits' \in Nat
        /\ permits' + Cardinality(Held(w, y)) = permits + Cardinality(Held(w, x))
    BY <1>3, <2>1, <2>7, <2>8
  <2> QED
    BY <1>4, <2>1, <2>2, <2>3, <2>6, <2>9, Zenon
<1>8. CASE Stop(w)
  <2> DEFINE y == Stopped(x)
  <2>1. /\ Becomes(w, y) /\ UNCHANGED flows
        /\ permits' = permits + Cardinality(Held(w, x))
    BY <1>1, <1>8, StopBecomes, Zenon DEF Stop
  <2>2. y.key = x.key /\ y.queue = Nil /\ y.hand = Nil /\ IsRec(y)
    BY Zenon DEF Stopped, Rec, IsRec
  <2> HIDE DEF y
  <2>3. Tidy(y)
    BY <2>2 DEF Tidy, Nil
  <2>4. Held(w, y) = {}
    BY <2>2, NoUnits, Zenon DEF Held, InHand
  <2>5. IsFiniteSet(Held(w, y)) /\ Cardinality(Held(w, y)) = 0
    BY <2>4, FS_EmptySet, Zenon
  <2>6. /\ permits' \in Nat
        /\ permits' + Cardinality(Held(w, y)) = permits + Cardinality(Held(w, x))
    BY <1>2, <1>3, <2>1, <2>5
  <2> QED
    BY <1>4, <2>1, <2>2, <2>3, <2>5, <2>6, Zenon
<1> QED
  BY <1>5, <1>6, <1>7, <1>8, Zenon DEF Work

\* A packet is dropped, or queued with the permits it takes.
LEMMA EnqueueBalanced ==
  ASSUME NEW ws, NEW w \in DOMAIN ws, Tidy(ws[w]), Balanced(ws, permits),
         NEW payload \in Payloads, Enqueue(ws, w, payload)
  PROVE  \E y : Now(workers', ws, w, y) /\ y.key = ws[w].key /\ Tidy(y) /\ Balanced(workers', permits')
<1> DEFINE x == ws[w]
           y == Queueing(x, payload)
<1>1. IsRec(x) /\ x.queue \in Seq(Payloads) /\ permits \in Nat
  BY Zenon DEF Tidy, Balanced
<1>2. IsFiniteSet(Held(w, x)) /\ Cardinality(Held(w, x)) \in Nat
  BY HeldFinite, Zenon
<1>3. CASE Now(workers', ws, w, x) /\ UNCHANGED permits
  <2>1. Balanced(workers', permits')
    BY <1>1, <1>2, <1>3, StepBalanced, Zenon
  <2> QED
    BY <1>3, <2>1, Zenon
<1>4. CASE /\ Now(workers', ws, w, y) /\ Accepts(x, payload)
           /\ permits' = permits - Cost(payload)
  <2>1. y.key = x.key /\ y.pc = x.pc /\ y.queue = Append(x.queue, payload) /\ y.hand = x.hand /\ IsRec(y)
    BY Zenon DEF Queueing, Rec, IsRec
  <2>2. /\ IsFiniteSet(Held(w, y)) /\ Cost(payload) \in Nat
        /\ Cardinality(Held(w, y)) = Cardinality(Held(w, x)) + Cost(payload)
    BY <1>1, <1>2, QueueingAdds, Zenon
  <2> HIDE DEF y
  <2>3. x.pc # "done" /\ Cost(payload) <= permits
    BY <1>4, Zenon DEF Accepts
  <2>4. Append(x.queue, payload) \in Seq(Payloads)
    BY <1>1
  <2>5. Tidy(y)
    BY <2>1, <2>3, <2>4, Zenon DEF Tidy
  <2>6. permits' \in Nat /\ permits' + Cardinality(Held(w, y)) = permits + Cardinality(Held(w, x))
    BY <1>1, <1>2, <1>4, <2>2, <2>3
  <2>7. Balanced(workers', permits')
    BY <1>4, <2>2, <2>6, StepBalanced, Zenon
  <2> QED
    BY <1>4, <2>1, <2>5, <2>7, Zenon
<1> QED
  BY <1>1, <1>3, <1>4, EnqueueBecomes, Zenon

LEMMA ForwardInv ==
  ASSUME ClientInv, NEW k, NEW payload \in Payloads, Forward(k, payload)
  PROVE  ClientInv'
<1> DEFINE w == flows[k]
<1>1. /\ w \in DOMAIN workers /\ UNCHANGED flows /\ Enqueue(workers, w, payload)
      /\ Tidy(workers[w]) /\ Balanced(workers, permits)
  BY Zenon DEF Forward, ClientInv, Paired
<1> HIDE DEF w
<1>2. PICK y : /\ Now(workers', workers, w, y) /\ y.key = workers[w].key /\ Tidy(y)
               /\ Balanced(workers', permits')
  BY <1>1, EnqueueBalanced, Zenon
<1> QED
  BY <1>1, <1>2, StepPaired, Zenon DEF Becomes

\* A new key and its worker enter the map and the JoinSet together, without
\* packets.
LEMMA SpawnInv ==
  ASSUME ClientInv, NEW k, NEW payload \in Payloads, NEW w, Spawn(k, payload, w)
  PROVE  ClientInv'
<1>1. k \notin DOMAIN flows /\ w \notin DOMAIN workers /\ ClientHasRoom
  BY Zenon DEF Spawn
<1>2. PICK ws : Grown(ws, w, k) /\ Enqueue(ws, w, payload)
  BY SpawnGrows, Zenon
<1>3. /\ DOMAIN flows' = DOMAIN flows \cup {k} /\ flows'[k] = w
      /\ \A j \in DOMAIN flows : flows'[j] = flows[j]
  BY <1>1, Zenon DEF Spawn, Insert
<1>4. /\ DOMAIN ws = DOMAIN workers \cup {w} /\ ws[w] = NewWorker(k)
      /\ \A v \in DOMAIN workers : ws[v] = workers[v]
  BY <1>2, Zenon DEF Grown
<1>5. ws[w] = Rec(k, "bind", Nil, Nil, {}) /\ IsRec(ws[w])
  BY <1>4, NewWorkerRec, Zenon
<1>6. ws[w].key = k /\ ws[w].pc = "bind" /\ ws[w].queue = Nil /\ ws[w].hand = Nil
  <2>1. /\ NewWorker(k).key = k /\ NewWorker(k).pc = "bind"
        /\ NewWorker(k).queue = Nil /\ NewWorker(k).hand = Nil
    BY Zenon DEF NewWorker, Nil
  <2> QED
    BY <1>4, <2>1, Zenon
<1>7. Tidy(ws[w])
  <2>1. Nil \in Seq(Payloads)
    BY DEF Nil
  <2> QED
    BY <1>5, <1>6, <2>1, Zenon DEF Tidy
<1>8. Balanced(ws, permits)
  <2>1. Held(w, ws[w]) = {}
    BY <1>6, NoUnits, Zenon DEF Held, InHand
  <2>2. HeldBy(ws) = HeldBy(workers)
    BY <1>4, <2>1, Zenon DEF HeldBy
  <2> QED
    BY <2>2, Zenon DEF ClientInv, Balanced
<1>9. PICK y : /\ Now(workers', ws, w, y) /\ y.key = ws[w].key /\ Tidy(y)
               /\ Balanced(workers', permits')
  BY <1>2, <1>4, <1>7, <1>8, EnqueueBalanced, Zenon
<1>10. /\ DOMAIN workers' = DOMAIN workers \cup {w} /\ workers'[w] = y /\ y.key = k
       /\ \A v \in DOMAIN workers : workers'[v] = workers[v]
  BY <1>1, <1>4, <1>6, <1>9, Zenon DEF Now
<1>11. /\ \A j \in DOMAIN flows' : flows'[j] \in DOMAIN workers' /\ workers'[flows'[j]].key = j
       /\ \A v \in DOMAIN workers' : workers'[v].key \in DOMAIN flows' /\ flows'[workers'[v].key] = v
  BY <1>1, <1>3, <1>10 DEF ClientInv, Paired
<1>12. /\ IsFiniteSet(DOMAIN flows') /\ Cardinality(DOMAIN flows') = Cardinality(DOMAIN flows) + 1
       /\ IsFiniteSet(DOMAIN workers') /\ Cardinality(DOMAIN workers') = Cardinality(DOMAIN workers) + 1
  <2>1. IsFiniteSet(DOMAIN flows) /\ IsFiniteSet(DOMAIN workers)
    BY Zenon DEF ClientInv, Paired
  <2>2. /\ IsFiniteSet(DOMAIN flows \cup {k})
        /\ Cardinality(DOMAIN flows \cup {k}) = Cardinality(DOMAIN flows) + 1
    BY <1>1, <2>1, FS_AddElement, Zenon
  <2>3. /\ IsFiniteSet(DOMAIN workers \cup {w})
        /\ Cardinality(DOMAIN workers \cup {w}) = Cardinality(DOMAIN workers) + 1
    BY <1>1, <2>1, FS_AddElement, Zenon
  <2> QED
    BY <1>3, <1>10, <2>2, <2>3, Zenon
<1>13. Size(flows)' = Size(workers)' /\ Size(flows)' <= ClientMaxFlows
  <2>1. Cardinality(DOMAIN flows) \in Nat /\ Cardinality(DOMAIN flows) = Cardinality(DOMAIN workers)
    BY FS_CardinalityType, Zenon DEF ClientInv, Paired, Size
  <2>2. Cardinality(DOMAIN flows) < ClientMaxFlows
    BY <1>1, Zenon DEF ClientHasRoom, Size
  <2> QED
    BY <1>12, <2>1, <2>2, ClientFlowsAssumption DEF Size
<1>14. Paired'
  BY <1>11, <1>12, <1>13, Zenon DEF Paired
<1>15. \A v \in DOMAIN workers' : Tidy(workers'[v])
  BY <1>9, <1>10, Zenon DEF ClientInv
<1>16. \A v \in DOMAIN workers' : Tidy(workers[v])'
  BY <1>15, Zenon DEF Tidy, IsRec
<1>17. Balanced(workers, permits)'
  BY <1>9, Zenon DEF Balanced
<1> QED
  BY <1>14, <1>16, <1>17, Zenon DEF ClientInv

\* A worker that is joined and the entry of its key leave together; it holds no
\* permits any more.
LEMMA JoinInv ==
  ASSUME ClientInv, NEW w \in DOMAIN workers, Join(w)
  PROVE  ClientInv'
<1> DEFINE k == workers[w].key
<1>1. k \in DOMAIN flows /\ flows[k] = w
  BY Zenon DEF ClientInv, Paired
<1>2. DOMAIN flows' = DOMAIN flows \ {k} /\ \A j \in DOMAIN flows' : flows'[j] = flows[j]
  BY Zenon DEF Join, Remove, Restrict
<1>3. /\ DOMAIN workers' = DOMAIN workers \ {w}
      /\ \A v \in DOMAIN workers' : workers'[v] = workers[v]
      /\ workers[w].pc = "done" /\ permits' = permits
  BY Zenon DEF Join, Remove, Restrict
<1>4. /\ \A j \in DOMAIN flows' : flows'[j] \in DOMAIN workers' /\ workers'[flows'[j]].key = j
      /\ \A v \in DOMAIN workers' : workers'[v].key \in DOMAIN flows' /\ flows'[workers'[v].key] = v
  BY <1>1, <1>2, <1>3 DEF ClientInv, Paired
<1>5. /\ IsFiniteSet(DOMAIN flows') /\ Cardinality(DOMAIN flows') = Cardinality(DOMAIN flows) - 1
      /\ IsFiniteSet(DOMAIN workers') /\ Cardinality(DOMAIN workers') = Cardinality(DOMAIN workers) - 1
  <2> HIDE DEF k
  <2>1. IsFiniteSet(DOMAIN flows) /\ IsFiniteSet(DOMAIN workers)
    BY Zenon DEF ClientInv, Paired
  <2>2. /\ IsFiniteSet(DOMAIN flows \ {k})
        /\ Cardinality(DOMAIN flows \ {k}) = Cardinality(DOMAIN flows) - 1
    BY <1>1, <2>1, FS_RemoveElement, Zenon
  <2>3. /\ IsFiniteSet(DOMAIN workers \ {w})
        /\ Cardinality(DOMAIN workers \ {w}) = Cardinality(DOMAIN workers) - 1
    BY <2>1, FS_RemoveElement, Zenon
  <2> QED
    BY <1>2, <1>3, <2>2, <2>3, Zenon
<1>6. Size(flows)' = Size(workers)' /\ Size(flows)' <= ClientMaxFlows
  <2>1. /\ Cardinality(DOMAIN flows) \in Nat /\ Cardinality(DOMAIN flows) = Cardinality(DOMAIN workers)
        /\ Cardinality(DOMAIN flows) <= ClientMaxFlows
    BY FS_CardinalityType, Zenon DEF ClientInv, Paired, Size
  <2> QED
    BY <1>5, <2>1, ClientFlowsAssumption DEF Size
<1>7. Paired'
  BY <1>4, <1>5, <1>6, Zenon DEF Paired
<1>8. \A v \in DOMAIN workers' : Tidy(workers[v])'
  BY <1>3, Zenon DEF ClientInv, Tidy, IsRec
<1>9. Balanced(workers, permits)'
  <2>1. workers[w].queue = Nil /\ workers[w].hand = Nil
    BY <1>3 DEF ClientInv, Tidy
  <2>2. Held(w, workers[w]) = {}
    BY <2>1, NoUnits, Zenon DEF Held, InHand
  <2>3. HeldBy(workers') = HeldBy(workers)
    BY <1>3, <2>2, Zenon DEF HeldBy
  <2>4. HeldBy(workers)' = HeldBy(workers)
    BY <2>3, Zenon DEF HeldBy, Held, InHand, PermitsOf, Cost
  <2> QED
    BY <1>3, <2>4, Zenon DEF ClientInv, Balanced
<1> QED
  BY <1>7, <1>8, <1>9, Zenon DEF ClientInv

LEMMA ClientInductive == ClientInv /\ [ClientNext]_client => ClientInv'
<1> SUFFICES ASSUME ClientInv, [ClientNext]_client PROVE ClientInv'
  BY Zenon
<1>1. CASE UNCHANGED client
  <2>1. flows' = flows /\ workers' = workers /\ permits' = permits
    BY <1>1, Zenon DEF client
  <2>2. Paired'
    BY <2>1, Zenon DEF ClientInv, Paired, Size
  <2>3. \A w \in DOMAIN workers' : Tidy(workers[w])'
    BY <2>1, Zenon DEF ClientInv, Tidy, IsRec
  <2>4. Balanced(workers, permits)'
    <3>1. HeldBy(workers') = HeldBy(workers)
      BY <2>1, Zenon
    <3>2. HeldBy(workers)' = HeldBy(workers)
      BY <3>1, Zenon DEF HeldBy, Held, InHand, PermitsOf, Cost
    <3> QED
      BY <2>1, <3>2, Zenon DEF ClientInv, Balanced
  <2> QED
    BY <2>2, <2>3, <2>4, Zenon DEF ClientInv
<1>2. ASSUME NEW k \in Keys, NEW payload \in Payloads, Arrive(k, payload) PROVE ClientInv'
  BY <1>2, ForwardInv, SpawnInv, Zenon DEF Arrive
<1>3. ASSUME NEW w \in DOMAIN workers, Join(w) \/ Work(w) PROVE ClientInv'
  BY <1>3, JoinInv, WorkInv, Zenon
<1>4. ASSUME NEW w \in DOMAIN workers, NEW d \in workers[w].heard, Reply(w, d) PROVE ClientInv'
  BY <1>1, <1>4, Zenon DEF Reply
<1> QED
  BY <1>1, <1>2, <1>3, <1>4, Zenon DEF ClientNext

LEMMA ClientInvariance == ClientSpec => []ClientInv
  BY ClientInitially, ClientInductive, PTL DEF ClientSpec

\* In every interleaving of the session loop and its workers, each entry of
\* `flows` has its own worker in the JoinSet and each worker there its entry, and
\* max_udp_flows bounds both.
THEOREM WorkersMatchFlows == ClientSpec => []OneWorkerPerKey
<1>1. ClientInv => OneWorkerPerKey
  BY DEF ClientInv, Paired, OneWorkerPerKey
<1> QED
  BY <1>1, ClientInvariance, PTL

\* Whatever the sizes of the packets, the queues and the byte budget: the permits
\* of the semaphore and those that queued packets and packets being sent own add
\* up to the budget, and the semaphore never gives more than it has.
THEOREM PermitsNeverLost == ClientSpec => []PermitsConserved
<1>1. ClientInv => PermitsConserved
  BY DEF ClientInv, Balanced, PermitsConserved
<1> QED
  BY <1>1, ClientInvariance, PTL

-----------------------------------------------------------------------------
(* Composition                                                             *)

\* A step of the tunnel is a step of the server's table or leaves it alone.
LEMMA TunnelStep ==
  ASSUME IInv, IndInv, [TunnelNext]_tunnel
  PROVE  [Next]_vars
<1>1. CASE UNCHANGED vars
  BY <1>1, Zenon
<1>2. ASSUME NEW s \in Services, NEW p \in Peers, Listen(s, p) PROVE Next
  BY <1>2, Zenon DEF Listen, Next
<1>3. ASSUME NEW m \in back, ServerReads(m) PROVE Next
  <2>1. PICK p \in Peers : Route(m.key[1], m.key[2], p)
    BY <1>3, Zenon DEF ServerReads
  <2>2. m.key[2] \in DOMAIN by_id /\ by_id[m.key[2]].service = m.key[1]
    BY <2>1, Zenon DEF Route
  <2>3. m.key[2] \in 0 .. IdLimit
    BY <2>2, FlowsAssumption DEF IndInv, TypeOK
  <2>4. m.key[1] \in Services
    BY <2>2, Zenon DEF IndInv, TypeOK
  <2> QED
    BY <2>1, <2>3, <2>4, Zenon DEF Next
<1>4. CASE ServerWorks
  BY <1>4, Zenon DEF ServerWorks, Next
<1> QED
  BY <1>1, <1>2, <1>3, <1>4, Zenon DEF TunnelNext, tunnel, ClientReads, LosesPacket,
     ClientWorks, WorkerReplies, LosesReply

\* Composition: within the tunnel, with the channels and the client's workers
\* around it, the server's table behaves as ServerFlows says by itself, so that
\* all of its properties hold there too.
THEOREM TunnelHasTable == TunnelSpec => Spec
<1>1. TunnelInit => Init
  BY Zenon DEF TunnelInit
<1>2. IInv /\ IndInv /\ [TunnelNext]_tunnel => [Next]_vars
  BY TunnelStep, Zenon
<1> QED
  BY <1>1, <1>2, Initially, Inductive, InitInv, NextInv, PTL DEF TunnelSpec, Spec

\* Packets on their way to the client have keys and data of the server.
Addressed == \A m \in down : m.key \in Services \X (0 .. IdLimit) /\ m.data \in Sources

LEMMA StaysAddressed ==
  ASSUME Addressed, [TunnelNext]_tunnel
  PROVE  Addressed'
<1>1. CASE down' \subseteq down
  BY <1>1, Zenon DEF Addressed
<1>2. ASSUME NEW s \in Services, NEW p \in Peers, Listen(s, p) PROVE Addressed'
  <2>1. PICK f \in 0 .. IdLimit : down' = down \cup {Packet(s, f, <<s, p>>)}
    BY <1>2, Zenon DEF Listen
  <2>2. /\ Packet(s, f, <<s, p>>).key \in Services \X (0 .. IdLimit)
        /\ Packet(s, f, <<s, p>>).data \in Sources
    BY Zenon DEF Packet, Sources
  <2> QED
    BY <2>1, <2>2, Zenon DEF Addressed
<1> QED
  BY <1>1, <1>2, Zenon DEF TunnelNext, tunnel, channel, ClientReads, LosesPacket, ClientWorks,
     WorkerReplies, ServerReads, LosesReply, ServerWorks

\* A step of the tunnel is a step of the client or leaves it alone.
LEMMA TunnelClientStep ==
  ASSUME Addressed, [TunnelNext]_tunnel
  PROVE  [ClientNext]_client
<1>1. CASE UNCHANGED client
  BY <1>1, Zenon
<1>2. ASSUME NEW m \in down, ClientReads(m) PROVE ClientNext
  <2> DEFINE payload == [data |-> m.data, size |-> 1]
  <2>1. Arrive(m.key, payload)
    BY <1>2, Zenon DEF ClientReads
  <2>2. m.key \in Keys
    BY TunnelAssumption, Zenon DEF Addressed
  <2>3. payload \in Payloads
    BY TunnelAssumption, Zenon DEF Addressed, Payloads
  <2> HIDE DEF payload
  <2> QED
    BY <2>1, <2>2, <2>3, Zenon DEF ClientNext
<1>3. CASE ClientWorks
  BY <1>3, Zenon DEF ClientWorks, ClientNext
<1> QED
  BY <1>1, <1>2, <1>3, Zenon DEF TunnelNext, tunnel, Listen, LosesPacket, WorkerReplies, Reply,
     ServerReads, LosesReply, ServerWorks

\* Composition: within the tunnel, with the server's table and the channels around
\* it, the client behaves as ClientFlows says by itself: it keeps one worker per
\* key and loses no permits there either.
THEOREM TunnelHasClient == TunnelSpec => ClientSpec
<1>1. TunnelInit => ClientInit /\ Addressed
  BY Zenon DEF TunnelInit, Addressed
<1>2. Addressed /\ [TunnelNext]_tunnel => Addressed' /\ [ClientNext]_client
  BY StaysAddressed, TunnelClientStep, Zenon
<1> QED
  BY <1>1, <1>2, PTL DEF TunnelSpec, ClientSpec
=============================================================================
