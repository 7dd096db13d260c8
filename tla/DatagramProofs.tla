--------------------------- MODULE DatagramProofs ---------------------------
(***************************************************************************)
(* Reassembly (module Datagram) for any number of tasks, any payloads up   *)
(* to MAX_PAYLOAD, any chunk and window size and any limits.  A ghost set  *)
(* S of nonces stands for the datagrams that open() let through; the       *)
(* bitmap represents it (module DatagramCryptoProofs), and every fragment  *)
(* in it is held, delivered with its payload, or counted as dropped.       *)
(***************************************************************************)
EXTENDS Datagram, TLAPS

-----------------------------------------------------------------------------
(* The number of fragments *)

LEMMA Quotient ==
  ASSUME NEW a \in Nat, NEW c \in Nat \ {0}
  PROVE  a \div c \in Nat /\ a % c \in 0 .. c - 1 /\ a = c * (a \div c) + (a % c)
OBVIOUS

LEMMA ProductBound ==
  ASSUME NEW c \in Nat \ {0}, NEW q \in Nat, NEW l \in Nat, l < q
  PROVE  c * q >= c + l
<1>1. c * (l + 1) <= c * q
  OBVIOUS
<1>2. c * (l + 1) = c * l + c /\ c * l >= l
  OBVIOUS
<1> QED
  BY <1>1, <1>2

LEMMA CountBounds ==
  ASSUME NEW l \in Lengths
  PROVE  /\ l \in 0 .. MaxPayload /\ l \in Nat /\ l < FieldModulus
         /\ Count(l) \in Nat /\ Count(l) >= 1 /\ Count(l) <= FieldModulus
<1>1. l \in 0 .. MaxPayload /\ l \in Nat /\ l < FieldModulus /\ FieldModulus >= 1
  BY DatagramAssumption
<1>2. CASE l = 0
  BY <1>1, <1>2 DEF Count
<1>3. CASE l # 0
  <2> DEFINE a == l + Chunk - 1
             q == a \div Chunk
             r == a % Chunk
  <2>1. a \in Nat /\ Chunk \in Nat \ {0} /\ a = l + Chunk - 1
    BY <1>1, DatagramAssumption
  <2>2. Count(l) = q
    BY <1>3, Zenon DEF Count
  <2> HIDE DEF a
  <2>3. q \in Nat /\ r \in 0 .. Chunk - 1 /\ a = Chunk * q + r
    BY <2>1, Quotient, Zenon
  <2> HIDE DEF q, r
  <2>4. q # 0
    BY <1>1, <1>3, <2>1, <2>3
  <2>5. ~(l < q)
    BY <1>1, <2>1, <2>3, ProductBound
  <2> QED
    BY <1>1, <2>2, <2>3, <2>4, <2>5, DatagramAssumption
<1> QED
  BY <1>2, <1>3, Zenon

-----------------------------------------------------------------------------
(* The inductive invariant *)

Payloads == 1 .. Len(sent)

Indices(u) == 0 .. Count(sent[u].length) - 1

\* fragment i of payload u, sealed with nonce n
FragmentOf(u, i, n) ==
  [nonce |-> n, dest |-> sent[u].dest, message |-> u - 1, length |-> sent[u].length,
   index |-> i, size |-> SizeOf(sent[u].length, i), body |-> <<u, i>>]

SendCall == [pc : {"send"}, message : Nat, uid : Nat, dest : Dests, length : Lengths, i : Nat]

\* a send call in the fragment loop of its own payload, with index i up next
Sending(s) ==
  /\ s \in SendCall
  /\ s.uid \in Payloads
  /\ s.message = s.uid - 1
  /\ s.dest = sent[s.uid].dest
  /\ s.length = sent[s.uid].length
  /\ s.i \in Indices(s.uid)

\* no fragment of a payload is sent before its turn
InTurn(s) == \A f \in wire : f.body[1] = s.uid => f.body[2] < s.i

Busy == {t \in Tasks : task[t].pc = "send"}

\* message IDs number the payloads, and a payload is sent by one task
Senders ==
  /\ next \in Nat
  /\ sent \in Seq([dest : Dests, length : Lengths])
  /\ next_message = Len(sent)
  /\ DOMAIN task = Tasks
  /\ \A t \in Busy : Sending(task[t]) /\ InTurn(task[t])
  /\ \A t, v \in Busy : task[t].uid = task[v].uid => t = v

Genuine(f) ==
  \E u \in Payloads : \E i \in Indices(u), n \in 0 .. next - 1 : f = FragmentOf(u, i, n)

\* every fragment of a payload is sealed once
Wire ==
  /\ \A f \in wire : Genuine(f)
  /\ \A f, g \in wire : f.nonce = g.nonce \/ f.body = g.body => f = g

\* fragment i of payload u is among the received nonces S
Received(S, u, i) == \E f \in wire : f.body = <<u, i>> /\ f.nonce \in S

AssemblyType(parts) == [dest : Dests, length : Lengths, parts : {parts}, age : Nat]

PartsOf(u, D) == [i \in D |-> <<u, i>>]

\* an incomplete assembly under message ID m holds parts of payload m + 1 only
Assembly(S, m, a) ==
  /\ m + 1 \in Payloads /\ m \in Nat
  /\ a \in AssemblyType(a.parts)
  /\ a.dest = sent[m + 1].dest
  /\ a.length = sent[m + 1].length
  /\ Count(a.length) > 1
  /\ a.parts = PartsOf(m + 1, DOMAIN a.parts)
  /\ DOMAIN a.parts \subseteq Indices(m + 1)
  /\ ~Complete(a)
  /\ \A i \in DOMAIN a.parts : Received(S, m + 1, i)

Pending(S) == \A m \in DOMAIN pending : Assembly(S, m, pending[m])

PacketOf(u) == Packet(sent[u].dest, Bodies(u))

\* a delivered packet used up all fragments of its payload
Delivered(S) ==
  \A p \in DOMAIN delivered :
    /\ delivered[p] = 1
    /\ \E u \in Payloads : p = PacketOf(u) /\ \A i \in Indices(u) : Received(S, u, i)

\* what became of a fragment that was received
Kept(u, i) ==
  \/ u \in dropped
  \/ PacketOf(u) \in DOMAIN delivered
  \/ u - 1 \in DOMAIN pending /\ i \in DOMAIN pending[u - 1].parts

NoneForgotten(S) ==
  \A u \in Payloads : \A i \in Indices(u) : Received(S, u, i) => Kept(u, i)

Receiver(S) ==
  /\ replay \in ReplayWindowType
  /\ Represents(replay, S)
  /\ Pending(S)
  /\ Delivered(S)
  /\ NoneForgotten(S)

IInv ==
  /\ Senders
  /\ Wire
  /\ ~rejected
  /\ \E S \in SUBSET (0 .. next - 1) : Receiver(S)

-----------------------------------------------------------------------------
(* What the sender seals is what the receiver expects *)

LEMMA PayloadFacts ==
  ASSUME Senders, NEW u \in Payloads
  PROVE  /\ u \in Nat /\ u >= 1
         /\ sent[u] \in [dest : Dests, length : Lengths]
         /\ sent[u].dest \in Dests /\ sent[u].length \in Lengths
         /\ sent[u].length \in Nat /\ sent[u].length <= MaxPayload
         /\ Count(sent[u].length) \in Nat /\ Count(sent[u].length) >= 1
         /\ \A i \in Indices(u) : i \in Nat /\ i < Count(sent[u].length) /\ i < FieldModulus
<1>1. sent \in Seq([dest : Dests, length : Lengths]) /\ Len(sent) \in Nat
  BY DEF Senders
<1>2. u \in Nat /\ u >= 1 /\ sent[u] \in [dest : Dests, length : Lengths]
  <2> DEFINE T == [dest : Dests, length : Lengths]
  <2>1. sent \in Seq(T)
    BY <1>1, Zenon
  <2> HIDE DEF T
  <2>2. u \in Nat /\ u >= 1 /\ sent[u] \in T
    BY <1>1, <2>1 DEF Payloads
  <2> QED
    BY <2>2, Zenon DEF T
<1>3. sent[u].dest \in Dests /\ sent[u].length \in Lengths
  BY <1>2, Zenon
<1>4. /\ sent[u].length \in 0 .. MaxPayload
      /\ Count(sent[u].length) \in Nat /\ Count(sent[u].length) >= 1
      /\ Count(sent[u].length) <= FieldModulus
  BY <1>3, CountBounds, Zenon
<1> QED
  BY <1>2, <1>3, <1>4, DatagramAssumption DEF Indices

\* The slice that send takes has the length that push expects.
LEMMA SliceSize ==
  ASSUME NEW length \in Nat, NEW i \in Nat
  PROVE  Slice(length, i) = SizeOf(length, i)
<1> DEFINE start == i * Chunk
<1>1. start \in Nat /\ Chunk \in Nat
  BY DatagramAssumption
<1>2. /\ Slice(length, i) = (IF start + Chunk < length THEN start + Chunk ELSE length) - start
      /\ SizeOf(length, i) = IF length - start < Chunk THEN length - start ELSE Chunk
  BY Zenon DEF Slice, SizeOf
<1> HIDE DEF start
<1> QED
  BY <1>1, <1>2

\* The 16-bit fields lose nothing: the sealed fragment is the one meant.
LEMMA HeaderExact ==
  ASSUME Senders, NEW s, Sending(s), NEW n
  PROVE  Header(s, n) = FragmentOf(s.uid, s.i, n)
<1>1. s.uid \in Payloads /\ s.i \in Indices(s.uid) /\ s.length = sent[s.uid].length
  BY Zenon DEF Sending
<1>2. /\ s.length \in Nat /\ s.length < FieldModulus
      /\ s.i \in Nat /\ s.i < FieldModulus
      /\ FieldModulus \in Nat
  BY <1>1, PayloadFacts, DatagramAssumption
<1>3. \A x, y \in Nat : x < y => x % y = x
  OBVIOUS
<1>4. s.length % FieldModulus = s.length /\ s.i % FieldModulus = s.i
  BY <1>2, <1>3, Zenon
<1>5. Slice(s.length, s.i) = SizeOf(s.length, s.i)
  BY <1>2, SliceSize, Zenon
<1> QED
  BY <1>1, <1>4, <1>5, Zenon DEF Header, FragmentOf, Sending

-----------------------------------------------------------------------------
(* Steps of the sender *)

\* payloads are never forgotten
Prolongs == \A u \in Payloads : u \in Payloads' /\ sent'[u] = sent[u]

\* the receiver has got the same fragments as before
SameReceived(S) == \A u, i : Received(S, u, i)' <=> Received(S, u, i)

LEMMA ReceivedGenuine ==
  ASSUME Wire, NEW S, NEW u, NEW i, Received(S, u, i)
  PROVE  u \in Payloads /\ i \in Indices(u)
<1>1. PICK f \in wire : f.body = <<u, i>>
  BY Zenon DEF Received
<1>2. PICK v \in Payloads : \E j \in Indices(v), n \in 0 .. next - 1 : f = FragmentOf(v, j, n)
  BY Zenon DEF Wire, Genuine
<1>3. PICK j \in Indices(v), n \in 0 .. next - 1 : f = FragmentOf(v, j, n)
  BY <1>2, Zenon
<1>4. <<u, i>> = <<v, j>>
  BY <1>1, <1>3, Zenon DEF FragmentOf
<1> QED
  BY <1>4, Zenon

LEMMA NoncesNatural ==
  ASSUME Wire, NEW f \in wire
  PROVE  f.nonce \in Nat
BY DEF Wire, Genuine, FragmentOf

\* A step that only prolongs the history and adds no received fragment keeps
\* the receiver's part of the invariant.
LEMMA ReceiverFrame ==
  ASSUME Wire, NEW S, Receiver(S), UNCHANGED receiver, Prolongs, SameReceived(S)
  PROVE  Receiver(S)'
<1>1. UNCHANGED <<replay, pending, delivered, dropped>>
  BY Zenon DEF receiver
<1>2. ASSUME NEW u \in Payloads
      PROVE  u \in Payloads' /\ sent'[u] = sent[u] /\ Indices(u)' = Indices(u)
             /\ PacketOf(u)' = PacketOf(u)
  <2>1. u \in Payloads' /\ sent'[u] = sent[u]
    BY <1>2, Zenon DEF Prolongs
  <2> QED
    BY <2>1, Zenon DEF Indices, PacketOf, Bodies
<1>3. Pending(S)'
  <2>1. ASSUME NEW m \in DOMAIN pending PROVE Assembly(S, m, pending[m])'
    <3>1. Assembly(S, m, pending[m])
      BY Zenon DEF Receiver, Pending
    <3>2. m + 1 \in Payloads
      BY <3>1, Zenon DEF Assembly
    <3> QED
      BY <1>1, <1>2, <3>1, <3>2, Zenon DEF Assembly, SameReceived
  <2> QED
    BY <1>1, <2>1, Zenon DEF Pending
<1>4. Delivered(S)'
  <2> SUFFICES ASSUME NEW p \in DOMAIN delivered
               PROVE  /\ delivered[p] = 1
                      /\ \E u \in Payloads' : /\ p = PacketOf(u)'
                                              /\ \A i \in Indices(u)' : Received(S, u, i)'
    BY <1>1, Zenon DEF Delivered
  <2>1. delivered[p] = 1
    BY Zenon DEF Receiver, Delivered
  <2>2. PICK u \in Payloads : p = PacketOf(u) /\ \A i \in Indices(u) : Received(S, u, i)
    BY Zenon DEF Receiver, Delivered
  <2> QED
    BY <1>2, <2>1, <2>2, Zenon DEF SameReceived
<1>5. NoneForgotten(S)'
  <2> SUFFICES ASSUME NEW u \in Payloads', NEW i \in Indices(u)', Received(S, u, i)'
               PROVE  Kept(u, i)'
    BY Zenon DEF NoneForgotten
  <2>1. Received(S, u, i)
    BY Zenon DEF SameReceived
  <2>2. u \in Payloads /\ i \in Indices(u)
    BY <2>1, ReceivedGenuine, Zenon
  <2>3. Kept(u, i)
    BY <2>1, <2>2, Zenon DEF Receiver, NoneForgotten
  <2> QED
    BY <1>1, <1>2, <2>2, <2>3, Zenon DEF Kept
<1> QED
  BY <1>1, <1>3, <1>4, <1>5, Zenon DEF Receiver

LEMMA RangeGrows ==
  ASSUME NEW a \in Nat, NEW b \in Nat, a <= b
  PROVE  0 .. a - 1 \subseteq 0 .. b - 1
OBVIOUS

LEMMA GenuineStays ==
  ASSUME Prolongs, next \in Nat, next' \in Nat, next <= next', NEW f, Genuine(f)
  PROVE  Genuine(f)'
<1>1. PICK u \in Payloads : \E i \in Indices(u), n \in 0 .. next - 1 : f = FragmentOf(u, i, n)
  BY Zenon DEF Genuine
<1>2. PICK i \in Indices(u), n \in 0 .. next - 1 : f = FragmentOf(u, i, n)
  BY <1>1, Zenon
<1>3. u \in Payloads' /\ sent'[u] = sent[u]
  BY Zenon DEF Prolongs
<1>4. i \in Indices(u)' /\ f = FragmentOf(u, i, n)'
  BY <1>2, <1>3, Zenon DEF Indices, FragmentOf
<1>5. n \in 0 .. next' - 1
  BY RangeGrows, Zenon
<1> QED
  BY <1>3, <1>4, <1>5, Zenon DEF Genuine

LEMMA SendingStays ==
  ASSUME Prolongs, NEW s, Sending(s)
  PROVE  Sending(s)'
<1>1. s.uid \in Payloads' /\ sent'[s.uid] = sent[s.uid]
  BY Zenon DEF Prolongs, Sending
<1> QED
  BY <1>1, Zenon DEF Sending, Indices

\* A task whose call returned or failed is busy no longer.
LEMMA OneTaskLess ==
  ASSUME IInv, UNCHANGED <<next_message, wire, sent>>, UNCHANGED receiver,
         next' \in Nat, next <= next', NEW t \in Tasks, NEW x, x.pc # "send",
         task' = [task EXCEPT ![t] = x]
  PROVE  IInv'
<1>1. /\ Prolongs
      /\ \A S : SameReceived(S)
      /\ ~rejected'
  BY Zenon DEF Prolongs, Payloads, SameReceived, Received, IInv, receiver
<1>2. Wire'
  <2>1. \A f \in wire : Genuine(f)'
    BY <1>1, GenuineStays, Zenon DEF IInv, Wire, Senders
  <2> QED
    BY <2>1, Zenon DEF IInv, Wire
<1>3. Senders'
  <2>1. DOMAIN task' = Tasks /\ \A v \in Busy' : v \in Busy /\ task'[v] = task[v]
    BY Zenon DEF IInv, Senders, Busy
  <2>2. ASSUME NEW v \in Busy' PROVE Sending(task[v])' /\ InTurn(task[v])'
    <3>1. v \in Busy /\ task'[v] = task[v]
      BY <2>1, Zenon
    <3>2. Sending(task[v]) /\ InTurn(task[v])
      BY <3>1, Zenon DEF IInv, Senders
    <3> QED
      BY <3>1, <3>2, Zenon DEF Sending, InTurn, Payloads, Indices
  <2>3. \A v, w \in Busy' : task'[v].uid = task'[w].uid => v = w
    BY <2>1, Zenon DEF IInv, Senders
  <2> QED
    BY <2>1, <2>2, <2>3, Zenon DEF Senders, IInv
<1>4. PICK S \in SUBSET (0 .. next - 1) : Receiver(S)
  BY Zenon DEF IInv
<1>5. Receiver(S)'
  BY <1>1, <1>4, ReceiverFrame, Zenon DEF IInv
<1>6. S \in SUBSET (0 .. next' - 1)
  BY RangeGrows, Zenon DEF IInv, Senders
<1> QED
  BY <1>1, <1>2, <1>3, <1>5, <1>6, Zenon DEF IInv

LEMMA BeginStep ==
  ASSUME IInv, NEW t \in Tasks, NEW d \in Dests, NEW l \in Lengths, Begin(t, d, l)
  PROVE  IInv'
<1>a. PICK u : u = Len(sent) + 1
  BY Zenon
<1>b. PICK s : s = [pc |-> "send", message |-> next_message, uid |-> u, dest |-> d,
                    length |-> l, i |-> 0]
  BY Zenon
<1>1. /\ task[t].pc = "idle" /\ next_message = Len(sent) /\ next \in Nat
      /\ next_message' = next_message + 1 /\ next' = next /\ wire' = wire
      /\ UNCHANGED receiver
      /\ task' = [task EXCEPT ![t] = s]
  BY <1>a, <1>b, Zenon DEF Begin, IInv, Senders
<1>2. /\ Len(sent) \in Nat /\ u \in Nat /\ u >= 1
      /\ sent' \in Seq([dest : Dests, length : Lengths])
      /\ Len(sent') = u
      /\ Payloads' = Payloads \cup {u} /\ u \notin Payloads
      /\ Prolongs
      /\ sent'[u] = [dest |-> d, length |-> l]
  <2> DEFINE T == [dest : Dests, length : Lengths]
             x == [dest |-> d, length |-> l]
  <2>1. sent \in Seq(T) /\ x \in T /\ sent' = Append(sent, x)
    BY Zenon DEF Begin, IInv, Senders
  <2> HIDE DEF T, x
  <2>2. /\ Len(sent) \in Nat /\ sent' \in Seq(T) /\ Len(sent') = Len(sent) + 1
        /\ \A v \in 1 .. Len(sent) : sent'[v] = sent[v]
        /\ sent'[Len(sent) + 1] = x
    BY <2>1
  <2>3. Payloads' = Payloads \cup {u} /\ u \notin Payloads /\ Prolongs
    BY <1>a, <2>2 DEF Payloads, Prolongs
  <2> QED
    BY <1>a, <2>2, <2>3 DEF T, x
<1>3. Sending(s)'
  <2>1. s \in SendCall
    BY <1>1, <1>2, <1>b, Zenon DEF SendCall
  <2>2. sent'[u].length = l /\ sent'[u].dest = d
    BY <1>2
  <2>4. 0 \in Indices(u)'
    BY <2>2, CountBounds DEF Indices
  <2>3. s.uid = u /\ s.message = u - 1 /\ s.dest = d /\ s.length = l /\ s.i = 0
    BY <1>1, <1>2, <1>a, <1>b
  <2> QED
    BY <1>2, <2>1, <2>2, <2>3, <2>4, Zenon DEF Sending
<1>4. ASSUME NEW f \in wire PROVE f.body[1] \in Payloads /\ Genuine(f)'
  <2>1. Genuine(f)
    BY Zenon DEF IInv, Wire
  <2>2. f.body[1] \in Payloads
    BY <2>1 DEF Genuine, FragmentOf
  <2> QED
    BY <1>1, <1>2, <2>1, <2>2, GenuineStays
<1>5. Wire'
  BY <1>1, <1>4, Zenon DEF IInv, Wire
<1>6. /\ DOMAIN task' = Tasks /\ task'[t] = s /\ t \notin Busy
      /\ \A v \in Tasks : v # t => task'[v] = task[v]
  BY <1>1, Zenon DEF IInv, Senders, Busy
<1>7. s.uid = u
  BY <1>b, Zenon
<1>8. \A v \in Busy' : v # t => v \in Busy /\ task'[v] = task[v]
  BY <1>6, Zenon DEF Busy
<1>9. Senders'
  <2>1. ASSUME NEW v \in Busy' PROVE Sending(task[v])' /\ InTurn(task[v])'
    <3>1. CASE v = t
      BY <1>1, <1>2, <1>3, <1>4, <1>6, <1>7, <3>1 DEF InTurn, Sending
    <3>2. CASE v # t
      <4>1. v \in Busy /\ task'[v] = task[v]
        BY <1>8, <3>2, Zenon
      <4>2. Sending(task[v]) /\ InTurn(task[v])
        BY <4>1, Zenon DEF IInv, Senders
      <4>3. \A q : Sending(q) => Sending(q)'
        BY <1>2, SendingStays, Zenon
      <4> QED
        BY <1>1, <4>1, <4>2, <4>3, Zenon DEF InTurn, Sending
    <3> QED
      BY <3>1, <3>2, Zenon
  <2>2. \A v \in Busy : task[v].uid \in Payloads
    BY Zenon DEF IInv, Senders, Sending
  <2>3. ASSUME NEW v \in Busy', NEW w \in Busy', task'[v].uid = task'[w].uid PROVE v = w
    BY <1>2, <1>6, <1>7, <1>8, <2>2, <2>3 DEF IInv, Senders
  <2>4. next_message' = Len(sent')
    BY <1>1, <1>2, <1>a, Zenon
  <2> QED
    BY <1>1, <1>2, <1>6, <2>1, <2>3, <2>4, Zenon DEF Senders
<1>10. PICK S \in SUBSET (0 .. next - 1) : Receiver(S)
  BY Zenon DEF IInv
<1>11. SameReceived(S)
  BY <1>1, Zenon DEF SameReceived, Received
<1>12. Receiver(S)'
  BY <1>1, <1>2, <1>10, <1>11, ReceiverFrame, Zenon DEF IInv
<1>13. ~rejected' /\ S \in SUBSET (0 .. next' - 1)
  BY <1>1, Zenon DEF IInv, receiver
<1> QED
  BY <1>5, <1>9, <1>12, <1>13, Zenon DEF IInv

LEMMA FragmentStep ==
  ASSUME IInv, NEW t \in Tasks, Fragment(t)
  PROVE  IInv'
<1>1. PICK s : s = task[t]
  BY Zenon
<1>2. /\ s.pc = "send" /\ t \in Busy /\ Sending(s) /\ InTurn(s)
      /\ s \in SendCall /\ s.uid \in Payloads /\ s.i \in Indices(s.uid) /\ s.i \in Nat
      /\ s.length = sent[s.uid].length
  BY <1>1, Zenon DEF Fragment, IInv, Senders, Busy, Sending, SendCall
<1>a. PICK n : n = next
  BY Zenon
<1>3. PICK g : g = FragmentOf(s.uid, s.i, n)
  BY Zenon
<1>4. /\ next \in Nat /\ next' = next + 1 /\ wire' = wire \cup {g}
      /\ task' = [task EXCEPT ![t] = After(s)]
      /\ UNCHANGED <<next_message, sent>> /\ UNCHANGED receiver
  BY <1>1, <1>2, <1>a, <1>3, HeaderExact, Zenon DEF Fragment, IInv, Senders
<1>5. g.nonce = next /\ g.body = <<s.uid, s.i>> /\ g.body[1] = s.uid /\ g.body[2] = s.i
  BY <1>a, <1>3, Zenon DEF FragmentOf
<1>6. Prolongs
  BY <1>4, Zenon DEF Prolongs, Payloads
<1>7. Wire'
  <2>1. Genuine(g)'
    <3>1. s.uid \in Payloads' /\ s.i \in Indices(s.uid)' /\ g = FragmentOf(s.uid, s.i, n)'
      BY <1>2, <1>3, <1>4, Zenon DEF Payloads, Indices, FragmentOf
    <3>2. n \in 0 .. next' - 1
      BY <1>4, <1>a
    <3> QED
      BY <3>1, <3>2, Zenon DEF Genuine
  <2>2. ASSUME NEW f \in wire PROVE Genuine(f)' /\ f.body # g.body /\ f.nonce # g.nonce
    <3>1. Genuine(f)
      BY Zenon DEF IInv, Wire
    <3>2. Genuine(f)'
      BY <1>4, <1>6, <3>1, GenuineStays
    <3>3. f.body # g.body
      BY <1>2, <1>5 DEF InTurn
    <3>4. f.nonce # g.nonce
      BY <1>4, <1>5, <3>1 DEF Genuine, FragmentOf
    <3> QED
      BY <3>2, <3>3, <3>4, Zenon
  <2> QED
    BY <1>4, <2>1, <2>2, Zenon DEF IInv, Wire
<1>8. After(s).pc = "send" =>
        /\ Sending(After(s))' /\ InTurn(After(s))' /\ After(s).uid = s.uid
  <2> SUFFICES ASSUME After(s).pc = "send"
               PROVE  Sending(After(s))' /\ InTurn(After(s))' /\ After(s).uid = s.uid
    BY Zenon
  <2>1. PICK r : r = [s EXCEPT !.i = s.i + 1]
    BY Zenon
  <2>2. s.i + 1 < Count(s.length) /\ After(s) = r
    BY <2>1, Zenon DEF After, Idle
  <2>3. /\ r \in SendCall /\ r.uid = s.uid /\ r.message = s.message /\ r.dest = s.dest
        /\ r.length = s.length /\ r.i = s.i + 1
    BY <1>2, <2>1 DEF SendCall
  <2>4. r.i \in Indices(r.uid)
    BY <1>2, <2>2, <2>3, PayloadFacts DEF Indices, IInv
  <2>5. Sending(r)
    BY <1>2, <2>3, <2>4, Zenon DEF Sending
  <2>6. Sending(r)'
    BY <1>6, <2>5, SendingStays, Zenon
  <2>7. InTurn(r)'
    <3>1. ASSUME NEW f \in wire, f.body[1] = s.uid PROVE f.body[2] < s.i + 1
      <4>1. Genuine(f)
        BY Zenon DEF IInv, Wire
      <4>2. f.body[2] \in Nat
        BY <4>1, PayloadFacts DEF Genuine, FragmentOf, IInv
      <4> QED
        BY <1>2, <3>1, <4>2 DEF InTurn
    <3> QED
      BY <1>2, <1>4, <1>5, <2>3, <3>1 DEF InTurn
  <2> QED
    BY <2>2, <2>3, <2>6, <2>7, Zenon DEF Sending, InTurn
<1>9. Senders'
  <2>1. /\ DOMAIN task' = Tasks /\ task'[t] = After(s)
        /\ \A v \in Tasks : v # t => task'[v] = task[v]
    BY <1>4, Zenon DEF IInv, Senders
  <2>2. \A v \in Busy' : v # t => v \in Busy /\ task'[v] = task[v]
    BY <2>1, Zenon DEF Busy
  <2>3. t \in Busy' => task'[t].uid = s.uid
    BY <1>8, <2>1, Zenon DEF Busy
  <2>4. ASSUME NEW v \in Busy' PROVE Sending(task[v])' /\ InTurn(task[v])'
    <3>1. CASE v = t
      BY <1>8, <2>1, <3>1, Zenon DEF Busy, Sending, InTurn
    <3>2. CASE v # t
      <4>1. PICK r : r = task[v]
        BY Zenon
      <4>2. v \in Busy /\ task'[v] = r
        BY <2>2, <3>2, <4>1, Zenon
      <4>3. Sending(r) /\ InTurn(r) /\ r.uid # s.uid
        BY <1>1, <1>2, <3>2, <4>1, <4>2, Zenon DEF IInv, Senders
      <4>4. Sending(r)'
        BY <1>6, <4>3, SendingStays, Zenon
      <4>5. InTurn(r)'
        BY <1>4, <1>5, <4>3, Zenon DEF InTurn
      <4> QED
        BY <4>2, <4>4, <4>5, Zenon DEF Sending, InTurn
    <3> QED
      BY <3>1, <3>2, Zenon
  <2>5. ASSUME NEW v \in Busy', NEW w \in Busy', task'[v].uid = task'[w].uid PROVE v = w
    BY <1>1, <1>2, <2>2, <2>3, <2>5 DEF IInv, Senders
  <2> QED
    BY <1>4, <2>1, <2>4, <2>5 DEF Senders, IInv
<1>10. PICK S \in SUBSET (0 .. next - 1) : Receiver(S)
  BY Zenon DEF IInv
<1>11. SameReceived(S)
  <2>1. next \notin S
    BY <1>4
  <2> QED
    BY <1>4, <1>5, <2>1, Zenon DEF SameReceived, Received
<1>12. Receiver(S)'
  BY <1>4, <1>6, <1>10, <1>11, ReceiverFrame, Zenon DEF IInv
<1>13. S \in SUBSET (0 .. next' - 1)
  BY <1>4
<1>14. ~rejected'
  BY <1>4, Zenon DEF IInv, receiver
<1> QED
  BY <1>7, <1>9, <1>12, <1>13, <1>14, Zenon DEF IInv

\* Every step of a task that sends keeps the invariant.
LEMMA SenderStep ==
  ASSUME IInv, NEW t \in Tasks,
         \/ BeginExhausted(t) \/ Fragment(t) \/ FragmentFails(t) \/ FragmentExhausted(t)
  PROVE  IInv'
<1>1. next \in Nat
  BY Zenon DEF IInv, Senders
<1>2. PICK x : x = [pc |-> "failed"]
  BY Zenon
<1>3. x.pc # "send"
  BY <1>2, Zenon
<1>4. CASE BeginExhausted(t)
  <2>1. /\ task' = [task EXCEPT ![t] = x] /\ next' \in Nat /\ next <= next'
        /\ UNCHANGED <<next_message, wire, sent>> /\ UNCHANGED receiver
    BY <1>1, <1>2, <1>4 DEF BeginExhausted
  <2> QED
    BY <1>1, <1>3, <2>1, OneTaskLess, Zenon
<1>5. CASE FragmentFails(t)
  <2>1. /\ task' = [task EXCEPT ![t] = x] /\ next' \in Nat /\ next <= next'
        /\ UNCHANGED <<next_message, wire, sent>> /\ UNCHANGED receiver
    BY <1>1, <1>2, <1>5 DEF FragmentFails
  <2> QED
    BY <1>1, <1>3, <2>1, OneTaskLess, Zenon
<1>6. CASE FragmentExhausted(t)
  <2>1. /\ task' = [task EXCEPT ![t] = x] /\ next' \in Nat /\ next <= next'
        /\ UNCHANGED <<next_message, wire, sent>> /\ UNCHANGED receiver
    BY <1>1, <1>2, <1>6 DEF FragmentExhausted
  <2> QED
    BY <1>1, <1>3, <2>1, OneTaskLess, Zenon
<1> QED
  BY <1>4, <1>5, <1>6, FragmentStep, Zenon

-----------------------------------------------------------------------------
(* expire *)

LEMMA ExpireFacts ==
  /\ Fresh(pending) \subseteq DOMAIN pending
  /\ DOMAIN expire(pending) = Fresh(pending)
  /\ \A m \in Fresh(pending) : expire(pending)[m] = pending[m]
<1>1. Fresh(pending) \subseteq DOMAIN pending
  BY Zenon DEF Fresh
<1> QED
  BY <1>1, Zenon DEF expire, Retain, Restrict

\* expire() forgets no fragment silently: its payload counts as dropped.
LEMMA KeptOrLost ==
  ASSUME NEW S, Pending(S), NEW u \in Payloads, NEW i, Kept(u, i)
  PROVE  \/ u \in dropped \cup Lost(pending)
         \/ PacketOf(u) \in DOMAIN delivered
         \/ u - 1 \in Fresh(pending) /\ i \in DOMAIN pending[u - 1].parts
<1> SUFFICES ASSUME u - 1 \in DOMAIN pending, i \in DOMAIN pending[u - 1].parts,
                    u - 1 \notin Fresh(pending)
             PROVE  u \in Lost(pending)
  BY Zenon DEF Kept
<1> DEFINE parts == pending[u - 1].parts
<1>1. Assembly(S, u - 1, pending[u - 1]) /\ (u - 1) + 1 = u
  BY DEF Pending, Payloads
<1>2. parts = PartsOf(u, DOMAIN parts)
  BY <1>1, Zenon DEF Assembly
<1>3. parts[i] = <<u, i>> /\ parts[i] \in Range(parts)
  BY <1>2, Zenon DEF PartsOf, Range
<1>4. u \in {b[1] : b \in Range(parts)}
  BY <1>3
<1> QED
  BY <1>4, Zenon DEF Lost

LEMMA MoreReceived ==
  ASSUME NEW S, NEW T, S \subseteq T, NEW m, NEW a, Assembly(S, m, a)
  PROVE  Assembly(T, m, a)
<1>1. \A u, i : Received(S, u, i) => Received(T, u, i)
  BY Zenon DEF Received
<1> QED
  BY <1>1, Zenon DEF Assembly

\* the sender does nothing
Quiet == UNCHANGED <<next_message, next, task, closed, wire, sent>>

LEMMA QuietKeeps ==
  ASSUME IInv, Quiet
  PROVE  /\ Senders' /\ Wire'
         /\ Payloads' = Payloads
         /\ \A u : Indices(u)' = Indices(u) /\ PacketOf(u)' = PacketOf(u)
         /\ \A S, u, i : Received(S, u, i)' <=> Received(S, u, i)
         /\ \A S, m, a : Assembly(S, m, a)' <=> Assembly(S, m, a)
<1> USE DEF Quiet
<1>1. Payloads' = Payloads /\ \A u : Indices(u)' = Indices(u) /\ PacketOf(u)' = PacketOf(u)
  BY Zenon DEF Payloads, Indices, PacketOf, Bodies
<1>2. \A S, u, i : Received(S, u, i)' <=> Received(S, u, i)
  BY Zenon DEF Received
<1>3. \A S, m, a : Assembly(S, m, a)' <=> Assembly(S, m, a)
  BY <1>1, <1>2, Zenon DEF Assembly
<1>4. Senders' /\ Wire'
  BY DEF IInv, Senders, Wire, Busy, Sending, InTurn, Genuine, FragmentOf, Payloads, Indices
<1> QED
  BY <1>1, <1>2, <1>3, <1>4, Zenon

LEMMA TickStep ==
  ASSUME IInv, Tick
  PROVE  IInv'
<1>1. Quiet /\ UNCHANGED <<replay, delivered, rejected>>
  BY Zenon DEF Tick, sender, Quiet
<1>2. pending' = expire(pending) /\ dropped' = dropped \cup Lost(pending)
  BY Zenon DEF Tick
<1>3. PICK S \in SUBSET (0 .. next - 1) : Receiver(S)
  BY Zenon DEF IInv
<1>4. Pending(S) /\ Delivered(S) /\ NoneForgotten(S)
  BY <1>3, Zenon DEF Receiver
<1>5. Pending(S)'
  <2>1. \A m \in DOMAIN pending' : Assembly(S, m, pending'[m])
    BY <1>2, <1>4, ExpireFacts, Zenon DEF Pending
  <2> QED
    BY <1>1, <2>1, QuietKeeps, Zenon DEF Pending, Assembly
<1>6. Delivered(S)'
  BY <1>1, <1>4, QuietKeeps, Zenon DEF Delivered
<1>7. NoneForgotten(S)'
  <2> SUFFICES ASSUME NEW u \in Payloads, NEW i \in Indices(u), Received(S, u, i)
               PROVE  Kept(u, i)'
    BY <1>1, QuietKeeps, Zenon DEF NoneForgotten
  <2>1. Kept(u, i)
    BY <1>4, Zenon DEF NoneForgotten
  <2>2. \/ u \in dropped'
        \/ PacketOf(u) \in DOMAIN delivered'
        \/ u - 1 \in DOMAIN pending' /\ i \in DOMAIN pending'[u - 1].parts
    BY <1>1, <1>2, <1>4, <2>1, KeptOrLost, ExpireFacts, Zenon
  <2> QED
    BY <1>1, <2>2, QuietKeeps, Zenon DEF Kept
<1>8. Receiver(S)'
  BY <1>1, <1>3, <1>5, <1>6, <1>7, Zenon DEF Receiver
<1> QED
  BY <1>1, <1>3, <1>8, QuietKeeps, Zenon DEF IInv, Quiet

LEMMA AdvanceStep ==
  ASSUME IInv, Advance
  PROVE  IInv'
<1>1. Quiet /\ UNCHANGED <<replay, delivered, dropped, rejected>>
  BY Zenon DEF Advance, sender, Quiet
<1>2. PICK S \in SUBSET (0 .. next - 1) : Receiver(S)
  BY Zenon DEF IInv
<1>3. Pending(S) /\ Delivered(S) /\ NoneForgotten(S)
  BY <1>2, Zenon DEF Receiver
<1>4. DOMAIN pending' = DOMAIN pending
  BY Zenon DEF Advance
<1>5. ASSUME NEW m \in DOMAIN pending
      PROVE  Assembly(S, m, pending'[m]) /\ pending'[m].parts = pending[m].parts
  <2>1. Assembly(S, m, pending[m])
    BY <1>3, Zenon DEF Pending
  <2>2. PICK a : a = pending[m]
    BY Zenon
  <2>3. PICK x \in Nat : pending'[m] = [a EXCEPT !.age = x]
    <3>1. a.age \in Nat
      BY <2>1, <2>2, Zenon DEF Assembly, AssemblyType
    <3>2. pending'[m] = [a EXCEPT !.age = IF a.age < Ttl THEN a.age + 1 ELSE a.age]
      BY <2>2, Zenon DEF Advance
    <3> QED
      BY <3>1, <3>2
  <2>4. PICK b : b = [a EXCEPT !.age = x]
    BY Zenon
  <2>5. /\ b.dest = a.dest /\ b.length = a.length /\ b.parts = a.parts
        /\ b \in AssemblyType(b.parts)
    BY <2>1, <2>2, <2>4, Zenon DEF Assembly, AssemblyType
  <2>6. Assembly(S, m, b)
    BY <2>1, <2>2, <2>5, Zenon DEF Assembly, Complete
  <2> QED
    BY <2>2, <2>3, <2>4, <2>5, <2>6, Zenon
<1>6. Pending(S)'
  BY <1>1, <1>4, <1>5, QuietKeeps, Zenon DEF Pending, Assembly
<1>7. Delivered(S)'
  BY <1>1, <1>3, QuietKeeps, Zenon DEF Delivered
<1>8. NoneForgotten(S)'
  <2> SUFFICES ASSUME NEW u \in Payloads, NEW i \in Indices(u), Received(S, u, i)
               PROVE  Kept(u, i)'
    BY <1>1, QuietKeeps, Zenon DEF NoneForgotten
  <2>1. Kept(u, i)
    BY <1>3, Zenon DEF NoneForgotten
  <2> QED
    BY <1>1, <1>4, <1>5, <2>1, QuietKeeps, Zenon DEF Kept
<1>9. Receiver(S)'
  BY <1>1, <1>2, <1>6, <1>7, <1>8, Zenon DEF Receiver
<1> QED
  BY <1>1, <1>2, <1>9, QuietKeeps, Zenon DEF IInv, Quiet

-----------------------------------------------------------------------------
(* A fragment is received *)

\* fragment i of payload u is new to the receiver, and T the received nonces
\* once it is recorded
Arrives(S, T, f, u, i) ==
  /\ f \in wire
  /\ u \in Payloads
  /\ i \in Indices(u)
  /\ f = FragmentOf(u, i, f.nonce)
  /\ T = S \cup {f.nonce}
  /\ ~Received(S, u, i)

\* what the receiver reads in fragment i of payload u
Fields(f, u, i) ==
  /\ f.dest = sent[u].dest /\ f.message = u - 1 /\ f.length = sent[u].length
  /\ f.index = i /\ f.size = SizeOf(sent[u].length, i) /\ f.body = <<u, i>>
  /\ f.body[1] = u

Bounds(u, i) ==
  /\ u \in Nat /\ u - 1 \in Nat /\ (u - 1) + 1 = u
  /\ i \in Nat /\ i < Count(sent[u].length)
  /\ sent[u].dest \in Dests /\ sent[u].length \in Lengths
  /\ Count(sent[u].length) \in Nat /\ Count(sent[u].length) >= 1
  /\ sent[u].length <= MaxPayload

OneMore(S, T, u, i) ==
  /\ S \subseteq T
  /\ \A v, j : Received(T, v, j) <=> Received(S, v, j) \/ (v = u /\ j = i)

LEMMA ArrivalFacts ==
  ASSUME IInv, NEW S, NEW T, NEW f, NEW u, NEW i, Arrives(S, T, f, u, i)
  PROVE  /\ u \in Payloads /\ i \in Indices(u)
         /\ Fields(f, u, i) /\ Bounds(u, i) /\ OneMore(S, T, u, i)
<1>1. Fields(f, u, i)
  BY DEF Arrives, FragmentOf, Fields
<1>2. ASSUME NEW v, NEW j
      PROVE  Received(T, v, j) <=> Received(S, v, j) \/ (v = u /\ j = i)
  <2>1. ASSUME Received(T, v, j) PROVE Received(S, v, j) \/ (v = u /\ j = i)
    <3>1. PICK g \in wire : g.body = <<v, j>> /\ g.nonce \in T
      BY <2>1, Zenon DEF Received
    <3>2. CASE g.nonce \in S
      BY <3>1, <3>2, Zenon DEF Received
    <3>3. CASE g.nonce = f.nonce
      <4>1. g = f
        BY <3>3, Zenon DEF IInv, Wire, Arrives
      <4>2. <<v, j>> = <<u, i>>
        BY <1>1, <3>1, <4>1, Zenon DEF Fields
      <4> QED
        BY <4>2, Zenon
    <3> QED
      BY <3>1, <3>2, <3>3, Zenon DEF Arrives
  <2>2. Received(S, v, j) => Received(T, v, j)
    BY Zenon DEF Received, Arrives
  <2>3. Received(T, u, i)
    BY <1>1, Zenon DEF Received, Arrives, Fields
  <2> QED
    BY <2>1, <2>2, <2>3, Zenon
<1>3. /\ u \in Nat /\ u >= 1 /\ i \in Nat /\ i < Count(sent[u].length)
      /\ sent[u].dest \in Dests /\ sent[u].length \in Lengths
      /\ Count(sent[u].length) \in Nat /\ Count(sent[u].length) >= 1
      /\ sent[u].length <= MaxPayload
  BY PayloadFacts, Zenon DEF IInv, Arrives
<1>4. Bounds(u, i)
  <2>1. u - 1 \in Nat /\ (u - 1) + 1 = u
    BY <1>3
  <2> QED
    BY <1>3, <2>1, Zenon DEF Bounds
<1>5. S \subseteq T /\ u \in Payloads /\ i \in Indices(u)
  BY Zenon DEF Arrives
<1> QED
  BY <1>1, <1>2, <1>4, <1>5, Zenon DEF OneMore

LEMMA PacketInjective ==
  ASSUME Senders, NEW u \in Payloads, NEW v \in Payloads, PacketOf(u) = PacketOf(v)
  PROVE  u = v
<1>1. 0 \in Indices(u) /\ 0 \in Indices(v)
  BY PayloadFacts DEF Indices
<1>2. Bodies(u) = Bodies(v)
  BY Zenon DEF PacketOf, Packet
<1>3. Bodies(u)[0] = <<u, 0>> /\ Bodies(v)[0] = <<v, 0>>
  BY <1>1, Zenon DEF Bodies, Indices
<1>4. <<u, 0>> = <<v, 0>>
  BY <1>2, <1>3, Zenon
<1> QED
  BY <1>4, Zenon

\* The packet of a payload with a fragment that is new is new itself.
LEMMA FirstDelivery ==
  ASSUME IInv, Quiet, NEW S, NEW T, NEW f, NEW u, NEW i, Arrives(S, T, f, u, i), Delivered(S),
         \A j \in Indices(u) : Received(T, u, j),
         deliver(PacketOf(u))
  PROVE  /\ Delivered(T)'
         /\ DOMAIN delivered' = DOMAIN delivered \cup {PacketOf(u)}
<1>1. PICK p : p = PacketOf(u)
  BY Zenon
<1>2. p \notin DOMAIN delivered
  <2> SUFFICES ASSUME p \in DOMAIN delivered PROVE FALSE
    BY Zenon
  <2>1. PICK v \in Payloads : p = PacketOf(v) /\ \A j \in Indices(v) : Received(S, v, j)
    BY Zenon DEF Delivered
  <2>2. u = v
    BY <1>1, <2>1, PacketInjective, Zenon DEF IInv, Arrives
  <2> QED
    BY <2>1, <2>2, Zenon DEF Arrives
<1>3. /\ DOMAIN delivered' = DOMAIN delivered \cup {p}
      /\ delivered'[p] = 1
      /\ \A q \in DOMAIN delivered : delivered'[q] = delivered[q]
  BY <1>1, <1>2 DEF deliver, Insert, Copies
<1>4. ASSUME NEW q \in DOMAIN delivered'
      PROVE  /\ delivered'[q] = 1
             /\ \E v \in Payloads : q = PacketOf(v) /\ \A j \in Indices(v) : Received(T, v, j)
  <2>1. CASE q = p
    BY <1>1, <1>3, <2>1, Zenon DEF Arrives
  <2>2. CASE q # p
    <3>1. q \in DOMAIN delivered /\ delivered'[q] = 1
      BY <1>3, <2>2, Zenon DEF Delivered
    <3>2. PICK v \in Payloads : q = PacketOf(v) /\ \A j \in Indices(v) : Received(S, v, j)
      BY <3>1, Zenon DEF Delivered
    <3>3. \A j \in Indices(v) : Received(T, v, j)
      BY <3>2, ArrivalFacts, Zenon DEF OneMore
    <3> QED
      BY <3>1, <3>2, <3>3, Zenon
  <2> QED
    BY <2>1, <2>2, Zenon
<1>5. Delivered(T)'
  BY <1>4, QuietKeeps, Zenon DEF Delivered
<1> QED
  BY <1>1, <1>3, <1>5, Zenon

\* push() of a genuine fragment passes every ensure!.
LEMMA PushAccepts ==
  ASSUME IInv, NEW S, NEW T, NEW f, NEW u, NEW i, Arrives(S, T, f, u, i), Pending(S)
  PROVE  /\ WellFormed(f) /\ Consistent(f)
         /\ Entry(f).dest = f.dest /\ Entry(f).length = f.length
         /\ f.message \in Fresh(pending) => Entry(f) = pending[f.message]
         /\ f.message \notin Fresh(pending) => Entry(f) = NewAssembly(f)
<1>1. Fields(f, u, i) /\ Bounds(u, i)
  BY ArrivalFacts, Zenon
<1>2. WellFormed(f)
  BY <1>1, Zenon DEF WellFormed, Fields, Bounds
<1>3. DOMAIN expire(pending) = Fresh(pending) /\ Fresh(pending) \subseteq DOMAIN pending
  BY ExpireFacts, Zenon
<1>4. CASE f.message \in Fresh(pending)
  <2>1. Entry(f) = pending[f.message]
    BY <1>3, <1>4, Zenon DEF Entry
  <2>2. Assembly(S, f.message, pending[f.message])
    BY <1>3, <1>4, Zenon DEF Pending
  <2>3. pending[f.message].dest = f.dest /\ pending[f.message].length = f.length
    BY <1>1, <2>2, Zenon DEF Assembly, Fields, Bounds
  <2> QED
    BY <1>2, <1>4, <2>1, <2>3, Zenon DEF Consistent
<1>5. CASE f.message \notin Fresh(pending)
  <2>1. Entry(f) = NewAssembly(f)
    BY <1>3, <1>5, Zenon DEF Entry
  <2>2. NewAssembly(f).dest = f.dest /\ NewAssembly(f).length = f.length
    BY Zenon DEF NewAssembly
  <2> QED
    BY <1>2, <1>5, <2>1, <2>2, Zenon DEF Consistent
<1> QED
  BY <1>4, <1>5, Zenon

\* the assembly that push() adds the part to holds the parts D of payload u
Held(u, D) ==
  /\ u - 1 \in Fresh(pending) => D = DOMAIN pending[u - 1].parts
  /\ u - 1 \notin Fresh(pending) => D = {}

\* the assembly with the part
PartAdded(a, T, u, i, D) ==
  /\ a.parts = PartsOf(u, D \cup {i})
  /\ a \in AssemblyType(a.parts)
  /\ a.dest = sent[u].dest /\ a.length = sent[u].length
  /\ \A j \in D \cup {i} : Received(T, u, j)

LEMMA WithPartFacts ==
  ASSUME IInv, NEW S, NEW T, NEW f, NEW u, NEW i, Arrives(S, T, f, u, i), Pending(S)
  PROVE  \E D \in SUBSET Indices(u) : Held(u, D) /\ PartAdded(WithPart(f), T, u, i, D)
<1>1. PICK a : a = Entry(f)
  BY Zenon
<1>2. Fields(f, u, i) /\ Bounds(u, i) /\ OneMore(S, T, u, i)
  BY ArrivalFacts, Zenon
<1>3. /\ a.dest = f.dest /\ a.length = f.length
      /\ f.message \in Fresh(pending) => a = pending[f.message]
      /\ f.message \notin Fresh(pending) => a = NewAssembly(f)
  BY <1>1, PushAccepts, Zenon
<1>4. PICK D \in SUBSET Indices(u) :
        /\ Held(u, D)
        /\ a.parts = PartsOf(u, D)
        /\ a \in AssemblyType(a.parts)
        /\ \A j \in D : Received(S, u, j)
  <2>1. f.message = u - 1 /\ (u - 1) + 1 = u /\ f.dest \in Dests /\ f.length \in Lengths
    BY <1>2, Zenon DEF Fields, Bounds
  <2>2. CASE f.message \in Fresh(pending)
    <3>1. a = pending[u - 1] /\ Assembly(S, u - 1, a)
      BY <1>3, <2>1, <2>2, ExpireFacts, Zenon DEF Pending
    <3> QED
      BY <2>1, <2>2, <3>1, Zenon DEF Assembly, Held
  <2>3. CASE f.message \notin Fresh(pending)
    <3>1. a = NewAssembly(f)
      BY <1>3, <2>3, Zenon
    <3>2. a.parts = PartsOf(u, {})
      BY <3>1 DEF NewAssembly, EmptyMap, PartsOf
    <3>3. a \in AssemblyType(a.parts)
      BY <2>1, <3>1, Zenon DEF NewAssembly, AssemblyType
    <3>4. Held(u, {})
      BY <2>1, <2>3, Zenon DEF Held
    <3>5. {} \in SUBSET Indices(u) /\ \A j \in {} : Received(S, u, j)
      BY Zenon
    <3> QED
      BY <3>2, <3>3, <3>4, <3>5, Zenon
  <2> QED
    BY <2>2, <2>3, Zenon
<1>5. PICK x : x = Insert(a.parts, i, <<u, i>>)
  BY Zenon
<1>6. x = PartsOf(u, D \cup {i})
  BY <1>4, <1>5, Zenon DEF PartsOf, Insert
<1>7. WithPart(f) = [a EXCEPT !.parts = x]
  BY <1>1, <1>2, <1>5, Zenon DEF WithPart, Fields
<1>8. /\ WithPart(f).parts = x
      /\ WithPart(f) \in AssemblyType(x)
      /\ WithPart(f).dest = a.dest /\ WithPart(f).length = a.length
  BY <1>4, <1>7, Zenon DEF AssemblyType
<1>9. \A j \in D \cup {i} : Received(T, u, j)
  BY <1>2, <1>4, Zenon DEF OneMore
<1>10. a.dest = sent[u].dest /\ a.length = sent[u].length
  BY <1>2, <1>3, Zenon DEF Fields
<1>11. PartAdded(WithPart(f), T, u, i, D)
  BY <1>6, <1>8, <1>9, <1>10, Zenon DEF PartAdded
<1> QED
  BY <1>4, <1>11, Zenon

\* The parts of the invariant that a push may leave as they are.
LEMMA PushFrame ==
  ASSUME IInv, Quiet, NEW S, NEW T, NEW f, NEW u, NEW i, Arrives(S, T, f, u, i)
  PROVE  /\ Delivered(S) /\ UNCHANGED delivered => Delivered(T)'
         /\ \A m, a : Assembly(S, m, a) => Assembly(T, m, a)
         /\ /\ NoneForgotten(S)
            /\ Kept(u, i)'
            /\ \A v \in Payloads : \A j : Kept(v, j) => Kept(v, j)'
            => NoneForgotten(T)'
<1>1. OneMore(S, T, u, i)
  BY ArrivalFacts, Zenon
<1>2. ASSUME Delivered(S), UNCHANGED delivered PROVE Delivered(T)'
  <2> SUFFICES ASSUME NEW p \in DOMAIN delivered
               PROVE  /\ delivered[p] = 1
                      /\ \E v \in Payloads : p = PacketOf(v) /\ \A j \in Indices(v) : Received(T, v, j)
    BY <1>2, QuietKeeps, Zenon DEF Delivered
  <2>1. PICK v \in Payloads : p = PacketOf(v) /\ \A j \in Indices(v) : Received(S, v, j)
    BY <1>2, Zenon DEF Delivered
  <2>2. \A j \in Indices(v) : Received(T, v, j)
    BY <1>1, <2>1, Zenon DEF OneMore
  <2> QED
    BY <1>2, <2>1, <2>2, Zenon DEF Delivered
<1>3. \A m, a : Assembly(S, m, a) => Assembly(T, m, a)
  BY <1>1, MoreReceived, Zenon DEF OneMore
<1>4. ASSUME NoneForgotten(S), Kept(u, i)', \A v \in Payloads : \A j : Kept(v, j) => Kept(v, j)'
      PROVE  NoneForgotten(T)'
  <2> SUFFICES ASSUME NEW v \in Payloads, NEW j \in Indices(v), Received(T, v, j)
               PROVE  Kept(v, j)'
    BY QuietKeeps, Zenon DEF NoneForgotten
  <2>1. Received(S, v, j) \/ (v = u /\ j = i)
    BY <1>1, Zenon DEF OneMore
  <2>2. Received(S, v, j) => Kept(v, j)
    BY <1>4, Zenon DEF NoneForgotten
  <2> QED
    BY <1>4, <2>1, <2>2, Zenon
<1> QED
  BY <1>2, <1>3, <1>4, Zenon

LEMMA PushSingleStep ==
  ASSUME IInv, Quiet, NEW S, NEW T, NEW f, NEW u, NEW i, Arrives(S, T, f, u, i),
         Pending(S), Delivered(S), NoneForgotten(S), PushSingle(f)
  PROVE  Pending(T)' /\ Delivered(T)' /\ NoneForgotten(T)'
<1>1. Fields(f, u, i) /\ Bounds(u, i) /\ OneMore(S, T, u, i)
  BY ArrivalFacts, Zenon
<1>2. UNCHANGED <<pending, dropped>> /\ Count(sent[u].length) = 1
  BY <1>1, Zenon DEF PushSingle, Fields
<1>3. i = 0 /\ Indices(u) = {0}
  BY <1>2, <1>1 DEF Indices, Bounds
<1>4. Insert(EmptyMap, 0, f.body) = Bodies(u)
  <2>1. f.body = <<u, 0>>
    BY <1>3, <1>1, Zenon DEF Fields
  <2>2. Bodies(u) = [j \in {0} |-> <<u, j>>]
    BY <1>3, Zenon DEF Bodies, Indices
  <2>3. DOMAIN EmptyMap = {}
    BY DEF EmptyMap
  <2> QED
    BY <2>1, <2>2, <2>3, Zenon DEF Insert
<1>5. deliver(PacketOf(u))
  BY <1>4, <1>1, Zenon DEF PushSingle, PacketOf, Fields
<1>6. \A j \in Indices(u) : Received(T, u, j)
  BY <1>3, <1>1, Zenon DEF OneMore
<1>7. Delivered(T)' /\ DOMAIN delivered' = DOMAIN delivered \cup {PacketOf(u)}
  BY <1>5, <1>6, FirstDelivery, Zenon
<1>8. Kept(u, i)' /\ \A v \in Payloads : \A j : Kept(v, j) => Kept(v, j)'
  BY <1>2, <1>7, QuietKeeps, Zenon DEF Kept
<1>9. Pending(T)'
  BY <1>2, QuietKeeps, PushFrame, Zenon DEF Pending, Assembly
<1> QED
  BY <1>7, <1>8, <1>9, PushFrame, Zenon

LEMMA PushFullStep ==
  ASSUME IInv, Quiet, NEW S, NEW T, NEW f, NEW u, NEW i, Arrives(S, T, f, u, i),
         Pending(S), Delivered(S), NoneForgotten(S), PushFull(f)
  PROVE  Pending(T)' /\ Delivered(T)' /\ NoneForgotten(T)'
<1>1. /\ pending' = expire(pending) /\ dropped' = dropped \cup Lost(pending) \cup {u}
      /\ UNCHANGED delivered
  <2>1. Fields(f, u, i)
    BY ArrivalFacts, Zenon
  <2> QED
    BY <2>1, Zenon DEF PushFull, Fields
<1>2. Pending(T)'
  <2>1. \A m \in DOMAIN pending' : Assembly(S, m, pending'[m])
    BY <1>1, ExpireFacts, Zenon DEF Pending
  <2>2. \A m \in DOMAIN pending' : Assembly(T, m, pending'[m])
    BY <2>1, PushFrame, Zenon
  <2> QED
    BY <2>2, QuietKeeps, Zenon DEF Pending, Assembly
<1>3. Kept(u, i)'
  BY <1>1, Zenon DEF Kept
<1>4. ASSUME NEW v \in Payloads, NEW j, Kept(v, j) PROVE Kept(v, j)'
  <2>1. \/ v \in dropped'
        \/ PacketOf(v) \in DOMAIN delivered'
        \/ v - 1 \in DOMAIN pending' /\ j \in DOMAIN pending'[v - 1].parts
    BY <1>1, <1>4, KeptOrLost, ExpireFacts, Zenon
  <2> QED
    BY <2>1, QuietKeeps, Zenon DEF Kept
<1> QED
  BY <1>1, <1>2, <1>3, <1>4, PushFrame, Zenon

\* The last part is there: the packet is the whole payload.
LEMMA CompleteStep ==
  ASSUME IInv, Quiet, NEW S, NEW T, NEW f, NEW u, NEW i, Arrives(S, T, f, u, i),
         Pending(S), Delivered(S), NoneForgotten(S), PushPart(f), Complete(WithPart(f))
  PROVE  Pending(T)' /\ Delivered(T)' /\ NoneForgotten(T)'
<1>1. /\ Count(f.length) > 1
      /\ dropped' = dropped \cup Lost(pending)
      /\ pending' = Remove(expire(pending), f.message)
      /\ deliver(Packet(f.dest, WithPart(f).parts))
  BY Zenon DEF PushPart
<1>2. f.message = u - 1 /\ f.dest = sent[u].dest /\ u \in Payloads /\ i \in Indices(u)
  <2>1. u \in Payloads /\ i \in Indices(u) /\ Fields(f, u, i)
    BY ArrivalFacts, Zenon
  <2> QED
    BY <2>1, Zenon DEF Fields
<1>3. PICK D \in SUBSET Indices(u) : PartAdded(WithPart(f), T, u, i, D)
  BY WithPartFacts, Zenon
<1>4. D \cup {i} = Indices(u)
  BY <1>3, Zenon DEF PartAdded, Complete, PartsOf, Indices
<1>5. WithPart(f).parts = Bodies(u)
  BY <1>3, <1>4, Zenon DEF PartAdded, PartsOf, Bodies, Indices
<1>6. deliver(PacketOf(u))
  BY <1>1, <1>2, <1>5, Zenon DEF PacketOf
<1>7. \A j \in Indices(u) : Received(T, u, j)
  BY <1>3, <1>4, Zenon DEF PartAdded
<1>8. Delivered(T)' /\ DOMAIN delivered' = DOMAIN delivered \cup {PacketOf(u)}
  BY <1>6, <1>7, FirstDelivery, Zenon
<1>9. /\ DOMAIN pending' = Fresh(pending) \ {u - 1}
      /\ \A m \in DOMAIN pending' : pending'[m] = pending[m] /\ m \in DOMAIN pending
  BY <1>1, <1>2, ExpireFacts, Zenon DEF Remove, Restrict
<1>10. Pending(T)'
  <2>1. \A m \in DOMAIN pending' : Assembly(S, m, pending'[m])
    BY <1>9, Zenon DEF Pending
  <2>2. \A m \in DOMAIN pending' : Assembly(T, m, pending'[m])
    BY <2>1, PushFrame, Zenon
  <2> QED
    BY <2>2, QuietKeeps, Zenon DEF Pending, Assembly
<1>11. Kept(u, i)'
  BY <1>8, QuietKeeps, Zenon DEF Kept
<1>12. ASSUME NEW v \in Payloads, NEW j, Kept(v, j) PROVE Kept(v, j)'
  <2>1. v \in Nat /\ u \in Nat
    BY <1>2, PayloadFacts, Zenon DEF IInv
  <2>2. \/ v \in dropped \cup Lost(pending)
        \/ PacketOf(v) \in DOMAIN delivered
        \/ v - 1 \in Fresh(pending) /\ j \in DOMAIN pending[v - 1].parts
    BY <1>12, KeptOrLost, Zenon
  <2>3. \/ v \in dropped'
        \/ PacketOf(v) \in DOMAIN delivered'
        \/ v - 1 \in DOMAIN pending' /\ j \in DOMAIN pending'[v - 1].parts
    <3>1. CASE v = u
      BY <1>8, <3>1, Zenon
    <3>2. CASE v # u
      <4>1. v - 1 # u - 1
        BY <2>1, <3>2
      <4> QED
        BY <1>1, <1>8, <1>9, <2>2, <4>1, Zenon
    <3> QED
      BY <3>1, <3>2, Zenon
  <2> QED
    BY <2>3, QuietKeeps, Zenon DEF Kept
<1> QED
  BY <1>8, <1>10, <1>11, <1>12, PushFrame, Zenon

\* The part is stored and others are missing.
LEMMA StoreStep ==
  ASSUME IInv, Quiet, NEW S, NEW T, NEW f, NEW u, NEW i, Arrives(S, T, f, u, i),
         Pending(S), Delivered(S), NoneForgotten(S), PushPart(f), ~Complete(WithPart(f))
  PROVE  Pending(T)' /\ Delivered(T)' /\ NoneForgotten(T)'
<1>1. /\ Count(f.length) > 1
      /\ dropped' = dropped \cup Lost(pending)
      /\ pending' = Insert(expire(pending), f.message, WithPart(f))
      /\ UNCHANGED delivered
  BY Zenon DEF PushPart
<1>2. /\ f.message = u - 1 /\ u - 1 \in Nat /\ (u - 1) + 1 = u
      /\ f.length = sent[u].length /\ u \in Payloads /\ i \in Indices(u)
  <2>1. u \in Payloads /\ i \in Indices(u) /\ Fields(f, u, i) /\ Bounds(u, i)
    BY ArrivalFacts, Zenon
  <2> QED
    BY <2>1, Zenon DEF Fields, Bounds
<1>3. PICK a : a = WithPart(f)
  BY Zenon
<1>4. PICK D \in SUBSET Indices(u) : Held(u, D) /\ PartAdded(a, T, u, i, D)
  BY <1>3, WithPartFacts, Zenon
<1>5. DOMAIN a.parts = D \cup {i}
  BY <1>4, Zenon DEF PartAdded, PartsOf
<1>6. Assembly(T, u - 1, a)
  <2>1. /\ Count(a.length) > 1 /\ ~Complete(a)
        /\ a.parts = PartsOf(u, DOMAIN a.parts)
        /\ DOMAIN a.parts \subseteq Indices(u)
        /\ \A j \in DOMAIN a.parts : Received(T, u, j)
    <3>1. Count(a.length) > 1 /\ ~Complete(a)
      BY <1>1, <1>2, <1>3, <1>4, Zenon DEF PartAdded
    <3>2. D \cup {i} \subseteq Indices(u)
      BY <1>2, <1>4, Zenon
    <3> QED
      BY <1>4, <1>5, <3>1, <3>2, Zenon DEF PartAdded
  <2> QED
    BY <1>2, <1>4, <2>1, Zenon DEF PartAdded, Assembly
<1>7. /\ DOMAIN pending' = Fresh(pending) \cup {u - 1}
      /\ pending'[u - 1] = a
      /\ \A m \in Fresh(pending) : m # u - 1 => pending'[m] = pending[m] /\ m \in DOMAIN pending
  BY <1>1, <1>2, <1>3, ExpireFacts, Zenon DEF Insert
<1>8. Pending(T)'
  <2>1. ASSUME NEW m \in DOMAIN pending' PROVE Assembly(T, m, pending'[m])
    <3>1. CASE m = u - 1
      BY <1>6, <1>7, <3>1, Zenon
    <3>2. CASE m # u - 1
      <4>1. pending'[m] = pending[m] /\ Assembly(S, m, pending[m])
        BY <1>7, <3>2, Zenon DEF Pending
      <4> QED
        BY <4>1, PushFrame, Zenon
    <3> QED
      BY <3>1, <3>2, Zenon
  <2> QED
    BY <2>1, QuietKeeps, Zenon DEF Pending, Assembly
<1>9. Kept(u, i)'
  BY <1>4, <1>5, <1>7, Zenon DEF Kept
<1>10. ASSUME NEW v \in Payloads, NEW j, Kept(v, j) PROVE Kept(v, j)'
  <2>1. \/ v \in dropped \cup Lost(pending)
        \/ PacketOf(v) \in DOMAIN delivered
        \/ v - 1 \in Fresh(pending) /\ j \in DOMAIN pending[v - 1].parts
    BY <1>10, KeptOrLost, Zenon
  <2>2. ASSUME v - 1 \in Fresh(pending), j \in DOMAIN pending[v - 1].parts
        PROVE  v - 1 \in DOMAIN pending' /\ j \in DOMAIN pending'[v - 1].parts
    <3>1. CASE v - 1 = u - 1
      BY <1>4, <1>5, <1>7, <2>2, <3>1, Zenon DEF Held
    <3>2. CASE v - 1 # u - 1
      BY <1>7, <2>2, <3>2, Zenon
    <3> QED
      BY <3>1, <3>2, Zenon
  <2>3. \/ v \in dropped'
        \/ PacketOf(v) \in DOMAIN delivered'
        \/ v - 1 \in DOMAIN pending' /\ j \in DOMAIN pending'[v - 1].parts
    BY <1>1, <2>1, <2>2, Zenon
  <2> QED
    BY <2>3, QuietKeeps, Zenon DEF Kept
<1> QED
  BY <1>1, <1>8, <1>9, <1>10, PushFrame, Zenon

LEMMA PushStep ==
  ASSUME IInv, Quiet, NEW S, NEW T, NEW f, NEW u, NEW i, Arrives(S, T, f, u, i),
         Pending(S), Delivered(S), NoneForgotten(S), push(f)
  PROVE  Pending(T)' /\ Delivered(T)' /\ NoneForgotten(T)' /\ UNCHANGED rejected
<1>1. (PushSingle(f) \/ PushFull(f) \/ PushPart(f)) /\ UNCHANGED rejected
  BY PushAccepts, Zenon DEF push
<1>2. CASE PushSingle(f)
  BY <1>1, <1>2, PushSingleStep, Zenon
<1>3. CASE PushFull(f)
  BY <1>1, <1>3, PushFullStep, Zenon
<1>4. CASE PushPart(f)
  BY <1>1, <1>4, CompleteStep, StoreStep, Zenon
<1> QED
  BY <1>1, <1>2, <1>3, <1>4, Zenon

\* A packet that push() returns has no part of an assembly that is due to expire.
LEMMA StaleStep ==
  ASSUME IInv, NEW S, NEW T, NEW f, NEW u, NEW i, Arrives(S, T, f, u, i), Pending(S), push(f),
         NEW m \in DOMAIN pending, pending[m].age >= Ttl,
         NEW p \in DOMAIN delivered' \ DOMAIN delivered
  PROVE  Range(pending[m].parts) \cap Range(p.parts) = {}
<1>1. Fields(f, u, i) /\ Bounds(u, i)
  BY ArrivalFacts, Zenon
<1>2. PushSingle(f) \/ (PushPart(f) /\ Complete(WithPart(f)))
  <2>1. PushSingle(f) \/ PushFull(f) \/ PushPart(f)
    BY PushAccepts, Zenon DEF push
  <2> QED
    BY <2>1, Zenon DEF PushFull, PushPart
<1>3. Assembly(S, m, pending[m]) /\ m \notin Fresh(pending)
  <2>1. Assembly(S, m, pending[m])
    BY Zenon DEF Pending
  <2>2. pending[m].age \in Nat
    BY <2>1, Zenon DEF Assembly, AssemblyType
  <2> QED
    BY <2>1, <2>2, DatagramAssumption DEF Fresh
<1>4. PICK E : p.parts = PartsOf(u, E) /\ m # u - 1
  <2>1. CASE PushSingle(f)
    <3>1. Count(sent[u].length) = 1 /\ p = Packet(f.dest, Insert(EmptyMap, 0, f.body))
      BY <1>1, <2>1, Zenon DEF PushSingle, deliver, Insert, Fields
    <3>2. i = 0
      BY <1>1, <3>1 DEF Bounds
    <3>3. Insert(EmptyMap, 0, f.body) = PartsOf(u, {0})
      BY <1>1, <3>2 DEF Insert, PartsOf, EmptyMap, Fields
    <3>4. m # u - 1
      BY <1>1, <1>3, <3>1 DEF Assembly, Bounds
    <3> QED
      BY <3>1, <3>3, <3>4, Zenon DEF Packet
  <2>2. CASE PushPart(f) /\ Complete(WithPart(f))
    <3>1. Count(f.length) > 1 /\ p = Packet(f.dest, WithPart(f).parts)
      BY <2>2, Zenon DEF PushPart, deliver, Insert
    <3>2. PICK D \in SUBSET Indices(u) : Held(u, D) /\ PartAdded(WithPart(f), T, u, i, D)
      BY WithPartFacts, Zenon
    <3>3. D \cup {i} = 0 .. Count(sent[u].length) - 1
      BY <2>2, <3>2, Zenon DEF Complete, PartAdded, PartsOf
    <3>4. D # {}
      BY <1>1, <3>1, <3>3 DEF Fields, Bounds
    <3>5. m # u - 1
      BY <1>3, <3>2, <3>4, Zenon DEF Held
    <3> QED
      BY <3>1, <3>2, <3>5, Zenon DEF Packet, PartAdded
  <2> QED
    BY <1>2, <2>1, <2>2, Zenon
<1>5. pending[m].parts = PartsOf(m + 1, DOMAIN pending[m].parts) /\ m \in Nat
  BY <1>3, Zenon DEF Assembly
<1>6. m + 1 # u
  BY <1>1, <1>4, <1>5 DEF Bounds
<1>7. \A D, F : Range(PartsOf(m + 1, D)) \cap Range(PartsOf(u, F)) = {}
  BY <1>6 DEF Range, PartsOf
<1> QED
  BY <1>4, <1>5, <1>7, Zenon

\* A payload that was received whole and no fragment of which was dropped is
\* delivered: an assembly that is kept is not complete.
LEMMA WholeIsDelivered ==
  ASSUME IInv, NEW S, Receiver(S), NEW u \in Payloads, u \notin dropped,
         \A i \in Indices(u) : Received(S, u, i)
  PROVE  PacketOf(u) \in DOMAIN delivered
<1> SUFFICES ASSUME PacketOf(u) \notin DOMAIN delivered PROVE FALSE
  BY Zenon
<1>1. \A i \in Indices(u) : Kept(u, i)
  BY Zenon DEF Receiver, NoneForgotten
<1>2. 0 \in Indices(u) /\ u \in Nat
  BY PayloadFacts DEF Indices, IInv
<1>3. u - 1 \in DOMAIN pending /\ Indices(u) \subseteq DOMAIN pending[u - 1].parts
  BY <1>1, <1>2, Zenon DEF Kept
<1>4. Assembly(S, u - 1, pending[u - 1]) /\ (u - 1) + 1 = u
  BY <1>2, <1>3 DEF Receiver, Pending
<1>5. DOMAIN pending[u - 1].parts = Indices(u) /\ pending[u - 1].length = sent[u].length
  <2>1. /\ DOMAIN pending[u - 1].parts \subseteq Indices(u)
        /\ pending[u - 1].length = sent[u].length
    BY <1>4, Zenon DEF Assembly
  <2> QED
    BY <1>3, <2>1, Zenon
<1>6. Complete(pending[u - 1])
  BY <1>5, Zenon DEF Complete, Indices
<1> QED
  BY <1>4, <1>6, Zenon DEF Assembly

-----------------------------------------------------------------------------
(* The replay window *)

\* Only the lemmas on arithmetic and on the replay window are used, which do
\* not depend on the variables.
W == INSTANCE DatagramCryptoProofs WITH wire <- {}, opened <- <<>>, result <- "none"

LEMMA SameOperators ==
  /\ ReplayWindowType = W!ReplayWindowType
  /\ \A r, n : acceptable(r, n) <=> W!acceptable(r, n)
  /\ \A r, n : record(r, n) = W!record(r, n)
  /\ \A r, S : Represents(r, S) <=> W!Represents(r, S)
<1> USE DEF None, W!None, Window, W!Window, Marked, W!Marked, Bit, W!Bit, Word, W!Word,
            WordIds, W!WordIds, BitIds, W!BitIds, EmptyWindow, W!EmptyWindow
<1>1. ReplayWindowType = W!ReplayWindowType
  BY Zenon DEF ReplayWindowType, W!ReplayWindowType
<1>2. \A r, n : acceptable(r, n) <=> W!acceptable(r, n)
  BY Zenon DEF acceptable, W!acceptable
<1>3. \A r, n : record(r, n) = W!record(r, n)
  BY Zenon DEF record, W!record, Slide, W!Slide, Cleared, W!Cleared
<1>4. \A r, S : Represents(r, S) <=> W!Represents(r, S)
  BY Zenon DEF Represents, W!Represents
<1> QED
  BY <1>1, <1>2, <1>3, <1>4, Zenon

LEMMA RecordAdds ==
  ASSUME NEW r \in ReplayWindowType, NEW S \in SUBSET Nat, NEW n \in Nat,
         Represents(r, S), acceptable(r, n)
  PROVE  /\ record(r, n) \in ReplayWindowType
         /\ Represents(record(r, n), S \cup {n})
         /\ n \notin S
<1>1. Represents(record(r, n), S \cup {n})
  BY W!RecordRepresents, SameOperators, WindowAssumption, DatagramAssumption, Zenon
<1>2. record(r, n) \in ReplayWindowType
  BY W!RecordType, SameOperators, WindowAssumption, DatagramAssumption, Zenon
<1>3. n \notin S
  BY W!AcceptableExact, SameOperators, WindowAssumption, DatagramAssumption
<1> QED
  BY <1>1, <1>2, <1>3, Zenon

\* open() lets a fragment through only if the receiver does not have it yet.
LEMMA NewFragment ==
  ASSUME IInv, NEW S \in SUBSET (0 .. next - 1), Receiver(S),
         NEW f \in wire, acceptable(replay, f.nonce)
  PROVE  /\ f.nonce \in 0 .. next - 1
         /\ \E u \in Payloads : \E i \in Indices(u) : Arrives(S, S \cup {f.nonce}, f, u, i)
<1>1. PICK u \in Payloads : \E i \in Indices(u), n \in 0 .. next - 1 : f = FragmentOf(u, i, n)
  BY Zenon DEF IInv, Wire, Genuine
<1>2. PICK i \in Indices(u), n \in 0 .. next - 1 : f = FragmentOf(u, i, n)
  BY <1>1, Zenon
<1>3. f.nonce = n /\ n \in Nat /\ f.body = <<u, i>> /\ S \in SUBSET Nat
  BY <1>2 DEF FragmentOf
<1>4. n \notin S
  <2>1. acceptable(replay, n) /\ replay \in ReplayWindowType /\ Represents(replay, S)
    BY <1>3, Zenon DEF Receiver
  <2> QED
    BY <1>3, <2>1, RecordAdds, Zenon
<1>5. ~Received(S, u, i)
  BY <1>3, <1>4, Zenon DEF Received, IInv, Wire
<1>6. Arrives(S, S \cup {f.nonce}, f, u, i)
  BY <1>2, <1>3, <1>5, Zenon DEF Arrives
<1> QED
  BY <1>2, <1>3, <1>6, Zenon

LEMMA ReceiveStep ==
  ASSUME IInv, NEW f \in wire, Receive(f)
  PROVE  IInv'
<1>1. PICK S \in SUBSET (0 .. next - 1) : Receiver(S)
  BY Zenon DEF IInv
<1>2. Pending(S) /\ Delivered(S) /\ NoneForgotten(S) /\ S \in SUBSET Nat
  BY <1>1 DEF Receiver
<1>3. Quiet /\ push(f) /\ acceptable(replay, f.nonce) /\ replay' = record(replay, f.nonce)
  BY Zenon DEF Receive, sender, Quiet
<1>4. f.nonce \in 0 .. next - 1
  BY <1>1, <1>3, NewFragment, Zenon
<1>5. PICK T : T = S \cup {f.nonce}
  BY Zenon
<1>6. PICK u \in Payloads : \E i \in Indices(u) : Arrives(S, T, f, u, i)
  BY <1>1, <1>3, <1>5, NewFragment, Zenon
<1>7. PICK i \in Indices(u) : Arrives(S, T, f, u, i)
  BY <1>6, Zenon
<1>8. replay' \in ReplayWindowType /\ Represents(replay', T)
  BY <1>1, <1>2, <1>3, <1>4, <1>5, RecordAdds DEF Receiver
<1>9. Pending(T)' /\ Delivered(T)' /\ NoneForgotten(T)' /\ UNCHANGED rejected
  BY <1>2, <1>3, <1>7, PushStep, Zenon
<1>10. Receiver(T)'
  BY <1>8, <1>9, Zenon DEF Receiver
<1>11. T \in SUBSET (0 .. next' - 1) /\ ~rejected'
  <2>1. next' = next
    BY <1>3, Zenon DEF Quiet
  <2>2. \A R, x : R \in SUBSET (0 .. next - 1) /\ x \in 0 .. next - 1
                    => R \cup {x} \in SUBSET (0 .. next - 1)
    BY Zenon
  <2> QED
    BY <1>4, <1>5, <1>9, <2>1, <2>2, Zenon DEF IInv
<1>12. Senders' /\ Wire'
  BY <1>3, QuietKeeps, Zenon
<1> QED
  BY <1>10, <1>11, <1>12, Zenon DEF IInv

LEMMA StutterStep ==
  ASSUME IInv, UNCHANGED vars
  PROVE  IInv'
<1>1. Quiet /\ UNCHANGED receiver /\ UNCHANGED rejected /\ next' = next
  BY Zenon DEF vars, sender, receiver, Quiet
<1>2. PICK S \in SUBSET (0 .. next - 1) : Receiver(S)
  BY Zenon DEF IInv
<1>3. SameReceived(S) /\ Prolongs
  BY <1>1, QuietKeeps, Zenon DEF SameReceived, Prolongs, Quiet
<1>4. Receiver(S)'
  BY <1>1, <1>2, <1>3, ReceiverFrame, Zenon DEF IInv
<1> QED
  BY <1>1, <1>2, <1>4, QuietKeeps, Zenon DEF IInv

-----------------------------------------------------------------------------
(* The theorems *)

LEMMA Initially == Init => IInv
<1> SUFFICES ASSUME Init PROVE IInv
  BY Zenon
<1>1. next = 1 /\ wire = {} /\ sent = <<>> /\ Len(sent) = 0 /\ Payloads = {} /\ ~rejected
  BY DEF Init, Payloads
<1>2. Busy = {}
  BY Zenon DEF Init, Busy, Idle
<1>3. Senders
  BY <1>1, <1>2 DEF Init, Senders
<1>4. Wire
  BY <1>1, Zenon DEF Wire
<1> DEFINE S == {0}
<1>5. Receiver(S)
  <2>1. replay \in ReplayWindowType /\ Represents(replay, S)
    <3>1. EmptyWindow \in ReplayWindowType /\ Represents(EmptyWindow, {})
      BY DEF ReplayWindowType, Represents, EmptyWindow, None
    <3>2. acceptable(EmptyWindow, 0)
      BY DEF acceptable, EmptyWindow
    <3>3. {} \cup {0} = S /\ 0 \in Nat /\ {} \in SUBSET Nat
      OBVIOUS
    <3>4. replay = record(EmptyWindow, 0)
      BY Zenon DEF Init
    <3>5. /\ record(EmptyWindow, 0) \in ReplayWindowType
          /\ Represents(record(EmptyWindow, 0), {} \cup {0})
      BY <3>1, <3>2, <3>3, RecordAdds, Zenon
    <3> QED
      BY <3>3, <3>4, <3>5, Zenon
  <2>2. DOMAIN pending = {} /\ DOMAIN delivered = {}
    BY DEF Init, EmptyMap
  <2>3. Pending(S)
    BY <2>2, Zenon DEF Pending
  <2> QED
    BY <1>1, <2>1, <2>2, <2>3, Zenon DEF Receiver, Delivered, NoneForgotten
<1>6. S \in SUBSET (0 .. next - 1)
  BY <1>1
<1> HIDE DEF S
<1> QED
  BY <1>1, <1>3, <1>4, <1>5, <1>6, Zenon DEF IInv

LEMMA Inductive == IInv /\ [Next]_vars => IInv'
<1> SUFFICES ASSUME IInv, [Next]_vars PROVE IInv'
  BY Zenon
<1>1. CASE \E t \in Tasks, d \in Dests, l \in Lengths : Begin(t, d, l)
  BY <1>1, BeginStep, Zenon
<1>2. CASE \E t \in Tasks : BeginExhausted(t) \/ Fragment(t) \/ FragmentFails(t)
                              \/ FragmentExhausted(t)
  BY <1>2, SenderStep, Zenon
<1>3. CASE \E f \in wire : Receive(f)
  BY <1>3, ReceiveStep, Zenon
<1>4. CASE Tick
  BY <1>4, TickStep, Zenon
<1>5. CASE Advance
  BY <1>5, AdvanceStep, Zenon
<1>6. CASE UNCHANGED vars
  BY <1>6, StutterStep, Zenon
<1> QED
  BY <1>1, <1>2, <1>3, <1>4, <1>5, <1>6, Zenon DEF Next

\* The inductive invariant holds of every reachable state.
THEOREM Invariance == Spec => []IInv
BY Initially, Inductive, PTL DEF Spec

\* push() never reports a fragment that send() made as invalid, nor two of them
\* as inconsistent, for any chunk size and any payload up to MAX_PAYLOAD.
THEOREM FormatAgreed == Spec => []GenuineNeverRejected
<1>1. IInv => GenuineNeverRejected
  BY Zenon DEF IInv, GenuineNeverRejected
<1> QED
  BY <1>1, Invariance, PTL

\* What read_packet returns is one payload that was sent, whole and in order,
\* for the destination it was sent to.
THEOREM PacketsIntact == Spec => []DeliveredIntact
<1>1. IInv => DeliveredIntact
  BY Zenon DEF IInv, Receiver, Delivered, DeliveredIntact, PacketOf, Payloads
<1> QED
  BY <1>1, Invariance, PTL

\* read_packet returns a payload at most once, whatever QUIC repeats.
THEOREM PacketsOnce == Spec => []DeliveredAtMostOnce
<1>1. IInv => DeliveredAtMostOnce
  BY Zenon DEF IInv, Receiver, Delivered, DeliveredAtMostOnce
<1> QED
  BY <1>1, Invariance, PTL

\* An assembly that reached its time to live is never completed: push() expires
\* before it looks the message up.
THEOREM StaleStaysUndelivered == Spec => StaleNeverDelivered
<1>1. IInv /\ [Next]_vars =>
        [\A m \in DOMAIN pending : pending[m].age >= Ttl =>
           \A p \in DOMAIN delivered' \ DOMAIN delivered :
             Range(pending[m].parts) \cap Range(p.parts) = {}]_vars
  <2> SUFFICES ASSUME IInv, Next, NEW m \in DOMAIN pending, pending[m].age >= Ttl,
                      NEW p \in DOMAIN delivered' \ DOMAIN delivered
               PROVE  Range(pending[m].parts) \cap Range(p.parts) = {}
    BY Zenon DEF vars
  <2>1. delivered' # delivered
    BY Zenon
  <2>2. PICK f \in wire : Receive(f)
    BY <2>1, Zenon DEF Next, Begin, BeginExhausted, Fragment, FragmentFails,
                       FragmentExhausted, Tick, Advance, receiver
  <2>3. PICK S \in SUBSET (0 .. next - 1) : Receiver(S)
    BY Zenon DEF IInv
  <2>4. Pending(S) /\ push(f) /\ acceptable(replay, f.nonce)
    BY <2>2, <2>3, Zenon DEF Receiver, Receive
  <2>5. PICK T : T = S \cup {f.nonce}
    BY Zenon
  <2>6. PICK u \in Payloads : \E i \in Indices(u) : Arrives(S, T, f, u, i)
    BY <2>3, <2>4, <2>5, NewFragment, Zenon
  <2>7. PICK i \in Indices(u) : Arrives(S, T, f, u, i)
    BY <2>6, Zenon
  <2> QED
    BY <2>4, <2>7, StaleStep, Zenon
<1> QED
  BY <1>1, Invariance, PTL DEF Spec, StaleNeverDelivered

-----------------------------------------------------------------------------
(* The number of assemblies and of fragments *)

INSTANCE FiniteSetTheorems

\* Inductive by itself, whatever the assemblies hold.
Bounded == IsFiniteSet(DOMAIN pending) /\ Size(pending) <= MaxAssemblies

LEMMA FewerBounded ==
  ASSUME Bounded, NEW p, DOMAIN p \subseteq DOMAIN pending
  PROVE  /\ IsFiniteSet(DOMAIN p) /\ Cardinality(DOMAIN p) \in Nat
         /\ Size(p) = Cardinality(DOMAIN p) /\ Size(p) <= MaxAssemblies
<1>1. /\ IsFiniteSet(DOMAIN pending) /\ Cardinality(DOMAIN pending) <= MaxAssemblies
      /\ Size(p) = Cardinality(DOMAIN p)
  BY Zenon DEF Bounded, Size
<1>2. /\ IsFiniteSet(DOMAIN p) /\ Cardinality(DOMAIN p) <= Cardinality(DOMAIN pending)
      /\ Cardinality(DOMAIN p) \in Nat /\ Cardinality(DOMAIN pending) \in Nat
  BY <1>1, FS_Subset, FS_CardinalityType, Zenon
<1> QED
  BY <1>1, <1>2, DatagramAssumption

LEMMA PushBounded ==
  ASSUME Bounded, NEW f, push(f)
  PROVE  Bounded'
<1>1. DOMAIN expire(pending) \subseteq DOMAIN pending
  BY ExpireFacts, Zenon
<1>2. DOMAIN Remove(expire(pending), f.message) \subseteq DOMAIN pending
  BY <1>1, Zenon DEF Remove, Restrict
<1>3. CASE \/ pending' = pending \/ pending' = expire(pending)
           \/ pending' = Remove(expire(pending), f.message)
  BY <1>1, <1>2, <1>3, FewerBounded, Zenon DEF Bounded
<1>4. CASE HasRoom(f) /\ pending' = Insert(expire(pending), f.message, WithPart(f))
  <2>1. PICK F : F = DOMAIN expire(pending)
    BY Zenon
  <2>2. /\ IsFiniteSet(F) /\ Cardinality(F) \in Nat /\ Cardinality(F) <= MaxAssemblies
        /\ Size(expire(pending)) = Cardinality(F)
    BY <1>1, <2>1, FewerBounded, Zenon
  <2>3. DOMAIN pending' = F \cup {f.message}
    BY <1>4, <2>1, Zenon DEF Insert
  <2>4. f.message \in F \/ Cardinality(F) < MaxAssemblies
    BY <1>4, <2>1, <2>2, Zenon DEF HasRoom
  <2>5. CASE f.message \in F
    <3>1. DOMAIN pending' = F
      BY <2>3, <2>5, Zenon
    <3> QED
      BY <2>2, <3>1, Zenon DEF Bounded, Size
  <2>6. CASE f.message \notin F
    <3>1. /\ IsFiniteSet(F \cup {f.message})
          /\ Cardinality(F \cup {f.message}) = Cardinality(F) + 1
      BY <2>2, <2>6, FS_AddElement, Zenon
    <3> QED
      BY <2>2, <2>3, <2>4, <2>6, <3>1, DatagramAssumption, SMTT(20) DEF Bounded, Size
  <2> QED
    BY <2>5, <2>6, Zenon
<1> QED
  BY <1>3, <1>4, Zenon DEF push, PushSingle, PushFull, PushPart

LEMMA BoundedInductive == Bounded /\ [Next]_vars => Bounded'
<1> SUFFICES ASSUME Bounded, [Next]_vars PROVE Bounded'
  BY Zenon
<1>1. CASE UNCHANGED pending
  BY <1>1, Zenon DEF Bounded, Size
<1>2. CASE \E f \in wire : Receive(f)
  BY <1>2, PushBounded, Zenon DEF Receive
<1>3. CASE Tick
  BY <1>3, ExpireFacts, FewerBounded, Zenon DEF Tick, Bounded
<1>4. CASE Advance
  <2>1. DOMAIN pending' = DOMAIN pending
    BY <1>4, Zenon DEF Advance
  <2> QED
    BY <2>1, Zenon DEF Bounded, Size
<1> QED
  BY <1>1, <1>2, <1>3, <1>4, Zenon DEF Next, Begin, BeginExhausted, Fragment, FragmentFails,
                                FragmentExhausted, vars, receiver

\* The reassembler holds at most MAX_ASSEMBLIES messages, none of them complete.
THEOREM AssembliesBounded == Spec => []PendingBounded
<1>1. Init => Bounded
  <2>1. ASSUME Init PROVE DOMAIN pending = {}
    BY <2>1 DEF Init, EmptyMap
  <2> QED
    BY <2>1, FS_EmptySet, DatagramAssumption DEF Bounded, Size
<1>2. Spec => []Bounded
  BY <1>1, BoundedInductive, PTL DEF Spec
<1>3. IInv /\ Bounded => PendingBounded
  BY Zenon DEF IInv, Receiver, Pending, Assembly, PendingBounded, Bounded
<1> QED
  BY <1>2, <1>3, Invariance, PTL

\* A nonce within the window that is refused was recorded.
LEMMA RefusedWasRecorded ==
  ASSUME NEW r \in ReplayWindowType, NEW S \in SUBSET Nat, NEW n \in Nat,
         Represents(r, S), ~acceptable(r, n), r.highest - n < Window
  PROVE  n \in S
<1>1. r.highest # None /\ r.highest \in Nat /\ n <= r.highest
  BY DEF acceptable, ReplayWindowType
<1>2. Marked(r.seen, n)
  BY Zenon DEF acceptable
<1> QED
  BY <1>1, <1>2 DEF Represents

\* If as many fragments of a payload are on the wire as it has, each of them is.
LEMMA AllSent ==
  ASSUME Senders, Wire, NEW u \in Payloads, NEW fs,
         fs = {f \in wire : f.body[1] = u},
         Cardinality(fs) = Count(sent[u].length)
  PROVE  \A i \in Indices(u) : \E f \in fs : f.body = <<u, i>>
<1>1. ASSUME NEW f \in fs PROVE f.body[2] \in Indices(u) /\ f.body = <<u, f.body[2]>>
  BY DEF Wire, Genuine, FragmentOf
<1> DEFINE h == [f \in fs |-> f.body[2]]
           n == Count(sent[u].length)
<1>2. h \in [fs -> Indices(u)] /\ \A f \in fs : h[f] = f.body[2]
  BY <1>1, Zenon
<1>3. \A f, g \in fs : h[f] = h[g] => f = g
  BY <1>1, <1>2 DEF Wire
<1>4. IsFiniteSet(Indices(u)) /\ Cardinality(Indices(u)) = n
  <2>1. n \in Nat /\ n >= 1
    BY PayloadFacts, Zenon
  <2>2. IsFiniteSet(0 .. n - 1) /\ Cardinality(0 .. n - 1) = n
    BY <2>1, FS_Interval, SMTT(20)
  <2> QED
    BY <2>2, Zenon DEF Indices
<1> HIDE DEF h
<1>5. h \in Injection(fs, Indices(u))
  BY <1>2, <1>3, Zenon DEF Injection, IsInjective
<1>6. h \in Surjection(fs, Indices(u))
  BY <1>4, <1>5, FS_Injection, SMTT(20)
<1> QED
  BY <1>1, <1>2, <1>6, SMTT(20) DEF Surjection

\* A payload whose fragments were all received is delivered, unless the receiver
\* dropped one of them because the map was full or the assembly had expired.
THEOREM NoSilentLoss == Spec => []CompleteMeansDelivered
<1>1. IInv => CompleteMeansDelivered
  <2> SUFFICES ASSUME IInv, NEW u \in 1 .. Len(sent),
                      u \notin dropped,
                      Cardinality({f \in wire : f.body[1] = u}) = Count(sent[u].length),
                      \A f \in {g \in wire : g.body[1] = u} :
                        ~acceptable(replay, f.nonce) /\ replay.highest - f.nonce < Window
               PROVE  Packet(sent[u].dest, Bodies(u)) \in DOMAIN delivered
    BY Zenon DEF CompleteMeansDelivered
  <2>1. PICK S \in SUBSET (0 .. next - 1) : Receiver(S)
    BY Zenon DEF IInv
  <2>2. u \in Payloads
    BY Zenon DEF Payloads
  <2>3. ASSUME NEW i \in Indices(u) PROVE Received(S, u, i)
    <3>1. PICK f \in {g \in wire : g.body[1] = u} : f.body = <<u, i>>
      BY <2>2, AllSent, Zenon DEF IInv
    <3>2. f.nonce \in Nat
      BY NoncesNatural, Zenon DEF IInv
    <3>3. f.nonce \in S
      BY <2>1, <3>1, <3>2, RefusedWasRecorded, SMTT(20) DEF Receiver
    <3> QED
      BY <3>1, <3>3, Zenon DEF Received
  <2>4. PacketOf(u) \in DOMAIN delivered
    BY <2>1, <2>2, <2>3, WholeIsDelivered, Zenon
  <2> QED
    BY <2>4, Zenon DEF PacketOf
<1> QED
  BY <1>1, Invariance, PTL
=============================================================================
