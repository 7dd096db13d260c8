------------------------------ MODULE Datagram ------------------------------
(***************************************************************************)
(* The UDP data channel of a session in one direction: the tasks that call *)
(* Sender::send at one end, the unreliable network, and read_packet at the *)
(* other end: DatagramCrypto::open followed by Reassembler::push.          *)
(*                                                                         *)
(* A fragment that was sealed stays on `wire`: it may be received late,    *)
(* out of order, twice or never.  Forged datagrams never pass open (module *)
(* DatagramCrypto) and are left out.  The pair (service ID, flow ID) of a  *)
(* message is one destination, since the channel only copies and compares  *)
(* the two together.  The bytes of a fragment are the pair <<u, i>>, the   *)
(* i-th chunk of the u-th payload that was ever passed to send.            *)
(***************************************************************************)
EXTENDS ReplayWindow, HashMap, Sequences

CONSTANTS
  Tasks,          \* tasks sharing the Sender: udp_listener or udp_flow
  Dests,          \* (service, flow) pairs
  Lengths,        \* payload lengths that are sent
  Chunk,          \* CHUNK (1000)
  MaxPayload,     \* MAX_PAYLOAD (65507)
  FieldModulus,   \* the length and index fields are u16 (65536)
  MessageLimit,   \* u64::MAX, the value next_message never passes
  Budget,         \* nonces of one key (2^32)
  MaxAssemblies,  \* MAX_ASSEMBLIES (128)
  Ttl             \* time units an assembly may live (2 seconds)

ASSUME DatagramAssumption ==
  /\ Chunk \in Nat \ {0}
  /\ MaxPayload \in Nat
  /\ FieldModulus \in Nat
  /\ MaxPayload < FieldModulus
  /\ Lengths \subseteq 0 .. MaxPayload   \* the callers drop longer payloads
  /\ MessageLimit \in Nat
  /\ Budget \in Nat \ {0}
  /\ MaxAssemblies \in Nat \ {0}
  /\ Ttl \in Nat \ {0}

VARIABLES
  next_message,   \* Sender.next_message
  next,           \* DatagramCrypto.next of the sender
  task,           \* the send call each task is in
  closed,         \* the sender's end closed the connection
  wire,           \* sealed fragments handed to QUIC
  replay,         \* DatagramCrypto.replay of the receiver
  pending,        \* Reassembler.pending
  sent,           \* history: destination and length of every payload sent
  delivered,      \* history: how often read_packet returned each packet
  dropped,        \* history: payloads a fragment of which the receiver dropped
  rejected        \* history: push returned an error for a fragment

sender   == <<next_message, next, task, closed, wire, sent>>
receiver == <<replay, pending, delivered, dropped, rejected>>
vars     == <<sender, receiver>>

Idle == [pc |-> "idle"]

\* set-up used nonce 0 of either direction: the registration, and "ok"
Init ==
  /\ next_message = 0
  /\ next = 1
  /\ task = [t \in Tasks |-> Idle]
  /\ closed = FALSE
  /\ wire = {}
  /\ replay = record(EmptyWindow, 0)
  /\ pending = EmptyMap
  /\ sent = <<>>
  /\ delivered = EmptyMap
  /\ dropped = {}
  /\ rejected = FALSE

\* length.div_ceil(CHUNK).max(1)
Count(length) == IF length = 0 THEN 1 ELSE (length + Chunk - 1) \div Chunk

\* bytes of payload[start..end], with start = i * CHUNK and
\* end = (start + CHUNK).min(length)
Slice(length, i) ==
  LET start == i * Chunk IN
  (IF start + Chunk < length THEN start + Chunk ELSE length) - start

\* bytes the receiver expects: (length - index * CHUNK).min(CHUNK)
SizeOf(length, i) == IF length - i * Chunk < Chunk THEN length - i * Chunk ELSE Chunk

-----------------------------------------------------------------------------
(* Sender::send.  The message ID is taken with one atomic fetch_update; the *)
(* lock on the crypto state is held for one fragment at a time, so that the *)
(* fragments of several tasks interleave.                                   *)

Begin(t, d, length) ==
  /\ task[t].pc = "idle"
  /\ next_message < MessageLimit
  /\ next_message' = next_message + 1
  /\ sent' = Append(sent, [dest |-> d, length |-> length])
  /\ task' = [task EXCEPT ![t] = [pc |-> "send", message |-> next_message,
                                  uid |-> Len(sent) + 1, dest |-> d,
                                  length |-> length, i |-> 0]]
  /\ UNCHANGED <<next, closed, wire, receiver>>

\* checked_add failed: "message ID exhausted" ends the task
BeginExhausted(t) ==
  /\ task[t].pc = "idle"
  /\ next_message >= MessageLimit
  /\ task' = [task EXCEPT ![t] = [pc |-> "failed"]]
  /\ UNCHANGED <<next_message, next, closed, wire, sent, receiver>>

\* the sealed fragment: header fields and the i-th chunk
Header(s, nonce) ==
  [nonce |-> nonce, dest |-> s.dest, message |-> s.message,
   length |-> s.length % FieldModulus, index |-> s.i % FieldModulus,
   size |-> Slice(s.length, s.i), body |-> <<s.uid, s.i>>]

\* the next iteration of the fragment loop, or the return Ok(()) behind it
After(s) == IF s.i + 1 < Count(s.length) THEN [s EXCEPT !.i = @ + 1] ELSE Idle

Fragment(t) ==
  /\ task[t].pc = "send"
  /\ next < Budget
  /\ ~closed
  /\ next' = next + 1
  /\ wire' = wire \cup {Header(task[t], next)}
  /\ task' = [task EXCEPT ![t] = After(@)]
  /\ UNCHANGED <<next_message, closed, sent, receiver>>

\* conn.send_datagram failed (connection lost, datagram too large for the
\* path): the nonce is spent and the rest of the message is not sent
FragmentFails(t) ==
  /\ task[t].pc = "send"
  /\ next < Budget
  /\ next' = next + 1
  /\ task' = [task EXCEPT ![t] = [pc |-> "failed"]]
  /\ UNCHANGED <<next_message, closed, wire, sent, receiver>>

\* seal failed: the connection is closed and the send returns the error
FragmentExhausted(t) ==
  /\ task[t].pc = "send"
  /\ next >= Budget
  /\ closed' = TRUE
  /\ task' = [task EXCEPT ![t] = [pc |-> "failed"]]
  /\ UNCHANGED <<next_message, next, wire, sent, receiver>>

-----------------------------------------------------------------------------
(* Reassembler *)

\* keys that survive expire(now)
Fresh(p) == {m \in DOMAIN p : p[m].age < Ttl}

\* mutant: expire keeps an assembly one time unit too long
expire_Late(p) == Retain(p, {m \in DOMAIN p : p[m].age <= Ttl})

expire(p) == Retain(p, Fresh(p))

\* payloads whose assembly expire drops
Lost(p) == UNION {{b[1] : b \in Range(p[m].parts)} : m \in DOMAIN p \ Fresh(p)}

NewAssembly(f) ==
  [dest |-> f.dest, length |-> f.length, parts |-> EmptyMap, age |-> 0]

Packet(dest, parts) == [dest |-> dest, parts |-> parts]

Copies(packet) == IF packet \in DOMAIN delivered THEN delivered[packet] ELSE 0

deliver(packet) == delivered' = Insert(delivered, packet, Copies(packet) + 1)

PushSingle(f) ==
  /\ Count(f.length) = 1
  /\ deliver(Packet(f.dest, Insert(EmptyMap, 0, f.body)))
  /\ UNCHANGED <<pending, dropped>>

\* mutant: the limit is not checked
HasRoom_Always(f) == TRUE

HasRoom(f) ==
  f.message \in DOMAIN expire(pending) \/ Size(expire(pending)) < MaxAssemblies

\* a new message while MAX_ASSEMBLIES are pending: Ok(None)
PushFull(f) ==
  /\ Count(f.length) > 1
  /\ ~HasRoom(f)
  /\ pending' = expire(pending)
  /\ dropped' = dropped \cup Lost(pending) \cup {f.body[1]}
  /\ UNCHANGED delivered

Entry(f) ==
  IF f.message \in DOMAIN expire(pending) THEN pending[f.message] ELSE NewAssembly(f)

\* mutant: an assembly is complete as soon as its last fragment is there
Complete_Last(a) == Count(a.length) - 1 \in DOMAIN a.parts

\* mutant: one part more than the message has is awaited
Complete_OneMore(a) == DOMAIN a.parts = 0 .. Count(a.length)

\* a.parts has Some at every index
Complete(a) == DOMAIN a.parts = 0 .. Count(a.length) - 1

\* a.parts[index] = Some(bytes)
WithPart(f) == [Entry(f) EXCEPT !.parts = Insert(@, f.index, f.body)]

PushPart(f) ==
  /\ Count(f.length) > 1
  /\ HasRoom(f)
  /\ dropped' = dropped \cup Lost(pending)
  /\ IF Complete(WithPart(f))
       THEN /\ pending' = Remove(expire(pending), f.message)
            /\ deliver(Packet(f.dest, WithPart(f).parts))
       ELSE /\ pending' = Insert(expire(pending), f.message, WithPart(f))
            /\ UNCHANGED delivered

\* mutant: the longest payload is refused
WellFormed_Strict(f) ==
  /\ f.length < MaxPayload
  /\ f.index < Count(f.length)
  /\ f.size = SizeOf(f.length, f.index)

\* the ensure! checks of push: the first three come before anything changes,
\* "inconsistent fragments" after expire
WellFormed(f) ==
  /\ f.length <= MaxPayload
  /\ f.index < Count(f.length)
  /\ f.size = SizeOf(f.length, f.index)

Consistent(f) ==
  Count(f.length) > 1 /\ HasRoom(f)
    => Entry(f).dest = f.dest /\ Entry(f).length = f.length

push(f) ==
  IF WellFormed(f) /\ Consistent(f)
    THEN /\ PushSingle(f) \/ PushFull(f) \/ PushPart(f)
         /\ UNCHANGED rejected
    ELSE /\ rejected' = TRUE
         /\ pending' = IF WellFormed(f) THEN expire(pending) ELSE pending
         /\ dropped' = IF WellFormed(f) THEN dropped \cup Lost(pending) ELSE dropped
         /\ UNCHANGED delivered

\* One iteration of read_packet.  A datagram that is not acceptable is
\* discarded without any effect, a stuttering step; any other is recorded and
\* pushed, and the packet push returns leaves the loop.
Receive(f) ==
  /\ acceptable(replay, f.nonce)
  /\ replay' = record(replay, f.nonce)
  /\ push(f)
  /\ UNCHANGED sender

\* mutant: the tick does not reach the reassembler
Tick_Skips == UNCHANGED vars

\* the tick arm of both session loops
Tick ==
  /\ pending' = expire(pending)
  /\ dropped' = dropped \cup Lost(pending)
  /\ UNCHANGED <<sender, replay, delivered, rejected>>

\* time passes; ages count up to Ttl, where they no longer matter
Advance ==
  /\ \E m \in DOMAIN pending : pending[m].age < Ttl
  /\ pending' = [m \in DOMAIN pending |->
                   [pending[m] EXCEPT !.age = IF @ < Ttl THEN @ + 1 ELSE @]]
  /\ UNCHANGED <<sender, replay, delivered, dropped, rejected>>

Next ==
  \/ \E t \in Tasks, d \in Dests, l \in Lengths : Begin(t, d, l)
  \/ \E t \in Tasks : BeginExhausted(t) \/ Fragment(t) \/ FragmentFails(t)
                        \/ FragmentExhausted(t)
  \/ \E f \in wire : Receive(f)
  \/ Tick
  \/ Advance

Spec == Init /\ [][Next]_vars

\* The interval of the session loop keeps ticking and time goes on.
FairSpec == Spec /\ WF_vars(Tick) /\ WF_vars(Advance)

-----------------------------------------------------------------------------
(* Properties *)

Bodies(u) == [i \in 0 .. Count(sent[u].length) - 1 |-> <<u, i>>]

\* Sender and receiver agree on the fragment format: push never reports a
\* genuine fragment as invalid, nor two fragments as inconsistent.  The latter
\* rests on message IDs being unique across the tasks that share the Sender.
GenuineNeverRejected == ~rejected

\* A delivered packet is one payload that was sent, whole, with every fragment
\* in its place and for the destination it was sent to, however the fragments
\* of several messages were interleaved, lost or reordered.
DeliveredIntact ==
  \A p \in DOMAIN delivered :
    \E u \in 1 .. Len(sent) : p = Packet(sent[u].dest, Bodies(u))

\* A payload is delivered at most once.
DeliveredAtMostOnce == \A p \in DOMAIN delivered : delivered[p] = 1

\* The reassembler never holds more than MAX_ASSEMBLIES incomplete messages,
\* and none of those it holds is complete.
PendingBounded ==
  /\ Size(pending) <= MaxAssemblies
  /\ \A m \in DOMAIN pending : ~Complete(pending[m])

\* A payload all of whose fragments were received is delivered unless the
\* receiver dropped one of them, because the map was full or the assembly had
\* expired.
CompleteMeansDelivered ==
  \A u \in 1 .. Len(sent) :
    LET fs == {f \in wire : f.body[1] = u} IN
      /\ u \notin dropped
      /\ Cardinality(fs) = Count(sent[u].length)
      /\ \A f \in fs : ~acceptable(replay, f.nonce) /\ replay.highest - f.nonce < Window
      => Packet(sent[u].dest, Bodies(u)) \in DOMAIN delivered

\* An assembly that reached its time to live is never completed, even when the
\* missing fragment arrives before the next tick: push expires first.
StaleNeverDelivered ==
  [][\A m \in DOMAIN pending : pending[m].age >= Ttl =>
       \A p \in DOMAIN delivered' \ DOMAIN delivered :
         Range(pending[m].parts) \cap Range(p.parts) = {}]_vars

\* An incomplete message does not occupy its slot for ever: loss of the other
\* fragments, or a fragment that comes after its message was dropped, only
\* holds it until the next tick after the time to live.
SlotsDrain == \A m \in 0 .. MessageLimit - 1 : m \in DOMAIN pending ~> m \notin DOMAIN pending
=============================================================================
