# Cathole in TLA+

Cathole exposes services of a home machine on a public server.  The client
keeps one QUIC connection to the server; inside it, TCP connections travel as
streams and UDP packets as QUIC datagrams, both encrypted once more with Noise.
This directory models the program from its configuration files to the bytes it
forwards, checks the models with TLC on small instances, and proves the central
facts with TLAPS for all values of the constants.

## The system

| Part | Code | State | Operations | What is hard |
|---|---|---|---|---|
| Datagram encryption | `crypto.rs` 225-296 | nonce counter, replay bitmap | `seal`, `open` | reordering and repetition, laps of the bitmap, end of the nonce budget |
| Fragmentation | `datagram.rs`, `read_packet` | message counter, pending assemblies | `send`, `push`, `expire` | tasks sharing one sender, loss, partial sends, full map, expiry |
| Server UDP flows | `server.rs` 21-37, 172-181, 212-263 | `by_id`, `by_peer`, `next` | listener, reply, tick | two tables changed by several tasks, limit, late replies |
| Client UDP workers | `client.rs` 105-176 | `flows`, JoinSet, queues, byte budget | packet, join, worker steps | a worker ends while packets arrive for it |
| Sessions | `server.rs` 39-184, `client.rs` 12-111 | permits, ports, stage of each end | accept, register, bind, confirm, end, reconnect | partial binds, stale sessions, crashes, competing clients |
| TCP set-up | `proxy.rs` 68-145, `server.rs` 186-210, `client.rs` 113-127 | stream permits of both ends | accept, open, confirm, dial, end | stream limit, refused streams, timeouts |
| TCP bridging | `bridge` and framing of `crypto.rs` | two futures at each end | read, seal, frame, open, write | half-close, errors, flow control |
| Noise handshake | `crypto.rs` 11-185 | turn, transcript | write, read in turn, request, reply | turn order, binding to connection and stream |
| Configuration | `config.rs`, `main.rs` 119-131, 179-197 | none | parse, validate, read, select | defaults, checks that depend on the role |
| Backoff | `client.rs` 12-32 | `delay` | wait, reset | slow failures, edges of the cap |
| Supervisor | `main.rs` 198-226 | `seen`, `current`, `rollback`, task | read, tick, reload, rollback, stop | two reads of a file that may change, rollback |

`main` validates its file and launches the server or the client.  A session runs
a handshake on its first stream and registers the client's services on it; then
each TCP connection is a stream with a handshake of its own and a bridge at both
ends.  The server's UDP listeners use the flow table and the sender, the client's
loop uses the reassembler and the workers, and replies go back the same way.
When a session ends the client backs off and connects again; when the file
changes the supervisor replaces the task.

## Modules

| Module | Models | State and actions |
|---|---|---|
| `ReplayWindow` | `ReplayWindow` in `crypto.rs` | operators: `acceptable`, `record`; a word is the set of its bits that are set |
| `DatagramCrypto` | `seal` and `open` of the two ends of one direction | `next`, `replay`, and what is on the wire; one action per outcome of a call |
| `AntiReplay` | abstract: a log of accepted nonces | refined by `DatagramCrypto` |
| `HashMap` | `std::collections::HashMap` | functions with a changing domain |
| `Datagram` | `Sender::send`, `read_packet`, `Reassembler` | one action per fragment sent or received; `Tick`, `Advance` for time |
| `ServerFlows` | `Flows`, `udp_listener`, packet arm of the server's loop | `Known`, `Admit`, `IdsExhausted`, `expire`, `Route`, `End` |
| `ClientFlows` | packet and join arms of the client's loop, `udp_flow` | `Forward`, `Spawn`, `Join`; `Bind`, `Take`, `Sent`, `Reply`, `Stop` of a worker |
| `UdpTunnel` | both of them with a channel each way | extends `ServerFlows` and `ClientFlows`; their actions, joined where a packet passes |
| `Session` | `run`, `connect`, `session` of both ends | one action per step of the registration, of either end; faults |
| `TcpForward` | `tcp_listener`, `tcp_server`, accept arm, `tcp_client` | many connections: permits, set-up, timeouts, end of the bridge |
| `TcpBridge` | `bridge`, `read_frame`, `write_frame` at both ends | one connection: `tx` and `rx` of each end, stream halves, TCP peers |
| `BytePipe` | abstract: a reliable byte stream with an end | refined by each direction of `TcpBridge` |
| `Config` | `config.rs`, file checks of `transport.rs`, `handshake` | operators: `parse`, `validate_side`, `read`, `select`, ... |
| `Handshake` | startup of two processes, then one stream | `Boot`; `Start`, `WriteMessage`, `ReadMessage`, `Request`, `ReadRequest`, `ReadReply` and their failures |
| `Backoff` | `run` of the client, timeouts of `connect` | `Returns`, `Wakes` |
| `Supervisor` | `main`'s loop and the life of the server task | one action per arm; the reads of the file are separate steps |
| `*Proofs` | | theorems of the module in their name; `DatagramCryptoProofs` has those of `ReplayWindow`, `UdpTunnelProofs` those of `ServerFlows` and `ClientFlows`, `HandshakeProofs` those of `Config`, `RestartProofs` those of `Supervisor` and `Backoff` |
| `MC*` | | instances for TLC |

`X_Something`, defined before `X` and marked as a mutant, is a plausible mistake
in the code that `X` models; under it TLC finds the property violated that the
project lists for it.

### Abstractions

* Bytes are opaque.  A fragment's bytes are the pair (payload, index); lengths,
  counts and indices are computed as in the code, with the 16-bit fields as a
  modulus.  The AEAD is perfect: a datagram is genuine or fails to open.
* `Datagram` starts after the registration, which used nonce 0 of the keys in
  both directions: the request the client's, the reply the server's.  A sender
  goes on with nonce 1, and the window of its receiver has 0 recorded.  A datagram
  that `acceptable` refuses has no effect and is a stuttering step.  The sizes of
  the fragments are computed twice, as in the code: by the sender from the start
  and end of a slice (`Slice`), by the receiver from index and length (`SizeOf`).
* Time is an age that counts up to the timeout, where larger values no longer
  matter; a tick may come at any moment after that.
* In `UdpTunnel` a channel loses and reorders packets and delivers each at most
  once and whole; that is what `DatagramProofs` proves of the real one.
  The data of a packet is the source it came from.
* In `ClientFlows` the permits a queued or sent packet owns are a set with one
  element per byte; what all workers hold is the union, so that the budget is
  accounted for by counting a set.
* In `Session` the Noise exchange is one reliable request and reply; `Handshake`
  has its steps.  A connection is live, closed (the other end is told) or cut
  (each end finds out by timeout).  Every service has its own bind address.
  Names of connections are reused once both ends are gone, so that a client may
  retry for ever.  A session that fails during setup drops its sockets at once,
  since they are in the future that is dropped; one that served aborts its
  listener tasks, and the sockets go one by one, later (`Release`).  A connection
  is accepted or refused only after a stateless Retry.
* A `SendStream` that is dropped unfinished is finished by quinn, or reset if the
  far end has stopped it.  This is how `quinn` behaves, and it matters in
  `Session` (`Left`), `TcpBridge` (`SendDropped`) and `Handshake` (`Fail`).
* In `TcpForward` a bridge is what its ends are to each other: bridging, or gone.
  `TcpBridge` has its inside: the prefix and the data of a frame are two writes
  and two reads, and a full stream holds its writer.  The end of a session (an
  error of `accept` or `set_nodelay`, or a lost connection) is one step that
  drops all tasks and leads to the start of the next session.
* In `Handshake` the transcript of an end (pattern, prologue, keys known in
  advance, messages so far) stands for its handshake hash.  A message with an
  encrypted part opens only with an equal transcript.  Datagram and stream
  handshakes differ in their context only.
* In `Config` a file is a record of the settings that are checked: names and
  tokens are lengths, addresses are given or not, a path is relative, absolute
  or missing, a key has a name or does not decode.  Numbers are the code's.
* `Backoff` has the numbers of the code; an attempt is the durations of its steps.
  `Lifetimes` is the time behind the log line "tunnel ready", whether it is spent
  resolving local addresses (client.rs:93-104) or serving.
* `Supervisor` is the server role.  The client's task does not end by itself.  A
  config that can be bound may still fail to, now and then (a fault, like a lost
  endpoint).

## Runs

| Run | Bounds | States | Shows |
|---|---|---|---|
| `datagram_crypto` | window of 2 x 2 bits, 7 nonces | 16 thousand | nonces used once; opened at most once; never wrongly refused; implements `AntiReplay` |
| `datagram` | 2 tasks, 2 destinations, 2 messages of 1 to 3 fragments, nonces 1 to 4, 1 slot, window of 3 | 207 thousand | payloads delivered whole, at most once; slots bounded and drained; complete means delivered; expired is not delivered; both ends agree on the format |
| `udp_flows` | server: 2 services, 2 peers, 2 flows, 4 IDs; client: 3 keys, 2 flows, 2 slots, 4 bytes | 29 thousand | server: tables inverse, bounded; IDs not reused; idle flows leave.  Client: one worker per key; budget conserved and returned; the key of a worker that ended is free again, with room for it |
| `udp_tunnel` | 2 services, 2 peers, 1 flow, 2 IDs | 583 thousand | replies reach their own source only; one source per local socket |
| `sessions` | 2 clients, that compete or not, 3 connections, 2 sessions, 2 faults | 176 thousand | all or nothing; permits conserved; ends agree; clients get through in the end |
| `sessions_abandoned` | 1 client, 1 connection, 1 service, 1 fault | | the second finding below |
| `restart` | server: 6 contents, 3 edits anywhere, 1 fault; client: the code's constants, 7 intervals, 8 retries | 131 thousand | server: one valid task at a time; stops when told; valid edits take effect; a bad bind does not end the process.  Client: waits double up to the cap; attempts that never got ready do not reset it |
| `supervisor_edit` | 5 contents, 1 edit at startup | | the third finding below |
| `tcp_bridge` | 2 bytes each way, stream of 1 item, 1 fault | 41 thousand | each direction is a `BytePipe`; half-close delivers; bridges end |
| `tcp_bridge_error` | the same | | the first finding below |
| `tcp_forward` | 3 connections, 2 permits at the server, 1 at the client | 6 thousand | set-ups end; permits come back at both ends, and across the end of a session |
| `handshake` | 4257 pairs of files, command lines and disks | 58 thousand | what is accepted can run and authenticates the server; payloads only between ends that agree; handshakes end, with success or closed at both ends |

`MCUdpFlows` and `MCRestart` choose an end or a role at the start and leave the
variables of the other alone: two small models in one run.

Why the bounds are enough:

* The window of 4 slots is lapped by 7 nonces, with jumps shorter than, equal to
  and longer than the window, and two words make the word index matter.
* Two messages compete for one assembly slot; the lengths 0, 2, 3 and 5 with
  chunks of 2 give an empty payload, a full chunk, a partial last chunk and the
  longest payload.  Message IDs and nonces run out.
* Two flows and three keys make the limits of the maps bind.  One flow on the
  server against two on the client makes a worker outlive its flow.
* Two faults cover a stale session met by a reconnection that fails itself.
  Three names of connections leave one for a client whose stale session the
  server has not noticed yet.
* Three edits cover a reload overtaken by another and a change that is put back;
  two configs that cannot be bound cover two failures in a row.
* With a stream of one item every write meets flow control, between the two
  parts of a frame too; two bytes are read at once or one by one.
* The server admits more connections than the client, and `open_bi` meets the
  client's stream limit of 2 with three connections.
* `MCHandshake` changes the files of `--init` one setting at a time to values at
  and beyond each limit, with every role argument, both roles in the file or
  one, identity files there or not; then the settings that are checked together,
  two at a time; then any two valid `[noise]` tables on equal and different
  streams, and a registration that is too long.
* The cap of the backoff is reached within 6 doublings.

### Fairness

* `Datagram`: the 1-second tick of the session loop and time.  `select!` picks
  a ready arm at random, so a ready arm is not passed over for ever.
* `ServerFlows`: tick and time, while the session is up.
* `ClientFlows`: the join arm, and every worker's own steps (a task that is
  ready is run; a send to a UDP socket completes).
* `Session`: every task runs; `run` retries for ever; a lost connection is
  noticed (CONNECTION_CLOSE, the idle timeout, or at the latest the lifetime of
  the session).  Faults are never forced, and there are finitely many: a network
  that fails every attempt proves nothing about the program.
* `Supervisor`: main's thread, the interval, and the task's start and shutdown.
  Edits, faults and Ctrl-C are not forced.
* `TcpBridge`: the two futures of `try_join!` and the join itself, at each end,
  and the abort of tasks whose session is gone.  A TCP peer takes what is written
  to it; it need not write or close.
* `TcpForward`: the tasks and their timers.  Peers need not connect or close, and
  the local target need not come up.
* `Handshake`: the two tasks.  No timer has to fire: the turns alone end it.

### Findings

Three runs show where the code does not do what a document or a comment says.

1. `tcp_bridge_error`.  docs/protocol.md:24 says that FIN at a frame boundary is
   orderly.  A TCP peer writes a byte and is reset before `tx` has read it; the
   read fails in `tx`, which owns the `SendStream`; `bridge` returns the error and
   the stream is dropped.  quinn finishes a dropped stream, so the far end reads an
   end at a frame boundary and shuts its TCP peer down in order (crypto.rs:218),
   one byte short.  That peer cannot tell a reset connection from a complete one.
   `BytePipe` allows an early end after a failure, and so `ImplementsPipe` holds.
2. `sessions_abandoned`.  server.rs:120 says that the server requires orderly
   completion of the control request, "not abandoned auth streams".  The client
   gives up while it waits for the reply; its dropped control stream is finished by
   quinn; the server, which has not seen the close of the connection, binds,
   replies, reads the end and serves.  It stops when it notices the close.
3. `supervisor_edit`.  README.md:371-372 says that a valid edit restarts sessions.
   `main` parses the file (main.rs:182) and reads it again for later comparison
   (198): an edit in between counts as seen and is never applied.  The same
   property, `EveryValidEditApplied`, fails for two more reasons when the constants
   of `MCSupervisorEdit.cfg` allow them.  With edits "steady" and "reread", an edit
   that is taken back between the reads at 212 and 215 and then made again is
   passed over.  With a fault, `rollback` brings the previous config back, also
   when the new one came up and served before its endpoint was lost, and the
   file, unchanged since, is not read again.

### What the conditions of the properties leave out

Some properties hold under a condition that the code needs:

* `ValidEditApplied` excludes edits between two reads of the file and faults, for
  the reasons of the third finding.  It allows the process to end by itself only
  after two configs in a row, or the first one, that cannot be bound.  This does
  happen with a serving config before them: a second reload, while the first is
  starting, makes a config that never served the one to fall back to, and the
  process ends although a valid edit may be in the file.
* `OnlyToldToExit` therefore excludes edits while a task is starting.  It also
  excludes edits between the two reads of a reload, after which the fallback may
  be a config that was never up, and faults.
* `ResetOnlyWhenReady` speaks of the log line "tunnel ready".  Behind it the client
  resolves its local addresses, each within SETUP; an attempt that fails there,
  slowly, does reset the delay.
* `HandshakeEnds` promises success to ends whose keys decode and whose
  registration fits a frame, and failure at both ends to all others.
  `validate_noise` decodes only the keys its pattern needs (config.rs:219),
  `handshake` all that are given: a malformed key that is not needed passes
  `--check`, which README.md:332 says validates Noise keys, and fails every
  handshake.  256 services with long names and tokens are within the documented
  limits (README.md:251-253) and exceed the 65535 bytes of `write_frame`
  (crypto.rs:14); docs/protocol.md:13-14 says that this fails closed.
* `EndsAgree` speaks of a client that is there.  Of one that has left, see the
  second finding.

## Proofs

`DatagramCryptoProofs`, first part, for any number of words and bits: if the
bitmap `Represents` a set S of nonces (its highest is the greatest of S, and within the
window behind it a bit is set exactly for members of S), then `acceptable` holds
exactly of the nonces outside S that are less than a window behind all of S
(`AcceptableExact`), and `record` of such a nonce represents S with it
(`RecordRepresents`).  The core is that two nonces less than a window apart have
different slots, which rests on lemmas about `%` and `\div`.

Second part: `IndInv` says that the bitmap represents the log of
opened nonces, that the log has no repetition, and that the wire holds exactly
the nonces below `next`.  `AtMostOnce` is not inductive alone: whether a nonce
is accepted depends on the bitmap, so the bitmap has to be tied to the log.  From
it follow `TypeCorrect`, `OpenedAtMostOnce`, `NeverFalselyRejected`,
`NoncesFresh`, and the refinement of `AntiReplay` (`RefinesAntiReplay`).

`DatagramProofs`, for any number of tasks, any payloads up to MAX_PAYLOAD, any
chunk and window size, any limits and times:

* The receiver's variables do not say what it has received: the bitmap forgets,
  assemblies expire, parts are moved into packets.  `IInv` therefore quantifies
  over a set S of nonces, those that `open` let through.  The bitmap represents
  S; whatever an assembly holds or a delivered packet was made of is in S; and a
  fragment in S is held, delivered with its payload or counted as dropped
  (`NoneForgotten`).  On the sender's side every fragment on the wire is one of a
  payload that was sent, with the message ID of that payload, and is sealed once.
* A step of `Receive` adds one nonce to S.  That it is a new one, and that the
  bitmap represents S with it, are `AcceptableExact` and `RecordRepresents`, cited
  from `DatagramCryptoProofs` through an instance.
* Hence `FormatAgreed` (the arithmetic of `send` and of `push` agree),
  `PacketsIntact`, `PacketsOnce`, and the action property `StaleStaysUndelivered`.
  `PacketsOnce` needs both ends of S: a payload is delivered with the last of its
  fragments, which is new, while one delivered before has all of them in S.
* The size in `AssembliesBounded` is an invariant of its own (`Bounded`): expiry
  only shrinks the map, and `push` looks for room before it inserts.
  `NoSilentLoss` follows from `NoneForgotten` and a count: as many fragments on
  the wire as the payload has indices, no two alike, are all of them.

`SessionProofs`, for any number of clients, connections, services, permits and
faults.  `AllOrNothing` and `EndsAgree` are not inductive: what a session binds is
what its client wrote some steps earlier, under a name that other connections
had before.  `IInv` says what each end knows of the other: `ClientView` (what a client
has not written yet is not on the stream, and what it wrote stays), `ServerView`
(what is bound is the beginning of a checked registration, all of it once the reply
is written), `Attached` (a connection has one client), `Sockets` (a held socket
belongs to a session that bound it) and `Permits` (as many permits are out as
there are sessions).  Hence `PermitsNeverLeak`, `RegistrationAtomic` and
`ServiceNumbersAgree`, the latter for a client that has not left.

`UdpTunnelProofs`, about the table of `ServerFlows` by itself,
which `UdpTunnel` extends: `IndInv` adds to the type invariant
that the tables are inverse, that every live flow is the one its ID was granted to
and that granted IDs are below `next`.  Hence `TablesAlwaysInverse` (the `unwrap` at
server.rs:239 cannot fail), `FlowsBounded` and `IdsNeverReused`.  `TunnelHasTable`
shows that `TunnelSpec` implements the `Spec` of the table, so that the theorems hold of
the table within it.

`UdpTunnelProofs`, about the workers of `ClientFlows` by themselves, which `UdpTunnel`
extends too: `ClientInv` has three parts.  `Paired`: the map of flows and the JoinSet are
inverse to each other and of the same size, and the map is within the limit; the limit
is checked against the map alone (client.rs:132), so the bound on workers needs the
bijection.  `Tidy`: a packet is in hand only while it is sent, and a worker that is done
holds none.  `Balanced`: the available permits and the set of permits that workers hold
add up to the budget.  A step moves the permits of one worker and leaves those of the
others alone, because they are tagged with their worker; queueing adds as many as the
packet costs, taking moves them from the queue to the hand, sending and ending give them
back.  Removing a joined worker loses none only because it is `Tidy`.  Hence
`WorkersMatchFlows` and `PermitsNeverLost`.  `TunnelHasClient` shows that `TunnelSpec`
implements `ClientSpec`: the packets on the channel have keys and data that the client
may get (`Addressed`), so these theorems, too, hold within the tunnel.

`UdpTunnelProofs`, the first sections: `RepliesReachTheirSource`, for any services,
peers, limits and timeouts; its proof uses no assumption on them.
`SourceIsolation` speaks of the last reply and of the sockets; the invariant follows a datagram all the way round: the
tables give an ID to the source it was granted to (`Table`), a worker and
all that it holds or has heard belong to the source of its key (`Served`), and so
does every packet on either channel (`Channels`).  It is kept because what was
granted is never granted again, so a packet or a worker may outlive its flow.

`HandshakeProofs`, for any pair of files, command lines, disks and streams:

* `NoPayloadFromStrangers`.  A transcript starts with pattern, prologue and keys
  of its end and has one entry per message seen; every frame is a transcript of
  its writer, and the transcript of the complete handshake is on the server's
  side of the wire only as the reply to a request.  An end that opens a frame has
  an equal transcript, hence an equal start; and a client that opens a reply
  knows that the server has returned the request.
* `ClientsAuthenticate` and `AcceptedConfigsRun`.  The invariant `Origin` says
  that the config in force is what `read` and `select` made of a file that
  `parse` accepted; the rest is a walk through `validate_side` and
  `validate_noise`, with the settings that overriding and joining paths leave
  alone.

`TcpBridgeProofs`, for any amount of data, buffer and window: `BridgeIsPipe`, each
direction of `TcpBridge` implements `BytePipe`.  Nothing in the state says where the
sender cut the bytes of its peer into chunks once they are on their way, and
the refinement needs to know: `Carried` says that there is a function `cut`, with
`cut[m]` the last byte of the chunk with nonce m, that explains all of a direction.  The
chunk that tx holds and the place it has read to (`Cuts`), the items on the stream, two
for each chunk, at the places the frame format gives them (`OnWire`), and what rx has
opened and its peer got (`Received`) are all determined by `cut` and the two nonces.  A
read extends `cut`; every other step keeps it.  `Ending` says when a direction may
end: tx is done only after all bytes, and without a failure only such a tx finishes its
stream.  Then a write of rx delivers the next bytes of the pipe, an end that rx reads is an
`End` of the pipe (the stream is finished and empty, so the nonces are equal, so all
bytes have arrived), and all other steps are steps of the peers or stutter.

`TcpForwardProofs`, for any number of connections and any `max_streams`.  The tasks of a
connection, one at each end, know of each other through its stream only, and either may
give up at any point of the other.  `Link` says what the stream tells of the two
tasks and their TCP peers: which end still holds it, and that `ok` is on it only when the
server has gone on to bridge.  Every action is shown to turn one linked connection into
another, and to take or return the permit that belongs to the change; the end of a
session leads to a fresh one.  Hence
`PermitsNeverStray` (permits and tasks add up to the limit at both ends),
`TargetSeesConfirmed` (the local target is dialled only after the server's `ok`) and
`NoStreamStays` (streams are within the client's limit and none is left
without a task or a pending accept).  TLC agrees with the three and with the inductive
invariant on the instance of `tcp_forward`.

`RestartProofs`, `Supervisor`, for any contents and any number of edits:
`OneTaskAtATime`, at whatever points edits and faults fall, and `NeverEndsByItself`.
The latter is an action property, and its condition (`Calm`) is not enough by
itself: `Settled` says what `seen`, `current` and `rollback` know of the running
task while it lasts.  A difference between file and `seen` is only met by a task
that is up; so the config saved for rollback came up and is bindable; so when a
task ends by itself it cannot be bound and there is a good config to return to.

`RestartProofs`, `Backoff`: `WaitsBounded` for every interval, jitter and duration, and
`OnlyReadyResets`, which rests on three set-up timeouts and a drain being at
most the 60 seconds that count as stable.  `WaitsGrowToCap` gives the wait before the
n-th retry; its invariant is that the larger of delay and interval is the interval
doubled n times, capped.  That doubling once more is the next power of two is not an
axiom of the provers; it is proved by counting the subsets of 1 .. n.

Assumptions: those named in the modules (sizes are positive naturals, limits are
naturals, contents that can be bound are disjoint from those that cannot, files
have the fields that parsing gives them, and in `UdpTunnel` the keys and data of the
client include those the server sends), evaluated by TLC on each run.

Model-checked only:

* all liveness properties (the prover handles neither fairness nor ENABLED):
  `SlotsDrain`, `IdleFlowsLeave`, `PermitsReturn` and `KeyServedAgain`,
  `SomeoneServes` and `ReconnectsInTheEnd`, `StopsWhenTold` and `ValidEditApplied`,
  `HalfCloseDelivers` and `BridgeEnds`, `SetupEnds`, `HandshakeEnds`.

Every safety invariant, action property and refinement that a passing run checks is
proved.

`tlapm` checks the proofs from nothing in about twenty minutes, half of it in
`TcpBridgeProofs` and `UdpTunnelProofs`.  Its time grows faster than a module, and SMT
leaves are the expensive ones, so purely logical leaves name Zenon; facts on finite
sets, which many obligations would carry along, are brought in where first used.

## Not modelled

* Building the quinn and rustls configurations and sizing socket buffers
  (`transport.rs`): calls into libraries without state of their own.  Which files
  they read and whether the certificate is verified is in `Config`.
* `--init` and `--genkey` write or print fresh keys once; the two files of
  `--init` are `Generated` in `Config`.
* TOML syntax, field names, and fields that are kept for compatibility only.
* Name resolution, which picks an address of the preferred family.
* Logging, and the wording of errors.

## Plan

1. `TcpForward` over `TcpBridge`: the permits of many connections with the inside
   of each bridge.
2. `Session` with the steps of `Handshake` in place of one request and reply.
