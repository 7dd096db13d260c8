----------------------------- MODULE TcpBridge ------------------------------
(***************************************************************************)
(* One forwarded TCP connection: `bridge` (crypto.rs) at both ends of a    *)
(* QUIC stream.  Each end joins two futures: tx reads its TCP peer, seals  *)
(* what it read and writes a frame; rx reads a frame, opens it and writes  *)
(* to the TCP peer.  A frame is its length prefix, then its data.          *)
(*                                                                         *)
(* A direction is named by the end it starts from, its bytes are numbered  *)
(* from 1.  A sealed chunk is [nonce, plain]: TransportState counts its    *)
(* messages in each direction and opens only the next one.                 *)
(***************************************************************************)
EXTENDS Integers, Sequences

CONSTANTS
  MaxBytes,    \* bound: bytes a peer writes
  BufLen,      \* the buffer of reader.read (16384)
  Window,      \* items a stream holds before its writer waits: flow control
  MaxFaults    \* bound: resets of a TCP peer, loss of the tunnel

ASSUME BridgeAssumption ==
  MaxBytes \in Nat /\ BufLen \in Nat \ {0} /\ Window \in Nat \ {0} /\ MaxFaults \in Nat

VARIABLES
  peer,     \* per end: its TCP peer, what it wrote and the state of its side
  got,      \* per end: the bytes its TCP peer received
  eof,      \* per end: what its TCP peer saw last: "no", "fin" or "dropped"
  tx, rx,   \* per end: the two futures
  strm,     \* per end: the half of the stream it writes
  task,     \* per end: "run", "ok" or "failed"
  tunnel,   \* "live" or "lost"
  faults

vars == <<peer, got, eof, tx, rx, strm, task, tunnel, faults>>

Ends == {"server", "client"}

Other(e) == IF e = "server" THEN "client" ELSE "server"

\* set-up used the first message of each direction: the request, and "ok"
Init ==
  /\ peer = [e \in Ends |-> [sent |-> 0, st |-> "open"]]
  /\ got = [e \in Ends |-> <<>>]
  /\ eof = [e \in Ends |-> "no"]
  /\ tx = [e \in Ends |-> [st |-> "read", taken |-> 0, nonce |-> 1, data |-> <<>>]]
  /\ rx = [e \in Ends |-> [st |-> "prefix", nonce |-> 1, plain |-> <<>>]]
  /\ strm = [e \in Ends |-> [wire |-> <<>>, st |-> "open", stopped |-> FALSE]]
  /\ task = [e \in Ends |-> "run"]
  /\ tunnel = "live"
  /\ faults = 0

-----------------------------------------------------------------------------
(* The TCP peers, and what goes wrong *)

Write(e) ==
  /\ peer[e].st = "open"
  /\ peer[e].sent < MaxBytes
  /\ peer' = [peer EXCEPT ![e].sent = @ + 1]
  /\ UNCHANGED <<got, eof, tx, rx, strm, task, tunnel, faults>>

Close(e) ==
  /\ peer[e].st = "open"
  /\ peer' = [peer EXCEPT ![e].st = "closed"]
  /\ UNCHANGED <<got, eof, tx, rx, strm, task, tunnel, faults>>

Fault == faults < MaxFaults /\ faults' = faults + 1

Reset(e) ==
  /\ Fault
  /\ peer[e].st # "reset"
  /\ peer' = [peer EXCEPT ![e].st = "reset"]
  /\ UNCHANGED <<got, eof, tx, rx, strm, task, tunnel>>

\* the connection is closed or times out, or a session ends
Cut ==
  /\ Fault
  /\ tunnel = "live"
  /\ tunnel' = "lost"
  /\ UNCHANGED <<peer, got, eof, tx, rx, strm, task>>

-----------------------------------------------------------------------------
(* How an end lets go of its stream *)

\* quinn: a SendStream that is dropped unfinished is finished, or reset when
\* the far end has stopped it
SendDropped(s) ==
  IF s.st # "open" THEN s
  ELSE IF s.stopped THEN [s EXCEPT !.st = "reset", !.wire = <<>>]
  ELSE [s EXCEPT !.st = "fin"]

\* quinn: a RecvStream that is dropped before its end was read is stopped
RecvDropped(s, read) == [s EXCEPT !.stopped = @ \/ ~read]

LetGo(e) ==
  /\ strm' = IF tunnel = "lost" THEN strm
             ELSE [strm EXCEPT ![e] = SendDropped(@),
                               ![Other(e)] = RecvDropped(@, rx[e].st = "done")]
  /\ eof' = [eof EXCEPT ![e] = IF @ = "no" THEN "dropped" ELSE @]

\* try_join!: the first error drops the other future, both halves of the
\* stream and both halves of the socket
Fail(e) ==
  /\ task[e] = "run"
  /\ task' = [task EXCEPT ![e] = "failed"]
  /\ LetGo(e)
  /\ UNCHANGED <<peer, got, tx, rx, tunnel, faults>>

Joined(e) ==
  /\ task[e] = "run"
  /\ tx[e].st = "done" /\ rx[e].st = "done"
  /\ task' = [task EXCEPT ![e] = "ok"]
  /\ LetGo(e)
  /\ UNCHANGED <<peer, got, tx, rx, tunnel, faults>>

\* the session that owns the task is gone, and its JoinSet with it
Aborted(e) == tunnel = "lost" /\ Fail(e)

-----------------------------------------------------------------------------
(* tx: from the TCP peer of e to its half of the stream *)

Tx(e, upd) == tx' = [tx EXCEPT ![e] = upd]

\* reader.read, and write_message under the lock: the chunk gets the next nonce
TxRead(e) ==
  /\ task[e] = "run" /\ tx[e].st = "read" /\ peer[e].st # "reset"
  /\ \E n \in 1 .. BufLen :
       LET first == tx[e].taken IN
       /\ n <= peer[e].sent - first
       /\ Tx(e, [st |-> "prefix", taken |-> first + n, nonce |-> tx[e].nonce + 1,
                 data |-> [nonce |-> tx[e].nonce, plain |-> [i \in 1 .. n |-> first + i]]])
  /\ UNCHANGED <<peer, got, eof, rx, strm, task, tunnel, faults>>

CanWrite(e) ==
  task[e] = "run" /\ tunnel = "live" /\ ~strm[e].stopped /\ Len(strm[e].wire) < Window

Put(e, item) == strm' = [strm EXCEPT ![e].wire = Append(@, item)]

\* write_frame: the prefix
TxPrefix(e) ==
  /\ CanWrite(e) /\ tx[e].st = "prefix"
  /\ Put(e, "prefix")
  /\ Tx(e, [tx[e] EXCEPT !.st = "data"])
  /\ UNCHANGED <<peer, got, eof, rx, task, tunnel, faults>>

\* write_frame: the data
TxData(e) ==
  /\ CanWrite(e) /\ tx[e].st = "data"
  /\ Put(e, tx[e].data)
  /\ Tx(e, [tx[e] EXCEPT !.st = "read", !.data = <<>>])
  /\ UNCHANGED <<peer, got, eof, rx, task, tunnel, faults>>

\* mutant: the end overtakes bytes that were not read yet
AtEof_Early(e) == peer[e].st = "closed"

AtEof(e) == peer[e].st = "closed" /\ tx[e].taken = peer[e].sent

\* mutant: send.finish() is forgotten
Finished_Never(s) == s

Finished(s) == [s EXCEPT !.st = "fin"]

\* n == 0: send.finish()
TxEof(e) ==
  /\ task[e] = "run" /\ tx[e].st = "read" /\ AtEof(e)
  /\ Tx(e, [tx[e] EXCEPT !.st = "done"])
  /\ strm' = [strm EXCEPT ![e] = Finished(@)]
  /\ UNCHANGED <<peer, got, eof, rx, task, tunnel, faults>>

\* mutant: a write to a stream that was stopped is tried again
TxError_Retries(e) == tx[e].st = "read" /\ peer[e].st = "reset"

\* reader.read fails, or a write to a stream that is stopped or lost
TxError(e) ==
  \/ tx[e].st = "read" /\ peer[e].st = "reset"
  \/ tx[e].st \in {"prefix", "data"} /\ (strm[e].stopped \/ tunnel = "lost")

TxFails(e) == TxError(e) /\ Fail(e)

-----------------------------------------------------------------------------
(* rx: from the half of the stream the other end writes to the TCP peer of e *)

Rx(e, upd) == rx' = [rx EXCEPT ![e] = upd]

In(e) == strm[Other(e)]

Take(e) == strm' = [strm EXCEPT ![Other(e)].wire = Tail(@)]

RxPrefix(e) ==
  /\ task[e] = "run" /\ rx[e].st = "prefix" /\ In(e).wire # <<>>
  /\ Take(e)
  /\ Rx(e, [rx[e] EXCEPT !.st = "data"])
  /\ UNCHANGED <<peer, got, eof, tx, task, tunnel, faults>>

\* the data, and read_message under the lock
RxData(e) ==
  /\ task[e] = "run" /\ rx[e].st = "data" /\ In(e).wire # <<>>
  /\ Head(In(e).wire).nonce = rx[e].nonce
  /\ Take(e)
  /\ Rx(e, [st |-> "write", nonce |-> rx[e].nonce + 1, plain |-> Head(In(e).wire).plain])
  /\ UNCHANGED <<peer, got, eof, tx, task, tunnel, faults>>

\* writer.write_all
RxWrite(e) ==
  /\ task[e] = "run" /\ rx[e].st = "write" /\ peer[e].st # "reset"
  /\ got' = [got EXCEPT ![e] = @ \o rx[e].plain]
  /\ Rx(e, [rx[e] EXCEPT !.st = "prefix", !.plain = <<>>])
  /\ UNCHANGED <<peer, eof, tx, strm, task, tunnel, faults>>

AtFin(e) == In(e).wire = <<>> /\ In(e).st = "fin"

\* read_frame returns None: writer.shutdown()
RxEof(e) ==
  /\ task[e] = "run" /\ rx[e].st = "prefix" /\ AtFin(e) /\ peer[e].st # "reset"
  /\ Rx(e, [rx[e] EXCEPT !.st = "done"])
  /\ eof' = [eof EXCEPT ![e] = "fin"]
  /\ UNCHANGED <<peer, got, tx, strm, task, tunnel, faults>>

\* read_frame fails: the stream was reset, lost or ends within a frame
ReadError(e) ==
  \/ rx[e].st \in {"prefix", "data"} /\ (In(e).st = "reset" \/ tunnel = "lost")
  \/ rx[e].st = "data" /\ AtFin(e)

\* writer.write_all or writer.shutdown fails
WriteError(e) ==
  peer[e].st = "reset" /\ (rx[e].st = "write" \/ (rx[e].st = "prefix" /\ AtFin(e)))

\* read_message fails
OpenError(e) == rx[e].st = "data" /\ In(e).wire # <<>> /\ Head(In(e).wire).nonce # rx[e].nonce

RxFails(e) == (ReadError(e) \/ WriteError(e) \/ OpenError(e)) /\ Fail(e)

-----------------------------------------------------------------------------

TxStep(e) == TxRead(e) \/ TxPrefix(e) \/ TxData(e) \/ TxEof(e) \/ TxFails(e)

RxStep(e) == RxPrefix(e) \/ RxData(e) \/ RxWrite(e) \/ RxEof(e) \/ RxFails(e)

Next ==
  \/ Cut
  \/ \E e \in Ends :
       \/ Write(e) \/ Close(e) \/ Reset(e)
       \/ TxStep(e) \/ RxStep(e) \/ Joined(e) \/ Aborted(e)

Spec == Init /\ [][Next]_vars

\* The runtime polls both futures of a bridge again, and aborts the tasks of a
\* session that is gone.  A TCP peer reads what is written to it; nothing makes
\* it write, close or fail.
FairSpec ==
  Spec /\ \A e \in Ends : WF_vars(TxStep(e)) /\ WF_vars(RxStep(e)) /\ WF_vars(Joined(e) \/ Aborted(e))

-----------------------------------------------------------------------------
(* Properties *)

Failure ==
  tunnel = "lost" \/ \E e \in Ends : peer[e].st = "reset" \/ task[e] = "failed"

Src(e) == IF Failure THEN "failed" ELSE peer[e].st

FromServer == INSTANCE BytePipe WITH sent <- peer["server"].sent, src <- Src("server"),
                                     got <- got["client"], ended <- eof["client"] = "fin"

FromClient == INSTANCE BytePipe WITH sent <- peer["client"].sent, src <- Src("client"),
                                     got <- got["server"], ended <- eof["server"] = "fin"

\* Each direction of a bridged connection is a byte pipe: whatever the reads
\* coalesce, wherever flow control and the two tasks interrupt each other, the
\* far peer receives the bytes in order, once, without a gap, and sees an
\* orderly end before the last of them only after a failure.
ImplementsPipe == FromServer!Spec /\ FromClient!Spec

\* A half-close works: once a peer has ended its side, the other one receives
\* everything and the end, though its own direction stays open for ever, unless
\* something fails.
HalfCloseDelivers ==
  \A e \in Ends : (peer[e].st = "closed") ~>
    (Failure \/ (eof[Other(e)] = "fin" /\ Len(got[Other(e)]) = peer[e].sent))

\* No bridge outlives its connection: once each end has failed or has a peer
\* that ended its side, both tasks end (and return their stream permits), also
\* when one of them waits for room in the stream of an end that is gone.
BridgeEnds ==
  (\A e \in Ends : peer[e].st = "closed" \/ task[e] # "run") ~> (\A e \in Ends : task[e] # "run")

\* What docs/protocol.md says of the end of a stream: "FIN at a frame boundary is
\* orderly".  A far peer that was shut down in order (read_frame returned None)
\* has received everything the near peer wrote.
EndMeansComplete ==
  \A e \in Ends : eof[Other(e)] = "fin" => Len(got[Other(e)]) = peer[e].sent
=============================================================================
