--------------------------- MODULE DatagramCrypto ---------------------------
(***************************************************************************)
(* One direction of the UDP data channel of a session: the sending half of *)
(* one DatagramCrypto (`next`) and the receiving half of its peer          *)
(* (`replay`).  The two directions of a session use independent split keys *)
(* and share no state.                                                     *)
(*                                                                         *)
(* QUIC DATAGRAMs are unreliable: `wire` never forgets a sealed datagram,  *)
(* so any of them may be opened late, out of order, several times or not   *)
(* at all.  A datagram that does not authenticate may carry any nonce.     *)
(***************************************************************************)
EXTENDS ReplayWindow, Sequences

CONSTANT
  Budget    \* datagrams that may be sealed under one key (2^32)

ASSUME BudgetAssumption == Budget \in Nat \ {0}

VARIABLES
  next,     \* DatagramCrypto.next of the sender
  wire,     \* nonces of the datagrams sealed so far
  replay,   \* DatagramCrypto.replay of the receiver
  opened,   \* history: nonces that open() returned Ok for, in order
  result    \* what the last call of seal or open returned

vars == <<next, wire, replay, opened, result>>

Nonces == 0 .. Budget - 1

Results == {"none", "sealed", "exhausted", "short", "stale", "forged", "opened"}

Init ==
  /\ next = 0
  /\ wire = {}
  /\ replay = EmptyWindow
  /\ opened = <<>>
  /\ result = "none"

-----------------------------------------------------------------------------
(* seal: ensure!(next < 2^32), use next as the nonce, advance it.          *)

\* mutant: the nonce counter wraps instead of running out
Seal_Wraps ==
  /\ next' = (next + 1) % Budget
  /\ wire' = wire \cup {next}
  /\ result' = "sealed"
  /\ UNCHANGED <<replay, opened>>

Seal ==
  /\ next < Budget
  /\ next' = next + 1
  /\ wire' = wire \cup {next}
  /\ result' = "sealed"
  /\ UNCHANGED <<replay, opened>>

SealExhausted ==
  /\ next >= Budget
  /\ result' = "exhausted"
  /\ UNCHANGED <<next, wire, replay, opened>>

-----------------------------------------------------------------------------
(* open: length, then nonce range and replay window, then the AEAD; the    *)
(* window is written only when all of them passed.                         *)

OpenShort ==
  /\ result' = "short"
  /\ UNCHANGED <<next, wire, replay, opened>>

Passes(n) == n < Budget /\ acceptable(replay, n)

OpenStale(n) ==
  /\ ~Passes(n)
  /\ result' = "stale"
  /\ UNCHANGED <<next, wire, replay, opened>>

OpenForged(n) ==
  /\ Passes(n)
  /\ result' = "forged"
  /\ UNCHANGED <<next, wire, replay, opened>>

\* mutant: what is behind the window is let through and not recorded
OpenValid_Behind(n) ==
  LET behind == replay.highest # None /\ replay.highest - n >= Window IN
  /\ n \in wire
  /\ behind \/ Passes(n)
  /\ replay' = IF behind THEN replay ELSE record(replay, n)
  /\ opened' = Append(opened, n)
  /\ result' = "opened"
  /\ UNCHANGED <<next, wire>>

OpenValid(n) ==
  /\ n \in wire
  /\ Passes(n)
  /\ replay' = record(replay, n)
  /\ opened' = Append(opened, n)
  /\ result' = "opened"
  /\ UNCHANGED <<next, wire>>

Next ==
  \/ Seal
  \/ SealExhausted
  \/ OpenShort
  \/ \E n \in 0 .. Budget : OpenStale(n) \/ OpenForged(n)
  \/ \E n \in wire : OpenValid(n)

Spec == Init /\ [][Next]_vars

-----------------------------------------------------------------------------
(* Properties *)

\* Every variable holds a value its Rust type and its checks allow; `next`
\* stops at the budget and never passes it (seal's ensure!).
TypeOK ==
  /\ next \in 0 .. Budget
  /\ wire \subseteq Nonces
  /\ replay \in ReplayWindowType
  /\ opened \in Seq(Nonces)
  /\ result \in Results

\* open() never returns the same datagram twice, however the network delays,
\* reorders or repeats it (the replay window of crypto.rs).
AtMostOnce ==
  \A i, j \in 1 .. Len(opened) : opened[i] = opened[j] => i = j

\* open() refuses a genuine datagram only if it was opened before or is a whole
\* window behind one that was: no bit left over from an earlier lap of the
\* bitmap, and no datagram that failed authentication, shuts out another.
NoFalseReject ==
  \A n \in wire :
    (\A i \in 1 .. Len(opened) : opened[i] # n /\ opened[i] - n < Window)
      => Passes(n)

\* seal() never uses a nonce a second time; at the end of the budget it fails
\* instead of wrapping.
NonceNeverReused == [][next' # next => next \notin wire]_vars

\* the nonces of the log, and the inductive invariant of the proofs
Opened == {opened[i] : i \in 1 .. Len(opened)}

IndInv ==
  /\ TypeOK
  /\ wire = 0 .. next - 1
  /\ AtMostOnce
  /\ Represents(replay, Opened)

AR == INSTANCE AntiReplay WITH
        accepted <- opened, Span <- Window, Limit <- Budget

\* The bitmap implements the abstract anti-replay log.
ImplementsAntiReplay == AR!Spec
=============================================================================
