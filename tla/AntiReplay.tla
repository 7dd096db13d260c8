----------------------------- MODULE AntiReplay -----------------------------
(***************************************************************************)
(* What the receiving half of a DatagramCrypto promises, without bitmaps:  *)
(* a log of the nonces it accepted, each of them new and less than Span    *)
(* behind every nonce accepted before.                                     *)
(***************************************************************************)
EXTENDS Integers, Sequences

CONSTANTS
  Span,    \* how far behind the newest nonce an older one may arrive
  Limit    \* nonces are below Limit

VARIABLE accepted   \* accepted nonces, in the order of acceptance

Init == accepted = <<>>

Accept(n) ==
  /\ \A i \in 1 .. Len(accepted) : accepted[i] # n /\ accepted[i] - n < Span
  /\ accepted' = Append(accepted, n)

Next == \E n \in 0 .. Limit - 1 : Accept(n)

Spec == Init /\ [][Next]_accepted
=============================================================================
