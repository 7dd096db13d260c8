---------------------------- MODULE ReplayWindow ----------------------------
(***************************************************************************)
(* The anti-replay bitmap of a DatagramCrypto (crypto.rs, ReplayWindow):   *)
(* the highest nonce authenticated so far and one bit for each of the last *)
(* Window nonces, kept as Words machine words of Bits bits (16 words of 64 *)
(* bits in the code).  A word is modelled as the set of its bits that are  *)
(* set.                                                                    *)
(***************************************************************************)
EXTENDS Integers

CONSTANTS
  Words,   \* length of the array `seen` (16)
  Bits     \* bits of one of its words (64)

ASSUME WindowAssumption == Words \in Nat \ {0} /\ Bits \in Nat \ {0}

Window == Words * Bits

\* Option::None of `highest`: no nonce was recorded yet.
None == -1

WordIds == 0 .. Words - 1
BitIds  == 0 .. Bits - 1

\* self.seen[(n % 1024 / 64) as usize] and 1 << (n % 64)
Word(n) == (n % Window) \div Bits
Bit(n)  == n % Bits

ReplayWindowType ==
  [highest : Nat \cup {None}, seen : [WordIds -> SUBSET BitIds]]

\* #[derive(Default)]
EmptyWindow == [highest |-> None, seen |-> [w \in WordIds |-> {}]]

Marked(seen, n) == Bit(n) \in seen[Word(n)]

acceptable(r, n) ==
  \/ r.highest = None
  \/ n > r.highest
  \/ r.highest - n < Window /\ ~Marked(r.seen, n)

-----------------------------------------------------------------------------
(* record: the slots the window slides over are cleared, then n is marked. *)

\* the loop `for x in h + 1..=n`, over the set R of its values
Cleared(seen, R) ==
  [w \in WordIds |-> seen[w] \ {Bit(x) : x \in {y \in R : Word(y) = w}}]

\* mutant: a jump of a whole window or more clears nothing
Slide_KeepsOld(r, n) ==
  IF r.highest = None \/ n <= r.highest \/ n - r.highest >= Window
    THEN r.seen
    ELSE Cleared(r.seen, r.highest + 1 .. n)

Slide(r, n) ==
  IF r.highest = None \/ n <= r.highest THEN r.seen
  ELSE IF n - r.highest >= Window THEN EmptyWindow.seen
  ELSE Cleared(r.seen, r.highest + 1 .. n)

\* mutant: the bit of n is not set when n is behind the highest nonce
record_OnlyNewest(r, n) ==
  [highest |-> IF r.highest = None \/ n > r.highest THEN n ELSE r.highest,
   seen    |-> IF n < r.highest THEN r.seen
               ELSE [Slide(r, n) EXCEPT ![Word(n)] = @ \cup {Bit(n)}]]

record(r, n) ==
  [highest |-> IF r.highest = None \/ n > r.highest THEN n ELSE r.highest,
   seen    |-> [Slide(r, n) EXCEPT ![Word(n)] = @ \cup {Bit(n)}]]

-----------------------------------------------------------------------------
(* What the bitmap stands for. *)

\* r represents the set S of recorded nonces: its highest nonce is the greatest
\* of S, and within the window behind it a bit is set exactly for the members
\* of S, whatever lap of the bitmap set or cleared it.
Represents(r, S) ==
  /\ r.highest = None => S = {} /\ r.seen = EmptyWindow.seen
  /\ r.highest # None => r.highest \in S
  /\ \A m \in S : m <= r.highest
  /\ \A m \in 0 .. r.highest :
       r.highest - m < Window => (Marked(r.seen, m) <=> m \in S)
=============================================================================
