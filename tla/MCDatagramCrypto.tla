-------------------------- MODULE MCDatagramCrypto --------------------------
(***************************************************************************)
(* DatagramCrypto with a window of 2 words of 2 bits and 7 nonces: the     *)
(* window laps itself, and jumps of less than, exactly and more than a     *)
(* whole window occur.                                                     *)
(***************************************************************************)
EXTENDS DatagramCrypto
=============================================================================
