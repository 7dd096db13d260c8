------------------------------ MODULE BytePipe ------------------------------
(***************************************************************************)
(* What a forwarded TCP connection promises in one direction: the far peer *)
(* receives the bytes of the near peer, numbered from 1, in order, once    *)
(* and without a gap.  It sees the end of the stream only after all of     *)
(* them, unless something on the way has failed.                           *)
(***************************************************************************)
EXTENDS Integers, Sequences

VARIABLES
  sent,    \* number of bytes the near peer has written
  src,     \* "open", "closed" (the near peer wrote its end), or "failed"
  got,     \* the bytes the far peer has received
  ended    \* the far peer has received the end

vars == <<sent, src, got, ended>>

Init == sent = 0 /\ src = "open" /\ got = <<>> /\ ended = FALSE

Write == src # "closed" /\ sent' = sent + 1 /\ UNCHANGED <<src, got, ended>>

Close == src = "open" /\ src' = "closed" /\ UNCHANGED <<sent, got, ended>>

Fail == src' = "failed" /\ UNCHANGED <<sent, got, ended>>

Deliver ==
  /\ ~ended
  /\ \E n \in 1 .. sent - Len(got) : got' = got \o [i \in 1 .. n |-> Len(got) + i]
  /\ UNCHANGED <<sent, src, ended>>

End ==
  /\ ~ended
  /\ src = "failed" \/ (src = "closed" /\ Len(got) = sent)
  /\ ended' = TRUE
  /\ UNCHANGED <<sent, src, got>>

Next == Write \/ Close \/ Fail \/ Deliver \/ End

Spec == Init /\ [][Next]_vars
=============================================================================
