----------------------------- MODULE MCSession ------------------------------
(* Two clients that compete for the same two services, or with services of *)
(* their own, one of which the server does not know.                       *)
EXTENDS Session

Competing == <<{1, 2}, {1, 2}>>
Apart     == <<{1, 2}, {3, 4}>>

ConfigCases == {Competing, Apart}

OneService == {<<{1}>>}
=============================================================================
