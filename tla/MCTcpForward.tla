---------------------------- MODULE MCTcpForward ----------------------------
(* Three public peers, a server that admits two of them, a client that      *)
(* admits one stream and so lets the server open two.                       *)
EXTENDS TcpForward
=============================================================================
