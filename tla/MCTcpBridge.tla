---------------------------- MODULE MCTcpBridge -----------------------------
(* Two bytes each way, read one or two at a time, through a stream that     *)
(* holds less than a second frame.                                          *)
EXTENDS TcpBridge
=============================================================================
