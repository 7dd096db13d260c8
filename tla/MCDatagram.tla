----------------------------- MODULE MCDatagram -----------------------------
(* Two tasks share the sender and send payloads of none to three fragments *)
(* of 2 bytes, on either side of a full chunk, through a window of three.  *)
EXTENDS Datagram
=============================================================================
