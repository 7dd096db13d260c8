---------------------------- MODULE MCSupervisor ----------------------------
(* A server process whose config file is edited while it starts, between its *)
(* first two reads of the file.                                              *)
EXTENDS Supervisor
=============================================================================
