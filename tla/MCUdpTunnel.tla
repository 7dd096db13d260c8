---------------------------- MODULE MCUdpTunnel -----------------------------
(***************************************************************************)
(* Two services, two public peers and one flow at a time on the server: a  *)
(* flow has to expire before another source is admitted, while the client  *)
(* may keep the old worker.                                                *)
(***************************************************************************)
EXTENDS UdpTunnel

MCKeys == Services \X (0 .. IdLimit)

MCData == Services \X Peers
=============================================================================
