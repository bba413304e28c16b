----------------------------- MODULE MCKeepalive -----------------------------
(***************************************************************************)
(* The instance of Keepalive for TLC: small times, given by the cfg file,  *)
(* in the order of those of the firmware (PING interval < PONG time limit, *)
(* rounds and delays shorter than both).                                   *)
(***************************************************************************)
EXTENDS Keepalive
=============================================================================
