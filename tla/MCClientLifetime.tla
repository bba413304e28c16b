-------------------------- MODULE MCClientLifetime --------------------------
(***************************************************************************)
(* Instances of ClientLifetime for TLC.                                    *)
(***************************************************************************)
EXTENDS ClientLifetime
=============================================================================
