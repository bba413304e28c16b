--------------------------- MODULE MCLovelaceSlot ---------------------------
(***************************************************************************)
(* Instances of LovelaceSlot for TLC.                                      *)
(***************************************************************************)
EXTENDS LovelaceSlot
=============================================================================
