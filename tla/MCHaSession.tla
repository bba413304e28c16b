---------------------------- MODULE MCHaSession ----------------------------
(***************************************************************************)
(* Instances of HaSession for TLC: the values of Taps and Env of its runs. *)
(***************************************************************************)
EXTENDS HaSession

\* Everything but the setup screen.
TapsPlain == AllTaps \ {"setup", "wizard"}

\* The taps that never replace a pending view request by a list request.
TapsKeepSlot == {"select", "status", "setup"}

\* Every way Home Assistant can end a session; WiFi only has to come up.
EnvServer == {"ha_down", "ha_rejects", "ha_closes"}
=============================================================================
