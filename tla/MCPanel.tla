-------------------------------- MODULE MCPanel --------------------------------
(* One dimmable light with two brightness values, an action button and a     *)
(* climate row; the timeout is off or two ticks.                             *)
EXTENDS Panel

MCLevels   == {20, 80}
MCWidgets  == {"switch", "slider", "button", "mode"}
MCTimeouts == {0, 2}
MCGlitches == {"points", "position"}

=============================================================================
