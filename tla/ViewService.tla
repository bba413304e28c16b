----------------------------- MODULE ViewService -----------------------------
(***************************************************************************)
(* What the lovelace request of the firmware promises to the user: the     *)
(* page on the panel changes to the view that was selected last, or to an  *)
(* empty page if HA does not have that view, or not at all                 *)
(* (ha_client_load_view and HA_EVT_ENTITIES_LOADED, seen from the UI).     *)
(* LovelaceSlot implements it.                                             *)
(***************************************************************************)
CONSTANTS Views,  \* paths of views
          NoView  \* no view yet

VARIABLES selected, \* the view selected last
          page      \* the view whose entities were loaded last

vars == <<selected, page>>

Init == selected \in Views \cup {NoView} /\ page = NoView

Select(v) == selected' = v /\ UNCHANGED page

Serve == page' \in {selected, NoView} /\ UNCHANGED selected

Next == Serve \/ \E v \in Views : Select(v)

Spec == Init /\ [][Next]_vars
=============================================================================
