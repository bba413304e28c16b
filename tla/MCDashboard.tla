------------------------------ MODULE MCDashboard ------------------------------
(* Two dashboards for Dashboard. The first has a view without a path, an     *)
(* entity twice in one view and one entity more than the panel can hold; the *)
(* second has other views in the same places, one more than the menu holds   *)
(* and one with a path that is too long, and so is its only entity, which it *)
(* has twice.                                                                *)
EXTENDS Dashboard

lamp    == <<"light", "lamp">>
thermo  == <<"climate", "thermo">>
S(n)    == <<"sensor", n>>
scene   == <<"scene", "long">>

Card(id, ids) == [entity |-> id, entities |-> ids]
View(path, cards, sections) == [path |-> path, cards |-> cards, sections |-> sections]

Living  == View(<<"living">>, <<Card(lamp, <<>>), Card(None, <<lamp, thermo>>)>>, <<>>)
Unnamed == View(None, <<>>, <<<<Card(None, <<S("a"), lamp, S("b")>>)>>,
                                <<Card(S("c"), <<S("d")>>)>>>>)
Long    == View(<<"long">>, <<Card(scene, <<scene>>)>>, <<>>)

MCDashboards == {<<Unnamed, Living>>, <<Long, Unnamed, Living>>}
MCLive == {thermo}

=============================================================================
