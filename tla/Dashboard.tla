------------------------------ MODULE Dashboard ------------------------------
(***************************************************************************)
(* From the dashboard in Home Assistant to what a finger on the panel      *)
(* hits. The websocket task parses an answer into s_views and s_entities   *)
(* (ha_lovelace); the UI task draws menu buttons, checkboxes and rows that *)
(* POINT into these arrays and draws them again when the event of the      *)
(* websocket task reaches it. shows is what the user reads, at is the      *)
(* array index behind it, counted from 1.                                  *)
(*                                                                         *)
(* A path or an id stands for its text. Requests and answers are reduced   *)
(* to their slot (LovelaceSlot has their interleavings), the connection to *)
(* CONNECTED and DISCONNECTED (HaSession). The UI task makes room in the   *)
(* queue before a post of the websocket task is given up.                  *)
(***************************************************************************)
EXTENDS Naturals, Sequences, FiniteSets, SequencesExt

CONSTANTS
  PerPage,    \* ENTITIES_PER_PAGE (6)
  MaxPages,   \* MAX_PAGES (5)
  MaxViews,   \* MAX_VIEWS (10)
  QueueCap,   \* depth of ha_event_queue (16)
  Dashboards, \* what HA can serve: sequences of views
  Live,       \* entities whose state HA reports
  Values      \* the states it reports

None == <<>>  \* no path, no id
Unavailable == "unavailable"

IsSeq(s) == s \in Seq(ToSet(s))

\* A view: its path (None without one), its cards, and those of its sections.
AreCards(cards) == IsSeq(cards) /\ \A i \in DOMAIN cards : IsSeq(cards[i].entities)

IsView(v) ==
  /\ AreCards(v.cards)
  /\ IsSeq(v.sections) /\ \A i \in DOMAIN v.sections : AreCards(v.sections[i])

ASSUME DashboardAssumption ==
  /\ PerPage \in Nat \ {0} /\ MaxPages \in Nat \ {0}
  /\ MaxViews \in Nat \ {0} /\ QueueCap \in Nat \ {0}
  /\ \A d \in Dashboards : IsSeq(d) /\ \A i \in DOMAIN d : IsView(d[i])
  /\ Unavailable \notin Values

MaxEntities == PerPage * MaxPages

VARIABLES
  answer,  \* the dashboard in the answer that is being handled
  pending, \* s_pending and s_pending_path, while an answer can still come
  wsPc,    \* where the websocket task is in ha_lovelace_handle_result
  list,    \* s_views: paths
  slots,   \* s_entities, as far as s_view_model uses it
  enabled, \* NVS enabled_views: paths in their order
  queue,   \* ha_event_queue
  screen,  \* the active screen
  menu,    \* the buttons of the menu
  boxes,   \* the checkboxes of the view settings
  drawn,   \* s_screen_entities exists
  rows,    \* its rows, in the order of the pages
  page,    \* s_cur_page
  popup    \* the entity the popup is about, while one is open

wsVars  == <<answer, wsPc, list, slots>>
rowVars == <<drawn, rows, page, popup>>
vars == <<wsVars, pending, enabled, queue, screen, menu, boxes, rowVars>>

----------------------------------------------------------------------------
(* Paths and view lists                                                    *)

Synth(i) == <<"#", i>>

\* s_views and s_pending_path keep 63 characters of a path.
Stored(p) == IF p[1] = "long" THEN <<"cut">> ELSE p

PathOf(d, i) == IF d[i].path = None THEN Synth(i - 1) ELSE d[i].path

\* Mutant of ListOf: the synthetic paths count from 1.
ListOfFromOne(d) ==
  [i \in 1..(IF Len(d) < MaxViews THEN Len(d) ELSE MaxViews) |->
     Stored(IF d[i].path = None THEN Synth(i) ELSE d[i].path)]

\* parse_view_list
ListOf(d) ==
  [i \in 1..(IF Len(d) < MaxViews THEN Len(d) ELSE MaxViews) |->
     Stored(PathOf(d, i))]

\* The first view with the requested path, 0 if there is none; no path is
\* the path of every view.
FindView(d, p) ==
  LET hits == {i \in DOMAIN d : p \in {None, PathOf(d, i)}}
  IN  IF hits = {} THEN 0 ELSE CHOOSE i \in hits : \A j \in hits : i <= j

----------------------------------------------------------------------------
(* Entities, widgets and pages                                             *)

WidgetOf == [switch |-> "toggle", input_boolean |-> "toggle",
             automation |-> "toggle", light |-> "light",
             climate |-> "climate", script |-> "button", scene |-> "button",
             button |-> "button", sensor |-> "label", binary_sensor |-> "label"]

\* entities_parse_domain and entities_resolve_widget; an id is <<domain, name>>.
Widget(id) == IF id[1] \in DOMAIN WidgetOf THEN WidgetOf[id[1]] ELSE "label"

CardIds(card) ==
  (IF card.entity = None THEN <<>> ELSE <<card.entity>>) \o card.entities

CardsIds(cards) == FlattenSeq([i \in DOMAIN cards |-> CardIds(cards[i])])

ViewIds(v) ==
  CardsIds(v.cards) \o FlattenSeq([i \in DOMAIN v.sections |-> CardsIds(v.sections[i])])

\* entity_id keeps 63 characters, of which the domain is the beginning.
StoredId(id) == IF id[2] = "long" THEN <<id[1], "cut">> ELSE id

Fits(id) == StoredId(id) = id

\* What is stored is compared with the whole id: one that does not fit is
\* added as often as it occurs.
AddEntity(ids, id) ==
  IF Len(ids) >= MaxEntities \/ \E i \in DOMAIN ids : ids[i] = id
    THEN ids ELSE Append(ids, StoredId(id))

\* The entities after each of the ids of a view.
CollectedUpTo(all) ==
  LET ids[n \in 0..Len(all)] ==
        IF n = 0 THEN <<>> ELSE AddEntity(ids[n - 1], all[n])
  IN  ids

Collected(all) == CollectedUpTo(all)[Len(all)]

\* extract_entities_from_view with fill_entity_defaults
Extract(v) ==
  LET ids == Collected(ViewIds(v))
  IN  [i \in DOMAIN ids |-> [id |-> ids[i], val |-> Unavailable]]

\* entities_build_pages: entity i, counted from 0, of n.
PageCount(n) == (n + PerPage - 1) \div PerPage
PageOf(i)    == i \div PerPage
SlotOf(i)    == i % PerPage

\* pages[p].count: one more than the slot filled last.
RowCount(n, p) ==
  LET on == {i \in 0..(n - 1) : PageOf(i) = p}
  IN  IF on = {} THEN 0 ELSE SlotOf(CHOOSE i \in on : \A j \in on : j <= i) + 1

EntityAt(n, p, s) == CHOOSE i \in 0..(n - 1) : PageOf(i) = p /\ SlotOf(i) = s

\* entities_find: the first slot with this id.
FindSlot(id) ==
  {k \in DOMAIN slots : slots[k].id = id /\ \A j \in 1..(k - 1) : slots[j].id # id}

----------------------------------------------------------------------------
(* What the screens draw                                                   *)

\* view_settings_is_enabled: no list enables every view.
IsEnabled(p) == enabled = <<>> \/ \E i \in DOMAIN enabled : enabled[i] = p

Buttons == [i \in DOMAIN list |-> [shows |-> list[i], at |-> i]]

\* A loop over seq that takes the members at the places in S.
KeptUpTo(seq, S) ==
  LET kept[n \in 0..Len(seq)] ==
        IF n = 0 THEN <<>>
        ELSE IF n \in S THEN Append(kept[n - 1], seq[n]) ELSE kept[n - 1]
  IN  kept

Kept(seq, S) == KeptUpTo(seq, S)[Len(seq)]

\* populate_list: a filter that leaves nothing is not applied.
MenuOf ==
  LET on == Kept(Buttons, {i \in DOMAIN list : IsEnabled(list[i])})
  IN  IF on = <<>> THEN Buttons ELSE on

BoxesOf == [i \in DOMAIN list |->
              [shows |-> list[i], at |-> i, on |-> IsEnabled(list[i])]]

\* ui_entities_create, one page after the other; ui_widgets registers every
\* row under its entity.
RowsOf ==
  LET n == Len(slots)
      RowAt(p, s) ==
        LET k == EntityAt(n, p, s) + 1
        IN  [shows |-> slots[k].id, at |-> k, val |-> slots[k].val,
             widget |-> Widget(slots[k].id)]
  IN  FlattenSeq([p \in 1..PageCount(n) |->
                    [s \in 1..RowCount(n, p - 1) |-> RowAt(p - 1, s - 1)]])

\* Mutant of DrawRows: the popup outlives the screen it was opened on.
DrawRowsUnderPopup ==
  /\ drawn' = TRUE
  /\ rows' = RowsOf
  /\ page' = 0
  /\ popup' = popup
  /\ screen' = "entities"

\* ui_manager_show_entities: the old screen goes with its popup.
DrawRows ==
  /\ drawn' = TRUE
  /\ rows' = RowsOf
  /\ page' = 0
  /\ popup' = {}
  /\ screen' = "entities"

\* Mutant of ShowMenu: the buttons stay as they are.
ShowMenuAsIs == screen' = "menu" /\ menu' = menu

\* ui_manager_show_view_menu
ShowMenu ==
  /\ screen' = "menu"
  /\ menu' = IF list = <<>> THEN menu ELSE MenuOf

Request(kind, path) == pending' = [kind |-> kind, path |-> path]

\* The answer can change the list or the rows any moment.
Settled ==
  /\ wsPc = "idle"
  /\ \A i \in DOMAIN queue : queue[i].type \notin {"VIEWS", "ENTITIES"}

Post(evt) == Len(queue) < QueueCap /\ queue' = Append(queue, evt)

----------------------------------------------------------------------------
(* The websocket task                                                      *)

uiSide == <<enabled, screen, menu, boxes, rowVars>>

\* parse_view_list with the answer, which is the dashboard as it is by now; a
\* request that fails changes nothing here.
WsList(d) ==
  /\ wsPc = "idle" /\ pending.kind # "none"
  /\ answer' = d
  /\ list' = ListOf(d)
  /\ wsPc' = "postViews"
  /\ UNCHANGED <<uiSide, queue, pending, slots>>

WsPostViews ==
  /\ wsPc = "postViews"
  /\ Post([type |-> "VIEWS"])
  /\ wsPc' = IF pending.kind = "entities" THEN "clear" ELSE "done"
  /\ UNCHANGED <<uiSide, pending, answer, list, slots>>

\* memset of s_entities and s_view_model
WsClear ==
  /\ wsPc = "clear"
  /\ slots' = <<>>
  /\ wsPc' = "extract"
  /\ UNCHANGED <<uiSide, queue, pending, answer, list>>

WsExtract ==
  /\ wsPc = "extract"
  /\ LET i == FindView(answer, pending.path)
     IN  slots' = IF i = 0 THEN <<>> ELSE Extract(answer[i])
  /\ wsPc' = "postEntities"
  /\ UNCHANGED <<uiSide, queue, pending, answer, list>>

WsPostEntities ==
  /\ wsPc = "postEntities"
  /\ Post([type |-> "ENTITIES"])
  /\ wsPc' = "done"
  /\ UNCHANGED <<uiSide, pending, answer, list, slots>>

\* The slot is cleared, with what the UI task has put there meanwhile.
WsDone ==
  /\ wsPc = "done"
  /\ Request("none", None)
  /\ wsPc' = "idle"
  /\ UNCHANGED <<uiSide, queue, answer, list, slots>>

\* state_changed of any entity, or an item of get_states, which is only
\* sent on for an entity of the view. Without room it is lost.
WsState(id, val) ==
  /\ wsPc = "idle"
  /\ Post([type |-> "STATE", id |-> id, val |-> val])
  /\ UNCHANGED <<uiSide, pending, wsVars>>

\* CONNECTED or DISCONNECTED; a loss takes the answers along.
WsLink(type) ==
  /\ wsPc = "idle"
  /\ Post([type |-> type])
  /\ IF type = "CONNECTED" THEN UNCHANGED pending ELSE Request("none", None)
  /\ UNCHANGED <<uiSide, wsVars>>

----------------------------------------------------------------------------
(* The UI task: events                                                     *)

Took(type) == queue # <<>> /\ Head(queue).type = type /\ queue' = Tail(queue)

SetupOpen == screen = "setup"

\* The paths NVS selected_view can have: of any list there has been.
ListPaths == UNION {ToSet(ListOf(d)) : d \in Dashboards}

\* The saved view is loaded when app_state is still that of a loss (which
\* HaSession follows); else the only enabled view is, otherwise the menu.
HandleConnected ==
  /\ Took("CONNECTED")
  /\ \/ SetupOpen /\ UNCHANGED <<pending, screen, menu>>
     \/ /\ ~SetupOpen
        /\ \E saved \in ListPaths : Request("entities", saved)
        /\ UNCHANGED <<screen, menu>>
     \/ /\ ~SetupOpen /\ Len(enabled) = 1
        /\ Request("entities", enabled[1])
        /\ UNCHANGED <<screen, menu>>
     \/ /\ ~SetupOpen /\ Len(enabled) # 1
        /\ ShowMenu
        /\ Request("views", pending.path)
  /\ UNCHANGED <<wsVars, enabled, boxes, rowVars>>

HandleDisconnected ==
  /\ Took("DISCONNECTED")
  /\ screen' = IF SetupOpen THEN "setup" ELSE "status"
  /\ UNCHANGED <<wsVars, pending, enabled, menu, boxes, rowVars>>

\* Mutant of HandleViews: the settings are not drawn again.
HandleViewsMenuOnly ==
  /\ Took("VIEWS")
  /\ menu' = MenuOf
  /\ UNCHANGED <<wsVars, pending, enabled, screen, boxes, rowVars>>

\* ui_manager_refresh_view_list
HandleViews ==
  /\ Took("VIEWS")
  /\ menu' = MenuOf
  /\ boxes' = BoxesOf
  /\ UNCHANGED <<wsVars, pending, enabled, screen, rowVars>>

HandleEntities ==
  /\ Took("ENTITIES")
  /\ IF SetupOpen THEN UNCHANGED <<screen, rowVars>> ELSE DrawRows
  /\ UNCHANGED <<wsVars, pending, enabled, menu, boxes>>

\* ui_entities_update and ui_widgets_update: the entity found in the model,
\* and the row registered for its place in the array.
HandleState ==
  /\ Took("STATE")
  /\ LET evt == Head(queue)
         hit == IF drawn THEN FindSlot(evt.id) ELSE {}
     IN  /\ slots' = [k \in DOMAIN slots |->
                        IF k \in hit THEN [slots[k] EXCEPT !.val = evt.val]
                        ELSE slots[k]]
         /\ rows' = [k \in DOMAIN rows |->
                        IF rows[k].at \in hit THEN [rows[k] EXCEPT !.val = evt.val]
                        ELSE rows[k]]
  /\ UNCHANGED <<answer, wsPc, list, pending, enabled, screen, menu,
                 boxes, drawn, page, popup>>

HandleEvent == \/ HandleConnected \/ HandleDisconnected \/ HandleViews
               \/ HandleEntities \/ HandleState

----------------------------------------------------------------------------
(* The UI task: taps                                                       *)

\* The path behind a button: the entries after the last view keep theirs.
PathBehind(b) == IF b.at \in DOMAIN list THEN list[b.at] ELSE b.shows

\* view_btn_cb takes the path the array holds now.
MenuSelect(i) ==
  /\ screen = "menu" /\ i \in DOMAIN menu
  /\ Request("entities", PathBehind(menu[i]))
  /\ UNCHANGED <<wsVars, enabled, queue, screen, menu, boxes, rowVars>>

\* The refresh buttons empty what they refresh.
MenuRefresh ==
  /\ screen = "menu"
  /\ menu' = <<>>
  /\ Request("views", pending.path)
  /\ UNCHANGED <<wsVars, enabled, queue, screen, boxes, rowVars>>

SettingsRefresh ==
  /\ screen = "settings"
  /\ boxes' = <<>>
  /\ Request("views", pending.path)
  /\ UNCHANGED <<wsVars, enabled, queue, screen, menu, rowVars>>

\* checkbox_cb: save_from_checkboxes writes the paths the array holds now.
SettingsToggle(i) ==
  /\ screen = "settings" /\ i \in DOMAIN boxes
  /\ boxes' = [boxes EXCEPT ![i].on = ~boxes[i].on]
  /\ LET on == Kept(boxes', {k \in DOMAIN boxes : boxes'[k].on})
     IN  enabled' = [k \in DOMAIN on |-> PathBehind(on[k])]
  /\ UNCHANGED <<wsVars, pending, queue, screen, menu, rowVars>>

\* views_btn_cb of the status page; the first visit asks for an empty list.
StatusViews ==
  /\ screen = "status"
  /\ screen' = "settings"
  /\ boxes' = BoxesOf
  /\ \/ list = <<>> /\ Request("views", pending.path)
     \/ UNCHANGED pending
  /\ UNCHANGED <<wsVars, enabled, queue, menu, rowVars>>

\* Mutant of StatusBack: a screen that is still there is loaded as it is.
StatusBackAsIs ==
  /\ screen = "status"
  /\ \/ slots # <<>> /\ drawn /\ screen' = "entities" /\ UNCHANGED <<menu, rowVars>>
     \/ slots # <<>> /\ ~drawn /\ DrawRows /\ UNCHANGED menu
     \/ slots = <<>> /\ ShowMenu /\ UNCHANGED rowVars
  /\ UNCHANGED <<wsVars, pending, enabled, queue, boxes>>

\* back_btn_cb of the status page
StatusBack ==
  /\ screen = "status"
  /\ \/ slots # <<>> /\ DrawRows /\ UNCHANGED menu
     \/ slots = <<>> /\ ShowMenu /\ UNCHANGED rowVars
  /\ UNCHANGED <<wsVars, pending, enabled, queue, boxes>>

\* The gear of the menu and of the status page; the way back from the
\* settings; the exit of the setup screen and the menu button of the view.
ShowSetup ==
  /\ screen \in {"menu", "status"}
  /\ screen' = "setup"
  /\ UNCHANGED <<wsVars, pending, enabled, queue, menu, boxes, rowVars>>

ShowStatus ==
  /\ screen = "settings" \/ (screen = "entities" /\ popup = {})
  /\ screen' = "status"
  /\ UNCHANGED <<wsVars, pending, enabled, queue, menu, boxes, rowVars>>

BackToMenu ==
  /\ SetupOpen \/ (screen = "entities" /\ popup = {})
  /\ ShowMenu
  /\ UNCHANGED <<wsVars, pending, enabled, queue, boxes, rowVars>>

\* gesture_cb: a vertical swipe, which the popup keeps to itself.
Pages == IF rows = <<>> THEN 1 ELSE PageCount(Len(rows))

\* Mutant of Swipe: one page too many.
SwipeTooFar ==
  /\ screen = "entities" /\ popup = {}
  /\ page' \in {page + 1, page - 1} \cap 0..Pages
  /\ UNCHANGED <<wsVars, pending, enabled, queue, screen, menu, boxes, drawn,
                 rows, popup>>

Swipe ==
  /\ screen = "entities" /\ popup = {}
  /\ page' \in {page + 1, page - 1} \cap 0..(Pages - 1)
  /\ UNCHANGED <<wsVars, pending, enabled, queue, screen, menu, boxes, drawn,
                 rows, popup>>

\* hvac_mode_btn_cb and fan_mode_btn_cb, once HA has sent the modes.
OpenPopup(i) ==
  /\ screen = "entities" /\ popup = {}
  /\ i \in DOMAIN rows /\ PageOf(i - 1) = page
  /\ rows[i].widget = "climate" /\ rows[i].val # Unavailable
  /\ popup' = {[shows |-> rows[i].shows, at |-> rows[i].at]}
  /\ UNCHANGED <<wsVars, pending, enabled, queue, screen, menu, boxes, drawn,
                 rows, page>>

\* A choice or a tap beside the panel.
ClosePopup ==
  /\ screen = "entities" /\ popup # {}
  /\ popup' = {}
  /\ UNCHANGED <<wsVars, pending, enabled, queue, screen, menu, boxes, drawn,
                 rows, page>>

Tap == \/ \E i \in DOMAIN menu : MenuSelect(i)
       \/ MenuRefresh \/ SettingsRefresh
       \/ \E i \in DOMAIN boxes : SettingsToggle(i)
       \/ StatusViews \/ StatusBack \/ ShowSetup \/ ShowStatus \/ BackToMenu
       \/ Swipe \/ ClosePopup
       \/ \E i \in DOMAIN rows : OpenPopup(i)

----------------------------------------------------------------------------
(* The specification                                                       *)

Init ==
  /\ answer = <<>> /\ pending = [kind |-> "none", path |-> None]
  /\ wsPc = "idle" /\ list = <<>> /\ slots = <<>>
  /\ enabled = <<>> /\ queue = <<>>
  /\ screen = "menu" /\ menu = <<>> /\ boxes = <<>>
  /\ drawn = FALSE /\ rows = <<>> /\ page = 0 /\ popup = {}

Websocket ==
  \/ \E d \in Dashboards : WsList(d)
  \/ WsPostViews \/ WsClear \/ WsExtract \/ WsPostEntities \/ WsDone
  \/ \E id \in Live, val \in Values : WsState(id, val)
  \/ \E type \in {"CONNECTED", "DISCONNECTED"} : WsLink(type)

Next == Websocket \/ HandleEvent \/ Tap

Spec == Init /\ [][Next]_vars

----------------------------------------------------------------------------
(* Properties                                                              *)

Cut(n, max) == IF n < max THEN n ELSE max

\* The first places of the members of seq.
FirstPlaces(seq) == {i \in DOMAIN seq : \A j \in 1..(i - 1) : seq[j] # seq[i]}

ServedIds ==
  UNION {UNION {ToSet(ViewIds(d[i])) : i \in DOMAIN d} : d \in Dashboards}
AllIds == ServedIds \cup {StoredId(id) : id \in ServedIds}
PathsOf(d) == {PathOf(d, i) : i \in DOMAIN d} \cup ToSet(ListOf(d))
AllPaths == {None} \cup UNION {PathsOf(d) : d \in Dashboards}

Entity == [id : AllIds, val : Values \cup {Unavailable}]
Button == [shows : AllPaths, at : 1..MaxViews]
Box    == [shows : AllPaths, at : 1..MaxViews, on : BOOLEAN]
Row    == [shows : AllIds, at : 1..MaxEntities, val : Values \cup {Unavailable},
           widget : {"toggle", "light", "climate", "button", "label"}]
Event  == [type : {"CONNECTED", "DISCONNECTED", "VIEWS", "ENTITIES"}]
             \cup [type : {"STATE"}, id : Live, val : Values]

Within(seq, S, max) == seq \in Seq(S) /\ Len(seq) <= max

\* The arrays never overflow and the page that is shown exists: s_pages has
\* no entry for another one (show_page, ui_entities.c:35).
TypeOK ==
  /\ answer \in Dashboards \cup {<<>>}
  /\ pending \in [kind : {"none", "views", "entities"}, path : AllPaths]
  /\ wsPc \in {"idle", "postViews", "clear", "extract", "postEntities", "done"}
  /\ Within(list, AllPaths, MaxViews) /\ Within(slots, Entity, MaxEntities)
  /\ Within(enabled, AllPaths, MaxViews)
  /\ Within(queue, Event, QueueCap)
  /\ screen \in {"setup", "status", "menu", "settings", "entities"}
  /\ Within(menu, Button, MaxViews) /\ Within(boxes, Box, MaxViews)
  /\ drawn \in BOOLEAN /\ Within(rows, Row, MaxEntities)
  /\ page \in 0..(MaxPages - 1) /\ page < Pages
  /\ popup \subseteq [shows : AllIds, at : 1..MaxEntities]

\* The menu holds exactly the views that are enabled, in their order, and all
\* of them when none is; and every button loads the view it names, although
\* it only holds a pointer into an array that is parsed anew with every
\* answer, and the selection changes on another screen (populate_list).
MenuTrue ==
  Settled /\ screen = "menu" /\ menu # <<>> =>
    LET on == {i \in DOMAIN list : list[i] \in ToSet(enabled)}
    IN  /\ \A k \in DOMAIN menu : PathBehind(menu[k]) = menu[k].shows
        /\ \A k \in 2..Len(menu) : menu[k - 1].at < menu[k].at
        /\ {menu[k].at : k \in DOMAIN menu} = IF on = {} THEN DOMAIN list ELSE on

\* A checkbox stands for the view it names and shows whether the stored
\* selection has it, so that the next change of any box, which writes the
\* selection anew from all of them, alters nothing else (populate,
\* save_from_checkboxes).
BoxesTrue ==
  Settled /\ screen = "settings" =>
    \A k \in DOMAIN boxes :
      /\ PathBehind(boxes[k]) = boxes[k].shows
      /\ enabled # <<>> => (boxes[k].on <=> boxes[k].shows \in ToSet(enabled))

\* The rows in front of the user are the entities of the model, each on the
\* page and in the place it has there, with its value and the widget of its
\* domain, whatever was reloaded, reported or skipped while another screen
\* was active; a row acts on the entity it names (ui_entities_create).
RowsTrue ==
  Settled /\ screen = "entities" =>
    /\ Len(rows) = Len(slots)
    /\ \A i \in DOMAIN rows :
         /\ rows[i].at = i
         /\ rows[i].shows = slots[i].id
         /\ rows[i].val = slots[i].val
         /\ rows[i].widget = Widget(slots[i].id)

\* The open popup sends its choice to the climate entity it was opened on
\* (s_popup_ent points into the array that is refilled).
PopupTrue ==
  Settled /\ screen = "entities" =>
    \A p \in popup : p.at \in DOMAIN slots /\ slots[p.at].id = p.shows

\* The view that was loaded under a path of the menu is the view the menu
\* names by it, which matters where both loops of ha_lovelace_handle_result
\* make up a path of their own; and its entities are all there, each once and
\* in the order of the cards, as far as the array reaches. A path that does
\* not fit the array is the exception: no view has the path that is kept. So
\* is a view with an id that does not fit: it is listed as often as it occurs.
LoadsTheView ==
  [][wsPc = "extract" /\ wsPc' = "postEntities" =>
       \A j \in DOMAIN list :
         /\ pending.path = list[j] /\ answer[j].path \in {None, list[j]}
         /\ \A id \in ToSet(ViewIds(answer[j])) : Fits(id)
         =>
           LET all   == ViewIds(answer[j])
               first == FirstPlaces(all)
           IN  /\ Len(slots') = Cut(Cardinality(first), MaxEntities)
               /\ \A i \in first :
                    LET k == Cardinality({f \in first : f <= i})
                    IN  k <= MaxEntities => slots'[k].id = all[i]]_vars

=============================================================================
