------------------------------ MODULE HaSession ------------------------------
(***************************************************************************)
(* The Home Assistant session of the controller: the ha_ws task            *)
(* (ha_client_run), the websocket task of esp_websocket_client with the    *)
(* firmware's event handler, and the UI task (app_events_handle, the       *)
(* screens and the user's taps). They share app_state, the bounded         *)
(* ha_event_queue, s_client and the pending slot of ha_lovelace.           *)
(*                                                                         *)
(* The device is configured (NVS "configured" = 1) and has WiFi            *)
(* credentials; a restart is a new behaviour, so Init ranges over what NVS *)
(* can hold. Message ids and the torn accesses to the pending slot are     *)
(* left out here: "asked" says that an answer to the request in the slot   *)
(* can still arrive.                                                       *)
(***************************************************************************)
EXTENDS Naturals, Sequences

CONSTANTS
  QueueCap,     \* depth of ha_event_queue (16 in main.c)
  BackoffCount, \* entries of BACKOFF_MS (5)
  Taps,         \* what the user does in this instance, see AllTaps
  Env,          \* what the surroundings do in this instance, see AllEnv
  Prompt        \* TRUE: the UI task is never so late that a post to the
                \* queue is dropped or its 2 s wait for a lock expires

AllTaps == {"select", "refresh", "command", "status", "views", "setup", "wizard"}
AllEnv  == {"ha_down", "ha_rejects", "ha_closes", "wifi_drops",
            "bad_answer", "traffic", "slow_connect"}

ASSUME SessionAssumption ==
  /\ QueueCap \in Nat \ {0}
  /\ BackoffCount \in Nat \ {0}
  /\ Taps \subseteq AllTaps
  /\ Env \subseteq AllEnv
  /\ Prompt \in BOOLEAN

VARIABLES
  haPc,         \* where ha_client_run is
  retry,        \* wifi_retry, later backoff_idx
  client,       \* s_client # NULL
  ws,           \* client->state of the current websocket client
  auth,         \* HA's side of the authentication phase
  wsPc,         \* where the websocket task is in its handler
  out,          \* the event the websocket task is posting, or None
  queue,        \* ha_event_queue
  app,          \* app_state
  screen,       \* the active LVGL screen
  authFailed,   \* s_auth_failed of ui_status
  saved,        \* NVS selected_view is not empty
  single,       \* NVS enabled_views names exactly one view
  settingsMade, \* s_screen_view_settings exists
  pending,      \* s_pending
  asked,        \* the answer to the request in the slot can still arrive
  viewsLoaded,  \* s_view_count > 0
  model,        \* s_view_model.total_entities > 0
  built,        \* history: an entities answer has been processed since boot
  cut,          \* history: of this session's end the app is not told after its
                \* CONNECTED: a write failed between auth_ok and CONNECTED, or
                \* the server closed it
  lossTold,     \* history: the UI was told of a loss since the last CONNECTED
  wifi,         \* the station's link to the access point
  ha            \* Home Assistant: serving, unreachable or refusing the token

haVars   == <<haPc, retry, client>>
sockVars == <<ws, auth>>
wsVars   == <<wsPc, out>>
slotVars == <<pending, asked>>
dataVars == <<viewsLoaded, model, built, cut>>
nvsVars  == <<saved, single>>
uiVars   == <<screen, authFailed, settingsMade, lossTold>>
envVars  == <<wifi, ha>>
vars == <<haVars, sockVars, wsVars, queue, app, uiVars, nvsVars, slotVars,
          dataVars, envVars>>

None == "none"

EventTypes == {"CONNECTED", "DISCONNECTED", "AUTH_FAILED", "VIEWS_LOADED",
               "ENTITIES_LOADED", "STATE_CHANGED"}
AppStates  == {"SETUP_WIZARD", "WIFI_CONNECTING", "HA_CONNECTING", "HA_AUTH",
               "VIEW_SELECT", "ENTITIES_LOADING", "VIEW_READY", "DISCONNECTED"}
HaPcs      == {"wifi", "wifiWait", "wifiBackoff", "connect", "await", "poll",
               "stopping", "backoff"}
SockStates == {"unknown", "init", "connected", "wait_timeout"}
AuthStates == {None, "required", "sent", "ok", "invalid"}
Screens    == {"setup", "menu", "settings", "entities", "status"}

\* ui_status: the states in which the status page says "Verbonden".
Online == app \in {"VIEW_SELECT", "ENTITIES_LOADING", "VIEW_READY"}

LinkDead == ha = "down" \/ wifi # "up"
LinkUp   == ws = "connected" /\ auth = "ok"

----------------------------------------------------------------------------
(* The event queue: a post waits up to 200 ms for room and is then dropped *)

Room(q) == Len(q) < QueueCap

PostOrDrop(q, evt) == IF Room(q) THEN Append(q, evt) ELSE q

\* A post by another task than the UI task: with Prompt the UI task makes
\* room before the timeout, so the poster just waits.
Post(evt) ==
  \/ Room(queue) /\ queue' = Append(queue, evt)
  \/ ~Room(queue) /\ ~Prompt /\ queue' = queue

\* The websocket task is inside its event handler and holds client->lock.
WsBusy == wsPc # "run" \/ out # None

\* What the UI task sends now reaches HA and will be answered there.
Reaches == ws = "connected" /\ auth \in {"sent", "ok"}

----------------------------------------------------------------------------
(* esp_websocket_client_send_text, called by the UI task. q is the queue   *)
(* the caller leaves behind.                                               *)

\* Mutant of SendFails: a write error that is not reported.
SendFailsSilently(q) ==
  /\ ws = "connected" /\ LinkDead /\ ~WsBusy
  /\ ws' = "wait_timeout"
  /\ auth' = None
  /\ asked' = FALSE
  /\ queue' = q

\* A failing write ends the connection: ERROR and DISCONNECTED are
\* dispatched in the UI task itself, which cannot drain its queue meanwhile.
SendFails(q) ==
  /\ ws = "connected" /\ LinkDead /\ ~WsBusy
  /\ Prompt => Len(q) + 2 <= QueueCap
  /\ ws' = "wait_timeout"
  /\ auth' = None
  /\ asked' = FALSE
  /\ queue' = PostOrDrop(PostOrDrop(q, "DISCONNECTED"), "DISCONNECTED")

\* A message whose answer nobody waits for: call_service, get_states.
Send(q) ==
  \/ SendFails(q) /\ UNCHANGED pending
  \/ queue' = q /\ UNCHANGED <<sockVars, slotVars>>

\* ha_client_get_views and ha_client_load_view: the slot is overwritten
\* whether or not the message leaves. Behind a busy websocket task the send
\* may give up on the lock after 2 s.
Request(kind, q) ==
  \/ ~client /\ queue' = q /\ UNCHANGED <<sockVars, slotVars>>
  \/ client /\ pending' = kind /\ SendFails(q)
  \/ /\ client /\ pending' = kind
     /\ queue' = q
     /\ \/ asked' = Reaches
        \/ ~Prompt /\ WsBusy /\ asked' = FALSE
     /\ UNCHANGED sockVars

----------------------------------------------------------------------------
(* The ha_ws task: ha_client_run                                           *)

\* Mutant of NextBackoff: past the end of BACKOFF_MS.
NextBackoffUnbounded == retry + 1

NextBackoff == IF retry < BackoffCount - 1 THEN retry + 1 ELSE retry

WifiAttempt ==
  /\ haPc = "wifi"
  /\ haPc' = "wifiWait"
  /\ app' = "WIFI_CONNECTING"
  /\ wifi' = "joining"
  /\ UNCHANGED <<retry, client, sockVars, wsVars, queue, uiVars, nvsVars,
                 slotVars, dataVars, ha>>

WifiJoined ==
  /\ haPc = "wifiWait" /\ wifi = "up"
  /\ haPc' = "connect"
  /\ retry' = 0
  /\ UNCHANGED <<client, sockVars, wsVars, queue, app, uiVars, nvsVars,
                 slotVars, dataVars, envVars>>

WifiTimeout ==
  /\ haPc = "wifiWait" /\ wifi # "up"
  /\ Post("DISCONNECTED")
  /\ haPc' = "wifiBackoff"
  /\ UNCHANGED <<retry, client, sockVars, wsVars, app, uiVars, nvsVars,
                 slotVars, dataVars, envVars>>

WifiRetry ==
  /\ haPc = "wifiBackoff"
  /\ haPc' = "wifi"
  /\ retry' = NextBackoff
  /\ UNCHANGED <<client, sockVars, wsVars, queue, app, uiVars, nvsVars,
                 slotVars, dataVars, envVars>>

\* Mutant of HaConnect: without app_state_set.
HaConnectKeepsState ==
  /\ haPc = "connect"
  /\ client' = TRUE
  /\ ws' = "init"
  /\ haPc' = "await"
  /\ cut' = FALSE
  /\ UNCHANGED <<retry, auth, wsVars, queue, app, uiVars, nvsVars, slotVars,
                 viewsLoaded, model, built, envVars>>

\* The top of the loop, with connect_once.
HaConnect ==
  /\ haPc = "connect"
  /\ app' = "HA_CONNECTING"
  /\ client' = TRUE
  /\ ws' = "init"
  /\ haPc' = "await"
  /\ cut' = FALSE
  /\ UNCHANGED <<retry, auth, wsVars, queue, uiVars, nvsVars, slotVars,
                 viewsLoaded, model, built, envVars>>

SeesConnected ==
  /\ haPc = "await" /\ ws = "connected"
  /\ haPc' = "poll"
  /\ retry' = 0
  /\ UNCHANGED <<client, sockVars, wsVars, queue, app, uiVars, nvsVars,
                 slotVars, dataVars, envVars>>

\* The end of the loop: esp_websocket_client_stop makes run FALSE and waits
\* for the websocket task.
StopClient ==
  /\ haPc' = "stopping"
  /\ UNCHANGED <<retry, client, sockVars, wsVars, queue, app, uiVars, nvsVars,
                 slotVars, dataVars, envVars>>

\* 150 polls of 100 ms without a connection. Connecting to a live server
\* takes that long only where Env has "slow_connect".
AwaitTimeout ==
  /\ haPc = "await" /\ ws # "connected"
  /\ ws = "init" => LinkDead \/ "slow_connect" \in Env
  /\ StopClient

\* Mutant of SeesLost: only a failed connection counts as lost.
SeesLostAfterFailure == haPc = "poll" /\ ws = "wait_timeout" /\ StopClient

SeesLost == haPc = "poll" /\ ws # "connected" /\ StopClient

\* Mutant of DestroyClient: the stop does not wait for the task.
DestroyClientEarly ==
  /\ haPc = "stopping"
  /\ client' = FALSE
  /\ haPc' = "backoff"
  /\ UNCHANGED <<retry, sockVars, wsVars, queue, app, uiVars, nvsVars,
                 slotVars, dataVars, envVars>>

\* esp_websocket_client_destroy. A task that ends by itself (WsGiveUp,
\* WsCloses) posts nothing between run = FALSE, after which the stop no
\* longer waits for it, and its end: that stretch is one step here.
DestroyClient ==
  /\ haPc = "stopping" /\ ws = "unknown"
  /\ client' = FALSE
  /\ haPc' = "backoff"
  /\ UNCHANGED <<retry, sockVars, wsVars, queue, app, uiVars, nvsVars,
                 slotVars, dataVars, envVars>>

\* At least 5 s: a prompt UI task has emptied the queue by then.
BackoffOver ==
  /\ haPc = "backoff"
  /\ Prompt => queue = <<>>
  /\ haPc' = "connect"
  /\ retry' = NextBackoff
  /\ UNCHANGED <<client, sockVars, wsVars, queue, app, uiVars, nvsVars,
                 slotVars, dataVars, envVars>>

HaWifi == WifiAttempt \/ WifiJoined \/ WifiTimeout \/ WifiRetry
HaLoop == \/ HaConnect \/ SeesConnected \/ AwaitTimeout \/ SeesLost
          \/ DestroyClient \/ BackoffOver
HaTask == HaWifi \/ HaLoop

----------------------------------------------------------------------------
(* The websocket task                                                      *)

\* The task is between two messages.
WsIdle == wsPc = "run" /\ out = None

\* client->run, until WAIT_TIMEOUT or CLOSING ends the task anyway.
ClientRuns == haPc # "stopping"

WsPost ==
  /\ out # None
  /\ Post(out)
  /\ out' = None
  /\ UNCHANGED <<haVars, sockVars, wsPc, app, uiVars, nvsVars, slotVars,
                 dataVars, envVars>>

WsConnectOk ==
  /\ WsIdle /\ ws = "init" /\ ~LinkDead
  /\ ws' = "connected"
  /\ auth' = "required"
  /\ app' = "HA_AUTH"
  /\ UNCHANGED <<haVars, wsVars, queue, uiVars, nvsVars, slotVars, dataVars,
                 envVars>>

\* A failed connect or a broken link: esp_websocket_client_error, whose
\* event is the first DISCONNECTED, and WsAbort for the second.
WsFails ==
  /\ WsIdle /\ LinkDead
  /\ ws = "init" \/ (ws = "connected" /\ ClientRuns)
  /\ out' = "DISCONNECTED"
  /\ wsPc' = "abort"
  /\ UNCHANGED <<haVars, sockVars, queue, app, uiVars, nvsVars, slotVars,
                 dataVars, envVars>>

\* esp_websocket_client_abort_connection, from the loop of the task or from a
\* write of its own handler, which goes on afterwards.
WsAbort ==
  /\ \/ wsPc = "abort" /\ wsPc' = "run"
     \/ wsPc = "greetAbort" /\ wsPc' = "tell"
  /\ out = None
  /\ ws' = "wait_timeout"
  /\ auth' = None
  /\ asked' = FALSE
  /\ out' = "DISCONNECTED"
  /\ UNCHANGED <<haVars, queue, app, uiVars, nvsVars, pending, dataVars,
                 envVars>>

\* Mutant of WsGiveUp: the library reconnects by itself.
WsGiveUpReconnects ==
  /\ WsIdle /\ ws = "wait_timeout"
  /\ ws' = "init"
  /\ UNCHANGED <<haVars, auth, wsVars, queue, app, uiVars, nvsVars, slotVars,
                 dataVars, envVars>>

\* disable_auto_reconnect: in WAIT_TIMEOUT the task ends by itself.
WsGiveUp ==
  /\ WsIdle /\ ws = "wait_timeout"
  /\ ws' = "unknown"
  /\ UNCHANGED <<haVars, auth, wsVars, queue, app, uiVars, nvsVars, slotVars,
                 dataVars, envVars>>

\* run = FALSE: the task leaves its loop without an event.
WsExit ==
  /\ WsIdle /\ ~ClientRuns /\ ws = "connected"
  /\ ws' = "unknown"
  /\ auth' = None
  /\ asked' = FALSE
  /\ UNCHANGED <<haVars, wsVars, queue, app, uiVars, nvsVars, pending,
                 dataVars, envVars>>

\* A close frame: the library reports WEBSOCKET_EVENT_CLOSED, which the
\* handler ignores.
WsCloses ==
  /\ WsIdle /\ ws = "connected" /\ ClientRuns
  /\ ws' = "unknown"
  /\ auth' = None
  /\ asked' = FALSE
  /\ cut' = (cut \/ auth # "invalid")
  /\ UNCHANGED <<haVars, wsVars, queue, app, uiVars, nvsVars, pending,
                 viewsLoaded, model, built, envVars>>

\* HA ends the connection after it has refused the token.
WsCloseRefused == auth = "invalid" /\ ~LinkDead /\ WsCloses

\* HA shuts down in an orderly way.
WsCloseShutdown ==
  "ha_closes" \in Env /\ ha = "down" /\ wifi = "up" /\ WsCloses

\* A message of HA arrives at an idle task.
WsReceives == WsIdle /\ ws = "connected" /\ ClientRuns /\ ~LinkDead

WsAuthRequired ==
  /\ WsReceives /\ auth = "required"
  /\ auth' = "sent"
  /\ UNCHANGED <<haVars, ws, wsVars, queue, app, uiVars, nvsVars, slotVars,
                 dataVars, envVars>>

\* auth_ok is handled in three steps: two messages, then CONNECTED.
WsAuthOk ==
  /\ WsReceives /\ auth = "sent" /\ ha = "up"
  /\ auth' = "ok"
  /\ wsPc' = "greet"
  /\ UNCHANGED <<haVars, ws, out, queue, app, uiVars, nvsVars, slotVars,
                 dataVars, envVars>>

\* get_states and subscribe_events. The task holds the lock, so they never
\* time out; on a broken link the first one that is written ends the
\* connection, with the events of WsFails, and the other is refused.
WsGreet ==
  /\ wsPc = "greet" /\ out = None
  /\ \/ wsPc' = "tell" /\ UNCHANGED <<out, cut>>
     \/ /\ LinkDead
        /\ wsPc' = "greetAbort"
        /\ out' = "DISCONNECTED"
        /\ cut' = TRUE
  /\ UNCHANGED <<haVars, sockVars, queue, app, uiVars, nvsVars, slotVars,
                 viewsLoaded, model, built, envVars>>

\* Whatever became of the two messages, the app is told of a connection.
WsTellConnected ==
  /\ wsPc = "tell" /\ out = None
  /\ out' = "CONNECTED"
  /\ wsPc' = "run"
  /\ UNCHANGED <<haVars, sockVars, queue, app, uiVars, nvsVars, slotVars,
                 dataVars, envVars>>

WsAuthInvalid ==
  /\ WsReceives /\ auth = "sent" /\ ha = "rejects"
  /\ auth' = "invalid"
  /\ out' = "AUTH_FAILED"
  /\ UNCHANGED <<haVars, ws, wsPc, queue, app, uiVars, nvsVars, slotVars,
                 dataVars, envVars>>

\* The answer to the request in the slot: the view list is parsed and
\* VIEWS_LOADED posted before the slot is looked at again. A failed request,
\* a null result or an unreadable one returns early and leaves the slot. The
\* list may be empty, and is then announced all the same.
WsLovelaceAnswer ==
  /\ WsReceives /\ auth = "ok" /\ asked
  /\ asked' = FALSE
  /\ \/ /\ viewsLoaded' \in BOOLEAN
        /\ out' = "VIEWS_LOADED"
        /\ wsPc' = "views"
     \/ /\ "bad_answer" \in Env
        /\ UNCHANGED <<viewsLoaded, out, wsPc>>
  /\ UNCHANGED <<haVars, sockVars, queue, app, uiVars, nvsVars, pending,
                 model, built, cut, envVars>>

\* s_pending is read again: a list request is done, of a view request the
\* entities are extracted (none, when the view no longer exists).
WsAfterViews ==
  /\ wsPc = "views" /\ out = None
  /\ \/ pending # "entities" /\ UNCHANGED <<model, built, out>>
     \/ /\ pending = "entities"
        /\ model' \in BOOLEAN /\ (model' => viewsLoaded)
        /\ built' = TRUE
        /\ out' = "ENTITIES_LOADED"
  /\ wsPc' = "clear"
  /\ UNCHANGED <<haVars, sockVars, queue, app, uiVars, nvsVars, slotVars,
                 viewsLoaded, cut, envVars>>

\* The slot is cleared, whatever the UI task wrote into it meanwhile.
WsClearSlot ==
  /\ wsPc = "clear" /\ out = None
  /\ pending' = None
  /\ asked' = FALSE
  /\ wsPc' = "run"
  /\ UNCHANGED <<haVars, sockVars, out, queue, app, uiVars, nvsVars, dataVars,
                 envVars>>

\* state_changed is dropped at once when there is no room, an item of the
\* get_states answer after 100 ms.
WsStateChanged ==
  /\ "traffic" \in Env /\ WsReceives /\ auth = "ok"
  /\ queue' = PostOrDrop(queue, "STATE_CHANGED")
  /\ UNCHANGED <<haVars, sockVars, wsVars, app, uiVars, nvsVars, slotVars,
                 dataVars, envVars>>

\* What the websocket task does on its own account and does not put off.
WsProgress == \/ WsPost \/ WsConnectOk \/ WsFails \/ WsAbort
              \/ WsGiveUp \/ WsExit \/ WsAuthRequired \/ WsAuthOk
              \/ WsGreet \/ WsTellConnected \/ WsAuthInvalid
              \/ WsAfterViews \/ WsClearSlot \/ WsCloseRefused
WsTask == WsProgress \/ WsLovelaceAnswer \/ WsCloseShutdown \/ WsStateChanged

----------------------------------------------------------------------------
(* The UI task: app_events_handle, one event per step                      *)

SetupOpen == screen = "setup"

\* The event at the head of the queue.
HeadIs(evt) == queue # <<>> /\ Head(queue) = evt

\* Loading the one view there is to show: the saved view after a loss, or
\* the only enabled view, which then becomes the saved view.
LoadsView == (app = "DISCONNECTED" /\ saved) \/ single

\* Mutant of HandleConnected: the view list is asked for next to the view,
\* and overwrites the request in the slot.
HandleConnectedAsksTwice ==
  /\ HeadIs("CONNECTED") /\ ~SetupOpen
  /\ lossTold' = FALSE
  /\ authFailed' = FALSE
  /\ app' = IF LoadsView THEN "ENTITIES_LOADING" ELSE "VIEW_SELECT"
  /\ Request("views", Tail(queue))
  /\ UNCHANGED <<haVars, wsVars, screen, settingsMade, nvsVars, dataVars, envVars>>

\* Mutant of HandleConnected: the token error is not taken back.
HandleConnectedKeepsError ==
  /\ HeadIs("CONNECTED") /\ ~SetupOpen
  /\ lossTold' = FALSE
  /\ app' = "VIEW_SELECT"
  /\ screen' = "menu"
  /\ Request("views", Tail(queue))
  /\ UNCHANGED <<haVars, wsVars, authFailed, settingsMade, nvsVars, dataVars,
                 envVars>>

HandleConnected ==
  /\ HeadIs("CONNECTED")
  /\ lossTold' = FALSE
  /\ \/ /\ SetupOpen
        /\ queue' = Tail(queue)
        /\ UNCHANGED <<sockVars, slotVars, app, screen, authFailed, saved>>
     \/ /\ ~SetupOpen /\ LoadsView
        /\ app' = "ENTITIES_LOADING"
        /\ saved' = TRUE
        /\ authFailed' = FALSE
        /\ Request("entities", Tail(queue))
        /\ UNCHANGED screen
     \/ /\ ~SetupOpen /\ ~LoadsView
        /\ app' = "VIEW_SELECT"
        /\ screen' = "menu"
        /\ authFailed' = FALSE
        /\ Request("views", Tail(queue))
        /\ UNCHANGED saved
  /\ UNCHANGED <<haVars, wsVars, settingsMade, single, dataVars, envVars>>

\* Mutant of ToldOfLoss: the status page comes up over the setup screen.
ToldOfLossInSetup ==
  /\ app' = "DISCONNECTED"
  /\ screen' = "status"
  /\ lossTold' = TRUE
  /\ queue' = Tail(queue)
  /\ UNCHANGED <<haVars, sockVars, wsVars, settingsMade, nvsVars, slotVars,
                 dataVars, envVars>>

\* ui_manager_show_disconnected
ToldOfLoss ==
  /\ app' = "DISCONNECTED"
  /\ screen' = IF SetupOpen THEN screen ELSE "status"
  /\ lossTold' = TRUE
  /\ queue' = Tail(queue)
  /\ UNCHANGED <<haVars, sockVars, wsVars, settingsMade, nvsVars, slotVars,
                 dataVars, envVars>>

HandleDisconnected ==
  HeadIs("DISCONNECTED") /\ ToldOfLoss /\ UNCHANGED authFailed

HandleAuthFailed ==
  HeadIs("AUTH_FAILED") /\ ToldOfLoss /\ authFailed' = TRUE

\* Both only redraw what the screens show.
HandleRedraw ==
  /\ HeadIs("VIEWS_LOADED") \/ HeadIs("STATE_CHANGED")
  /\ queue' = Tail(queue)
  /\ UNCHANGED <<haVars, sockVars, wsVars, app, uiVars, nvsVars, slotVars,
                 dataVars, envVars>>

HandleEntitiesLoaded ==
  /\ HeadIs("ENTITIES_LOADED")
  /\ \/ /\ SetupOpen
        /\ queue' = Tail(queue)
        /\ UNCHANGED <<sockVars, slotVars, app, screen>>
     \/ /\ ~SetupOpen
        /\ app' = "VIEW_READY"
        /\ screen' = "entities"
        /\ Send(Tail(queue))
  /\ UNCHANGED <<haVars, wsVars, authFailed, settingsMade, lossTold, nvsVars,
                 dataVars, envVars>>

HandleEvent == \/ HandleConnected \/ HandleDisconnected \/ HandleAuthFailed
               \/ HandleRedraw \/ HandleEntitiesLoaded

----------------------------------------------------------------------------
(* The UI task: taps                                                       *)

\* A tap that only changes the screen.
Show(scr) ==
  /\ screen' = scr
  /\ UNCHANGED <<haVars, sockVars, wsVars, queue, app, authFailed,
                 settingsMade, lossTold, nvsVars, slotVars, dataVars, envVars>>

\* A tap that only sends a request.
Ask(kind) ==
  /\ Request(kind, queue)
  /\ UNCHANGED <<haVars, wsVars, app, uiVars, single, dataVars, envVars>>

\* view_btn_cb: app_state stays what it is until ENTITIES_LOADED.
MenuSelect ==
  /\ "select" \in Taps /\ screen = "menu" /\ viewsLoaded
  /\ saved' = TRUE
  /\ Ask("entities")

MenuRefresh ==
  /\ "refresh" \in Taps /\ screen = "menu"
  /\ Ask("views") /\ UNCHANGED saved

SettingsRefresh ==
  /\ "refresh" \in Taps /\ screen = "settings"
  /\ Ask("views") /\ UNCHANGED saved

\* The gear of the menu and of the status page: ui_setup_create.
OpenSetup ==
  /\ "setup" \in Taps /\ screen \in {"menu", "status"}
  /\ screen' = "setup"
  /\ app' = "SETUP_WIZARD"
  /\ UNCHANGED <<haVars, sockVars, wsVars, queue, authFailed, settingsMade,
                 lossTold, nvsVars, slotVars, dataVars, envVars>>

\* exit_btn_cb: whatever the connection is like, the menu is "connected".
SetupExit ==
  /\ SetupOpen
  /\ app' = "VIEW_SELECT"
  /\ screen' = "menu"
  /\ UNCHANGED <<haVars, sockVars, wsVars, queue, authFailed, settingsMade,
                 lossTold, nvsVars, slotVars, dataVars, envVars>>

\* connect_btn_cb of step 1: wifi_connect drops the link first.
WizardConnect ==
  /\ "wizard" \in Taps /\ SetupOpen
  /\ wifi' = "joining"
  /\ UNCHANGED <<haVars, sockVars, wsVars, queue, app, uiVars, nvsVars,
                 slotVars, dataVars, ha>>

EntitiesMenu == screen = "entities" /\ Show("menu")

EntitiesInfo == screen = "entities" /\ Show("status")

\* A widget: call_service.
EntityCommand ==
  /\ "command" \in Taps /\ screen = "entities" /\ model
  /\ Send(queue)
  /\ UNCHANGED <<haVars, wsVars, app, uiVars, nvsVars, dataVars, envVars>>

\* Mutant of StatusBack: back to a view that was never loaded.
StatusBackToView == "status" \in Taps /\ screen = "status" /\ Show("entities")

StatusBack ==
  /\ "status" \in Taps /\ screen = "status"
  /\ Show(IF model THEN "entities" ELSE "menu")

\* views_btn_cb: the list is asked for when the screen is first made.
StatusViews ==
  /\ "views" \in Taps /\ screen = "status"
  /\ screen' = "settings"
  /\ settingsMade' = TRUE
  /\ IF settingsMade \/ viewsLoaded
       THEN queue' = queue /\ UNCHANGED <<sockVars, slotVars>>
       ELSE Request("views", queue)
  /\ UNCHANGED <<haVars, wsVars, app, authFailed, lossTold, nvsVars, dataVars,
                 envVars>>

SettingsBack == screen = "settings" /\ Show("status")

\* A checkbox: enabled_views is written anew.
SettingsToggle ==
  /\ screen = "settings" /\ viewsLoaded
  /\ single' \in BOOLEAN
  /\ UNCHANGED <<haVars, sockVars, wsVars, queue, app, uiVars, saved,
                 slotVars, dataVars, envVars>>

Tap == \/ MenuSelect \/ MenuRefresh \/ SettingsRefresh \/ OpenSetup
       \/ SetupExit \/ WizardConnect \/ EntitiesMenu \/ EntitiesInfo
       \/ EntityCommand \/ StatusBack \/ StatusViews \/ SettingsBack
       \/ SettingsToggle

----------------------------------------------------------------------------
(* The surroundings                                                        *)

WifiUp == wifi = "joining" /\ wifi' = "up"

\* No event of the driver makes the firmware call esp_wifi_connect again.
WifiRefused == wifi = "joining" /\ "wifi_drops" \in Env /\ wifi' = "down"
WifiDrop    == wifi = "up" /\ "wifi_drops" \in Env /\ wifi' = "down"

HaStates == {"up"} \cup (IF "ha_down" \in Env THEN {"down"} ELSE {})
                   \cup (IF "ha_rejects" \in Env THEN {"rejects"} ELSE {})

\* Home Assistant is down for longer than an established connection needs
\* to notice.
HaChanges ==
  /\ ha = "down" => ws # "connected"
  /\ ha' \in HaStates \ {ha}

Surroundings ==
  /\ \/ (WifiUp \/ WifiRefused \/ WifiDrop) /\ UNCHANGED ha
     \/ HaChanges /\ UNCHANGED wifi
  /\ UNCHANGED <<haVars, sockVars, wsVars, queue, app, uiVars, nvsVars,
                 slotVars, dataVars>>

----------------------------------------------------------------------------
Init ==
  /\ haPc = "wifi" /\ retry = 0 /\ client = FALSE
  /\ ws = "unknown" /\ auth = None
  /\ wsPc = "run" /\ out = None
  /\ queue = <<>>
  /\ app = "WIFI_CONNECTING"
  /\ screen = "menu" /\ authFailed = FALSE
  /\ settingsMade = FALSE /\ lossTold = FALSE
  /\ saved \in BOOLEAN /\ single \in BOOLEAN
  /\ pending = None /\ asked = FALSE
  /\ viewsLoaded = FALSE /\ model = FALSE /\ built = FALSE /\ cut = FALSE
  /\ wifi = "down" /\ ha \in HaStates

Next == HaTask \/ WsTask \/ HandleEvent \/ Tap \/ Surroundings

Spec == Init /\ [][Next]_vars

\* The scheduler runs every task that can run; a join in progress ends; HA
\* answers. The user and the faults owe nothing.
Fairness ==
  /\ WF_vars(HaTask)
  /\ WF_vars(WsProgress)
  /\ WF_vars(WsLovelaceAnswer)
  /\ WF_vars(HandleEvent)
  /\ WF_vars(Surroundings /\ wifi = "joining" /\ wifi' # wifi)

FairSpec == Spec /\ Fairness

----------------------------------------------------------------------------
(* Properties                                                              *)

\* Every field has its type: the queue stays within its depth and the backoff
\* index within BACKOFF_MS.
TypeOK ==
  /\ haPc \in HaPcs /\ retry \in 0..(BackoffCount - 1) /\ client \in BOOLEAN
  /\ ws \in SockStates /\ auth \in AuthStates
  /\ wsPc \in {"run", "abort", "greet", "greetAbort", "tell", "views", "clear"}
  /\ out \in EventTypes \cup {None}
  /\ queue \in Seq(EventTypes) /\ Len(queue) <= QueueCap
  /\ app \in AppStates /\ screen \in Screens
  /\ authFailed \in BOOLEAN /\ settingsMade \in BOOLEAN
  /\ lossTold \in BOOLEAN
  /\ saved \in BOOLEAN /\ single \in BOOLEAN
  /\ pending \in {None, "views", "entities"} /\ asked \in BOOLEAN
  /\ viewsLoaded \in BOOLEAN /\ model \in BOOLEAN /\ built \in BOOLEAN
  /\ cut \in BOOLEAN
  /\ wifi \in {"down", "joining", "up"} /\ ha \in {"up", "down", "rejects"}

\* Once the client is destroyed its task is gone: nothing of an old session
\* changes state or posts after it, and there are never two websocket tasks.
SessionEnds == ~client => ws = "unknown" /\ WsIdle

\* A loss that the UI task has yet to hear of: ahead in the queue after
\* position n, in the hands of the websocket task, or about to be.
LossComing(n) ==
  \/ \E i \in 1..Len(queue) : i > n /\ queue[i] = "DISCONNECTED"
  \/ out = "DISCONNECTED"
  \/ wsPc \in {"abort", "greetAbort"}

\* "HA: Verbonden" on the status page is true, or the event that will
\* correct it is under way, except for two ends of a session (cut): the server
\* closed it, which the handler ignores, or the link broke under the two
\* messages between auth_ok and CONNECTED, and the loss is posted before the
\* CONNECTED (see LossIsTold). There the next attempt ends the error.
\* (Instances without the setup screen, with a prompt UI task.)
OnlineIsTrue == Online => LinkUp \/ LossComing(0) \/ cut

\* The status page does not blame the token while the app believes it is
\* online. (Instances without the setup screen.)
TokenErrorMeansOffline == authFailed => ~Online

\* The entities screen, and the state that goes with it, only ever follow
\* an entities answer that was processed.
EntitiesBacked == app = "VIEW_READY" \/ screen = "entities" \/ model => built

\* While a connection is being set up the app does not believe that a view
\* is loading or ready.
FreshAttempt == ws = "init" => app \notin {"ENTITIES_LOADING", "VIEW_READY"}

\* app_events.c: as long as the setup screen is open an event of HA may not
\* take over the screen; only its exit button leaves it.
SetupKeepsScreen ==
  [][SetupOpen /\ screen' # screen => app' = "VIEW_SELECT" /\ queue' = queue]_vars

\* The session never uses the client in a state the library does not reach
\* from the one before: a client is connected once, breaks once, and is
\* destroyed when its task is over. ClientLifetime shows that the library
\* itself, at the grain of single accesses, keeps to the same module.
SessionStates == INSTANCE ClientStates WITH client <- client, state <- ws
UsesClientStates == SessionStates!Spec

\* When WiFi and HA stay up the session comes up by itself and stays, or the
\* user sits in the setup screen.
Recovers == <>[](ha = "up" /\ wifi = "up") => <>[](SetupOpen \/ (Online /\ LinkUp))

\* Loading a view ends: in the view, or with a lost connection.
LoadingEnds == app = "ENTITIES_LOADING" ~> app # "ENTITIES_LOADING"

\* Believing to be online without a connection does not last, also when the
\* queue is full and the news of the loss is dropped.
StaleOnlineEnds == (Online /\ ws # "connected") ~> (~Online \/ ws = "connected")

----------------------------------------------------------------------------
(* What the documentation says and the code does not do                    *)

\* US-009: connected again after a loss, the device that has shown a view
\* loads the saved view.
ReconnectRestoresView ==
  [][HandleConnected /\ lossTold /\ saved /\ built /\ ~SetupOpen
       => app' = "ENTITIES_LOADING"]_vars

\* US-009: a lost connection is reported. The code takes the last event it
\* hears for the truth, and it may hear of the loss before it hears of the
\* connection.
LossIsTold == Online => LinkUp \/ LossComing(0)

\* app_events.c: "na sluiten of herstart synchroniseert de normale flow alles
\* opnieuw". What a CONNECTED that finds the setup screen open would have
\* asked for is asked for once the user has left it, on the same session.
SyncsAfterSetup ==
  [](SetupOpen /\ HeadIs("CONNECTED")
       => <>(asked \/ ~LinkUp) \/ <>[]SetupOpen)
=============================================================================
