# Formal model of the SenseCAP Home Assistant controller

The firmware under `src/firmware` runs on a SenseCAP Indicator (ESP32-S3): a
480×480 touch screen that shows one dashboard view of Home Assistant (HA) and
switches its entities over a websocket. This directory holds TLA+ models of the
firmware, TLC configurations that check them on small instances, and proofs
that TLAPS checks for every value of the constants.

    tlc -config MCHaSession_safety.cfg MCHaSession     one run
    tlapm HaSession_proofs.tla                         the proofs of a module

`PROJECT.json` maps every definition to the source lines it models, and lists
the runs, the mutants that show each property can fail, the findings, the
hazards of the code and the theorems.

## The system

### Tasks

| task | code | core, priority | what it does |
|---|---|---|---|
| UI | `task_ui` (main.c) | 0, 5 | drains `ha_event_queue` into `app_events_handle`, runs LVGL: taps, timers, drawing |
| ha_ws | `ha_client_run` (ha_client.c) | 1, 4 | joins WiFi once, then makes a websocket client, waits for its end, destroys it, backs off, again |
| websocket | `esp_websocket_client_task` | one per client | connects, reads, pings; calls `websocket_event_handler`, which parses HA's messages |
| HTTP server | `post_save` (web_config.c) | only in the setup wizard | takes the form with HA address and token |
| WiFi driver | `event_handler` (wifi.c) | | joins, loses, scans; sets event bits |

### What they share

| state | written by | read by | guarded |
|---|---|---|---|
| `app_state` | UI, ha_ws, websocket | UI | a mutex for each access, nothing across two |
| `ha_event_queue` (16) | websocket, ha_ws, UI (write errors) | UI | by the queue; a post gives up after 0, 100 or 200 ms |
| `s_client` and the client it names | ha_ws | UI, websocket | `client->lock` inside the library, the pointer by nothing |
| `s_msg_id` | ha_ws, UI, websocket | UI, websocket | no |
| `s_pending`, `s_pending_id`, `s_pending_path` | UI, websocket | websocket | no |
| `s_views`, `s_entities`, `s_view_model` | websocket | UI, by pointers the widgets keep | no |
| `s_result`, `s_done` (web_config.c) | HTTP server | UI | no |
| NVS | UI | UI, ha_ws, websocket | each key commits by itself |

### Components

| component | state | operations | what makes it correct | modelled |
|---|---|---|---|---|
| HA session: ha_client.c, app_events.c, app_state.c | place in the reconnect loop, backoff, client, app_state, event queue | connect, poll, stop, destroy, back off; six event handlers | a session ends with its client; the app believes what the connection is; it comes back by itself | partly: HaSession; not the buffer for fragmented frames |
| Screens: ui_manager.c, ui_view_menu.c, ui_status.c, ui_view_settings.c, ui_entities.c | active screen, menu, checkboxes, page, NVS selection | taps, swipes, redraws | setup is never interrupted; what is shown is what a touch acts on | partly: HaSession (navigation), Dashboard (what widgets point to), Panel (swipes); layout is not |
| Websocket client: esp_websocket_client.c | client state, run flag, ping and pong times, lock | start, stop, destroy, send, receive, ping | a loss is noticed, a good connection is kept; nothing comes from a client that was freed | partly: ClientStates, ClientLifetime, Keepalive; not transport, TLS, framing |
| Lovelace and messages: ha_lovelace.cpp, ha_messages.cpp | pending slot, ids, views, entities | request, answer, authentication, state changes | an answer fills the view that was asked for | partly: LovelaceSlot, ViewService, Dashboard; not JSON |
| WiFi: wifi.c | event bits | init, connect, wait, scan | a lost network is joined again | partly: HaSession, SetupWizard |
| Setup wizard: ui_setup.c | step, selection, timers | scan, select, connect, save, exit, restart | what is stored was filled in, complete, and survives a power loss | SetupWizard |
| Web server: web_config.c | server, result, flag | start, post, stop, get result | a form arrives whole | partly: SetupWizard; not HTTP parsing |
| NVS: storage.c | keys | get, set, clear | | partly: SetupWizard, HaSession, Dashboard |
| Entity model: app_entities.c | pages, domains | build pages, find, widget of a domain | every entity on exactly one page, with the widget of its domain | Dashboard |
| Widgets: ui_widgets.c | registry, popup, slider, locked button | render, update, drag, tap | an update from HA reaches its widget, unless the user is dragging it | partly: Dashboard (rows, registry, popup), Panel (light, action button, popup under a finger); not the other climate controls |
| Screen power: main.c, touch.c, display.c | backlight, inactivity, swallowed touch | time out, wake, read | the touch that wakes the screen presses no widget; the screen goes dark | partly: Panel; not the display's start-up |
| Board I/O, simulator, host tools | | | | no |

### What is hard about it

Three tasks and a server change the same state without one lock around what
belongs together. News travels through a bounded queue that drops, and is
handled later than it was true. A connection ends in five ways (write error,
read error, missing PONG, close by the server, stop), which report it twice,
once or not at all, and its client may be freed under the task that runs it.
Widgets point into arrays that another task refills. The user opens the setup
screen in the middle of anything. Power can go between two NVS writes.
`hazards` in PROJECT.json lists these places one by one, at their line.

## The modules

| module | models |
|---|---|
| `HaSession` | the session: ha_ws, websocket task, UI task, queue, screens |
| `ClientStates` | abstract: the states of a websocket client from creation to destruction |
| `ClientLifetime` | the library, ha_client_run and a sender at the grain of single accesses |
| `LovelaceSlot` | message ids, the request slot and its answers, access by access |
| `ViewService` | abstract: the page changes to the view selected last |
| `Dashboard` | from the dashboard in HA to the widget under a finger: arrays, pointers, redraws |
| `Panel` | touch driver, screen timer, gestures and the widgets of one page |
| `Keepalive` | PING and PONG times of an established connection |
| `SetupWizard` | wizard, web server, scan, station, NVS writes, restarts |
| `MC…` | the instance of each of them: sets of taps, faults, networks, dashboards |
| `HaSession_proofs`, `HaSession_sessions`, `ClientLifetime_proofs`, `LovelaceSlot_proofs`, `Dashboard_proofs`, `Panel_proofs`, `Keepalive_proofs`, `SetupWizard_proofs` | what is proved about them |

How they fit together: `HaSession` treats the library as `ClientStates`
promises it, and both sides are shown: HaSession keeps to ClientStates
(`UsesClientStates`), and `ClientLifetime`, the library at its finest grain,
implements it (`KeepsStates`). `HaSession` has one slot for a request and
answers in three steps; `LovelaceSlot` opens those steps up, and implements
`ViewService`. `Dashboard` takes requests and events as HaSession and
LovelaceSlot provide them and follows the data instead; `Panel` takes one page
of Dashboard and follows the finger.

### HaSession

State: `haPc`, `retry`, `client` are ha_client_run's place, `backoff_idx` and
`s_client # NULL`; `ws` is the state of the library's client, `auth` HA's side
of the authentication, `wsPc` and `out` the place of the websocket task inside
its handler and the event it is trying to post; `queue` is ha_event_queue;
`app` is app_state; `screen`, `authFailed`, `settingsMade` are the UI; `saved`
and `single` are the two NVS keys the event handlers read; `pending` and
`asked` are the request slot; `viewsLoaded` and `model` say whether the lists
are filled; `wifi` and `ha` are the surroundings. `built`, `lossTold` and
`cut` are history variables; `cut` marks a session whose end the app is not
told of after its CONNECTED (see `OnlineIsTrue`).

Actions, by task:

* ha_ws: `WifiAttempt` … `WifiRetry` is the loop before the first connection;
  `HaConnect` (with connect_once), `SeesConnected`, `AwaitTimeout`, `SeesLost`,
  `DestroyClient`, `BackoffOver` the loop after it. The polls of 100 ms and 1 s
  read the client's state whenever the scheduler likes.
* websocket: connecting, failing (`WsFails`, `WsAbort` with the two
  DISCONNECTED events of one failure), ending (`WsGiveUp`, `WsExit`,
  `WsCloses`), authentication, and the answer to a lovelace request in three
  steps, because the handler posts twice in between and reads the slot again
  after the first post. auth_ok is three steps, too: `WsAuthOk`, the two
  messages it sends (`WsGreet`), which on a broken link end the connection with
  the two DISCONNECTED of `WsAbort`, and the CONNECTED that is posted whatever
  became of them (`WsTellConnected`).
* UI: one step for each event handler, one for each button. A send that fails
  ends the connection and posts from the UI task itself, into the queue only
  that task drains (`SendFails`).
* surroundings: WiFi drops, HA goes down, comes up, or refuses the token.

The stretch between the moment a websocket task clears `run` by itself and its
end is one step: it posts nothing and changes no shared state of the firmware.
`ClientLifetime` opens that stretch up.

### ClientLifetime

Each step is one access to what the tasks share: `run`, `sock` (client->state),
`stopped` (STOPPED_BIT), `closeSent`, the recursive lock, `sClient` and the
memory itself (`alive`). `haPc` walks through connect_once, the two polls,
`esp_websocket_client_stop` and `_destroy`; `wsPc` through the loop of
`esp_websocket_client_task` with its read, its error and its close paths;
`uiPc` through a send, from the test of `s_client` to the return of the lock.
`usedBy` records who touched the client after it was freed. This does happen:
the stop returns at once when the task has cleared `run` by itself, or as soon
as STOPPED_BIT is set, and the destroy frees the client while the task still
has accesses to do (esp_websocket_client.h:212-213 asks for a stop before, which
the firmware makes); a UI task that has tested `s_client` can be as late. What
follows from reading freed memory cannot be modelled; the module assumes that
it keeps its content, as the next client is made at least 5 s later. Under that
assumption the websocket task posts nothing after the free. A sender that is
late may still report an error or a loss for the client that was freed, which
the model shows (`UiTells` with `alive` FALSE) and no property excludes: it
falls into the backoff, where the app knows of the loss already.

### LovelaceSlot

A call is a list of single reads and writes: `todo[t]` is what task t still has
to do, `reg[t]` the value of `s_msg_id` it has read. The slot is written in the
order of the code (kind, id, path for a view), the id is taken and counted up
in two accesses, and the send takes the lock for up to 2 s, which fails with
"late" in `Env`. `wire` is the way to the device in its order, `asked` the
requests HA may answer in any order, `haId` the last id it has seen. The user
taps in any state of the connection and opens the settings (`setup`), where
CONNECTED and ENTITIES_LOADED are taken from the queue and nothing else happens
(app_events.c:22-25 and :78). An answer is handled in four steps (`Parse`,
`Fill`, `FreeSlot` twice); a path that is no view of the answer empties the page
and ENTITIES_LOADED is posted all the same (`Matches`).

`Overlaps` says which work of the websocket task a call of the UI task may run
through: "greeting", the numbering of the two messages after auth_ok, and
"answer", the handling of an answer that fills the slot. Nothing in the code
keeps them apart; with either the code breaks properties below (see the
findings), without them it keeps them. `reused`, `stale` and `logged` are
history variables: an id that HA refused, a slot that was not written in this
session, and a request that failed and of which the code keeps a log line only.

### Dashboard

`list`, `slots` and `enabled` are s_views, s_entities and NVS; `menu`, `boxes`,
`rows` and `popup` are what stands on the screens. A widget has what the user
reads (`shows`) and what it points to (`at`), and the two differ as soon as the
arrays are refilled. The websocket task refills them in steps (`WsList`,
`WsClear`, `WsExtract`), with posts between, and the UI task draws when it
handles the event, if the screen is one the handler redraws. `ViewIds` is
extract_entities: cards, lists in cards, sections, without duplicates, up to
the limit. An id longer than the array is stored cut (`StoredId`) and compared
whole, so that it is added as often as it occurs. `PathOf` and `ListOf` are the
two loops that make up paths. CONNECTED loads a saved view, which may be one of
an earlier dashboard (`ListPaths`), the only enabled view, or shows the menu.

### Panel

`finger` is the real one, `read` and `held` what LVGL makes of it, `swallow`
wake_swallow; `touch` is the history of one touch: free, "woke" when it lit the
screen, "void" when it has turned the page, "broken" when one of its reads
failed. LVGL itself (PRESSED, RELEASED, the held object,
`lv_indev_wait_release`) is external. One light has a switch and a slider whose
values (`shown`, `knob`) HA's states and the finger both move. Commands and
states travel in order and take their time.

### Keepalive

`Iterate` is one round of the loop in state CONNECTED: send a PING when nothing
was read or sent for `PingInterval`, give up when the PONG is missing for
`PongTimeout`, read. Ages replace the tick fields; `Tick` is a second. The peer
answers within `PeerDelay`, frames wait at most `ReadLag`, rounds come at most
`RoundMax` apart. `LinkDies` tells nobody. A PONG may answer any PING under
way, as the library does not compare payloads.

### SetupWizard

The three steps, the static handles of its two LVGL timers and how many such
timers really live (they differ once a button is tapped twice or the screen is
made anew), the scan with its bit, the station with the credentials it was last
told, the server with the fields of `s_result` written one by one, the copy
the UI task takes of them field by field, and NVS key by key (`StoreKey`, in
the order of webconf_poll_cb). `Restart` is the restart button, and with
"restart" in `Env` a power loss between any two steps: everything but NVS
starts anew. The ha_ws task joins in with the WiFi loop it runs before its
first connection, because it shares the station with the wizard.

## The runs

| run | module, cfg | checks | distinct states |
|---|---|---|---|
| `safety` | MCHaSession_safety.cfg | TypeOK, SessionEnds, EntitiesBacked, SetupKeepsScreen, UsesClientStates, StaleOnlineEnds with a queue of one place, dropped posts, broken links, closes, the setup screen; under fairness | 653 K |
| `online` | MCHaSession_online.cfg | OnlineIsTrue, TokenErrorMeansOffline, FreshAttempt: all taps but setup, every fault, three places, two backoff steps | 2.6 M |
| `progress` | MCHaSession_progress.cfg | Recovers, LoadingEnds under fairness, every way HA ends a session | 239 K |
| `lifetime` | MCClientLifetime_life.cfg | TypeOK, SilentAfterFree, LossTold, KeepsStates, StopReturns over two clients, at the grain of single accesses | 17 K |
| `requests` | MCLovelaceSlot_requests.cfg | TypeOK, IdsRise, OwnAnswer, ServesSelected over two sessions with losses, bad answers, sends that time out, the settings | 4.9 M |
| `served` | MCLovelaceSlot_served.cfg | RequestEnds, StatesFollow under fairness, with the same faults, the refresh button and the settings | 653 K |
| `dashboard` | MCDashboard_screens.cfg | TypeOK, MenuTrue, BoxesTrue, RowsTrue, PopupTrue, LoadsTheView with two dashboards that replace each other under every screen | 2.3 M |
| `panel` | MCPanel_touch.cfg | TypeOK, RowTrue, Deliberate, GoesDark with every order of finger, reads, timer, commands and states | 416 K |
| `keepalive` | MCKeepalive_bounds.cfg | TypeOK, LossNoticed, AliveKept | 41 K |
| `wizard_safety` | MCSetupWizard_safety.cfg | TypeOK, ConfiguredComplete, HandlesLive with restarts between any two steps, second submissions, a server that does not start | 367 K |
| `wizard_store` | MCSetupWizard_store.cfg | StoredAsFilledIn, FormIsStored with two forms and leftover timers, under fairness | 872 K |
| `restore` | MCHaSession_restore.cfg | ReconnectRestoresView: violated, see the findings | |

Each passing property has a mutant in PROJECT.json, a definition of the module
changed the way a plausible bug would change it, under which TLC finds the
property violated in that run.

### Properties of HaSession

* `SessionEnds` — once the client is destroyed, its task is gone: no event of
  an old session arrives, no two websocket tasks exist.
* `EntitiesBacked` — VIEW_READY, and the entities screen, only follow an
  entities answer that was processed.
* `SetupKeepsScreen` — no event of HA leaves the setup screen.
* `UsesClientStates` — the session implements ClientStates: a client is
  created once, connected and broken at most once, and over before it is
  destroyed.
* `OnlineIsTrue` — an app that believes to be online is, or the event that
  corrects it is under way, through closes, refusals and every fault of the
  link. Two sessions are excepted (`cut`), in which the code leaves it in the
  dark until the next attempt: one that the server closes, which the handler
  ignores, and one whose link breaks under the two messages between auth_ok and
  CONNECTED, as the loss is then posted first. Without the setup screen, whose
  exit sets the online state whatever happened.
* `TokenErrorMeansOffline` — the token error and an online state exclude each
  other, over repeated sessions. Without the setup screen, whose exit sets the
  online state whatever happened.
* `FreshAttempt` — no late event of a previous session makes a new attempt look
  like a loaded view.
* `Recovers` — once WiFi and HA stay up, the session is up for good and the app
  knows it, or the user sits in the setup screen. In this instance the station
  stays joined once it is up: after a drop nothing joins it again (see the
  findings), and to a connection a lost WiFi looks like an HA that is down.
* `LoadingEnds` — a loading view is shown or reported lost. The instance leaves
  out the refresh buttons, which overwrite the slot, and answers without a
  result, which leave it: with either the code has no way out.
* `StaleOnlineEnds` — believing to be online without a connection ends, also
  when the news of the loss finds the queue full and is dropped.

### Properties of ClientLifetime

* `SilentAfterFree` — a websocket task whose client was freed under it has no
  event left to post. This is what HaSession's `SessionEnds` rests on, where the
  end of a task is one step. It does not speak of a sender.
* `LossTold` — a connection that was up and is given up was reported, whether
  the task, the sender or both at once found it broken; the exceptions are a
  close by the server, which the firmware's handler ignores, and a connection
  that came up in the moment its attempt was given up.
* `KeepsStates` — it implements ClientStates.
* `StopReturns` — the stop, which waits for STOPPED_BIT without a limit, comes
  back.

### Properties of LovelaceSlot

* `IdsRise` — HA never gets an id that does not rise within a session
  (technisch_ontwerp.md:379), although two tasks count `s_msg_id` without a
  lock and a third sets it back: taps before and after CONNECTED, in any state
  of the link, are safe except during the two messages after auth_ok.
* `OwnAnswer` — what is taken for the answer in a slot that was written in this
  session is a lovelace answer. Ids start anew with every session and the slot
  does not: what a lost session left in it matches any message with that id
  until the first request of the session overwrites it (`stale`). With the
  settings open CONNECTED makes no such request.
* `ServesSelected` — it implements ViewService: the page only changes to the
  view selected last, or to an empty page if HA does not have that view.
* `RequestEnds` — a view that is asked for on a standing connection is shown, or
  found to be none of HA's, and the slot is free again; unless a refresh took
  the slot, the settings were opened or the connection was lost. A send that
  came too late and an answer without a result are let through: the code writes
  a log line, the slot stays taken, and the user is not told. `RequestShown` is
  the formula without that exception, which the code breaks.
* `StatesFollow` — a page that was drawn gets the states of its entities on a
  standing connection, or is replaced by an empty one, or the request for them
  failed with a log line. A page that was not drawn because the settings were
  open asks for nothing.

All of these are about instances in which no call of the UI task runs through
what `Overlaps` names: `IdsRise` and `OwnAnswer` need the first ("greeting")
kept apart, `ServesSelected` and `RequestEnds` the second ("answer"). The
findings name the instances that show what happens otherwise.

### Properties of Dashboard

* `MenuTrue`, `BoxesTrue`, `RowsTrue`, `PopupTrue` — what stands on the screen
  acts on what it names, in the right order, place and value, with the widget
  of its domain. They speak of `Settled` states: between the refill of an array
  and the redraw that follows its event, a widget points to what is no longer
  there. A tap in this window loads, stores or switches something else than
  what it shows; it is open for as long as the event waits, at most about a
  second of a busy UI task, and nothing in the code closes it.
* `LoadsTheView` — what is loaded is the view the menu names, complete, without
  duplicates, in the order of the cards and up to the limit, although list and
  extraction make up the path of a view without one in two loops of their own,
  and the dashboard may be another one by then (`answer[j].path`). A path of
  more than 63 characters is listed but loads nothing, as its kept part matches
  no view, and an entity id of more than 63 is added as often as it occurs: the
  property leaves such views out.

### Properties of Panel

* `Deliberate` — a touch that woke the screen (US-013) or turned the page
  (US-016) sends nothing, whatever it began on.
* `RowTrue` — once everything sent has arrived, the light's row shows what the
  light is: a drag that was given up, states that came while the slider was
  held and commands that crossed them leave nothing behind.
* `GoesDark` — a screen nobody touches goes dark and stays so.

`Deliberate` is about touches whose reads all succeed. When a read fails under
a finger (touch.c:32-39 and 54-57), the driver reports a release and, for the
number of points, forgets that the touch is swallowed; the next read is a new
touch, which operates what is under it. The comment at touch.c:26-27 names the
whole touch; `SwallowsWholeTouch` states it, and the code breaks it.

### Properties of Keepalive

* `LossNoticed` — a silent loss is reported within
  `ReadLag + PingInterval + PongTimeout + 2 RoundMax`.
* `AliveKept` — a connection whose peer answers is never given up. The hard
  part is that the PONG age is started by one PING, ended by any PONG, and goes
  on over later PINGs; both mutants of `NowPongAge` are one-line changes.

### Properties of SetupWizard

* `ConfiguredComplete` — "configured" is never stored on a device without
  network, password, address and token, wherever the power goes.
* `HandlesLive` — a handle that is not NULL names a live timer, so
  `lv_timer_del` is never called on a dead one.
* `StoredAsFilledIn` — address and token in NVS were filled in together. It
  holds as long as nobody submits the form a second time while the first is
  copied (see the findings) and no power loss cuts the writing of a new pair
  over an old one.
* `FormIsStored` — a form that was accepted while the wizard is open is stored,
  also by timers and a server of an earlier visit.

### Bounds

* `QueueCap` 1, 2 or 3 instead of 16, `BackoffCount` 1 or 2 instead of 5. A
  queue of one place makes every drop and every wait for room happen; the
  failure of one link posts at most two events back to back (`SendFails`), so
  that three places let both of them and one more stand in the queue. The
  theorems hold for every depth.
* `Prompt = TRUE` says that the UI task, the one with the highest priority,
  makes room in the queue before a post gives up, ends its 2 s waits for the
  lock, and has emptied the queue when a backoff of at least 5 s ends. Without
  it a dropped CONNECTED leaves the app in HA_AUTH on a good connection
  (a hazard on the list); the run `safety` and its theorems do without it, and
  so does `StaleOnlineEnds`.
* The run `safety` leaves out refused tokens and late connects, which `online`
  and `progress` have, to stay within minutes; its safety properties are proved
  with every fault.
* HA that goes down stays down until the connection has noticed: what a shorter
  outage does to an established connection is below the websocket.
* ClientLifetime makes two clients (`MaxClients`): the second is enough to see
  a late task or sender of the first; its theorems hold for every number.
* LovelaceSlot has two sessions in `requests` (`MaxSessions`), a second being
  what stale ids and a stale slot take, with ids up to 4 (`MaxId`, a bound on
  when the user stops: three ids go to the start of a session, and the user may
  use some before it); and one session with ids up to 5 in `served`, so that a
  request follows a request. Two views are what a mixture takes.
* Dashboard has pages of two instead of six rows, two instead of five pages,
  two instead of ten views and one queue place. One dashboard overfills a page
  set by one entity, the other the menu by one view; both have a view without
  a path, one has a path that is too long. The theorems hold for every size and
  every set of dashboards.
* Panel has one light with two brightness values, one command and one state in
  transit (`MaxSent`), and timeouts of two ticks or never; the theorems hold
  for any set of timeouts without 1 and any `MaxSent`.
* Keepalive uses 3, 8, 2, 2, 2 s for 10, 120, 1, 1, 1: only the order matters,
  and the theorems need only `PeerDelay + ReadLag <= PongTimeout`.
* SetupWizard: one network that accepts one of two passwords (the other is the
  empty text), one or two forms, a connect limit of 1 instead of 30 polls, and
  at most two timers at the same time (`MaxTimers`, named in the guards of the
  two actions that make one for a tap). Two timers behind one handle are the
  least that a double tap takes; two forms are the least that a mixture takes.

### Fairness

FreeRTOS runs each of the tasks whenever it is ready, on two cores, and each
blocks with a timeout: this is the weak fairness of the ha_ws task, the
websocket task and the UI task's own handlers in every `Fairness` and
`FairSpec`. No tap and no fault is fair. Beyond that:

* HaSession: a join in progress ends; `WsLovelaceAnswer`, and `HaAnswers` of
  LovelaceSlot, are fair because HA answers what it has received while the
  connection holds.
* ClientLifetime: a UI task that is inside a send goes on; `WsTakeLock` is
  strongly fair, as a user's taps leave the lock free for most of the time and
  the waiting task gets it then.
* Panel: LVGL goes on reading the touch driver and not every read fails
  (`Read`), the screen timer runs, events are handled. `Execute` is strongly
  fair: HA executes what it gets, and the bound on what is in transit may
  disable it in between.
* SetupWizard: LVGL runs every timer that is due and the task finishes the
  callback it is in, the HTTP server finishes the request it has begun, the
  driver finishes a scan it has accepted. Nobody has to submit a form and the
  access point owes nothing.

## What is proved

TLAPS proves these for every value of the constants, from the assumptions
`SessionAssumption`, `LifetimeAssumption`, `SlotAssumption`,
`DashboardAssumption`, `PanelAssumption`, `KeepaliveAssumption` and
`WizardAssumption` of the modules, which say little more than the types of the
constants (for Keepalive that a PONG in time is possible, for Panel that there
is a longest timeout and none of one tick).

* HaSession, in `HaSession_proofs`: `TypeOK`, `SessionEnds`, `EntitiesBacked`
  and `SetupKeepsScreen` without any restriction; `OnlineIsTrue` with `Prompt`
  and without the setup screen. `SessionEnds` is not inductive: the invariant
  `SessionInv` adds where ha_client_run must be for each state of the client and
  which steps of the handler need a connection. `EntitiesBacked` needs
  `BackedInv`: a queued or held ENTITIES_LOADED, too, means that an answer was
  processed. `OnlineIsTrue` needs `OnlineInv`: every CONNECTED or
  ENTITIES_LOADED that is still under way, and would make the app believe to be
  online, has a DISCONNECTED behind it in the queue unless the connection is up
  or `cut` (`LossComing(n)` speaks of the positions after n).
* HaSession, in `HaSession_sessions`: the refinement `UsesClientStates` without
  any restriction, `FreshAttempt` with `Prompt`, and `TokenErrorMeansOffline`
  with `Prompt` and without the setup screen. The last two say what may still
  stand in the queue and in the handler at each place of ha_client_run: at the
  end of a backoff nothing, and after a refused token nothing that sets an
  online state.
* ClientLifetime: all but its liveness. `LockInv` says who holds the lock at
  each place of the three tasks, `StageInv` which of `run`, `sock` and
  `stopped` fit the places of ha_client_run and the task, and `LossInv` where
  the report of a loss still is when it has not been made. The refinement
  `KeepsStates` follows from them step by step. Together with
  `UsesClientStates` it closes the gap between the library and HaSession.
* LovelaceSlot: `TypeOK`, `IdsRise` and `OwnAnswer` when no call runs through
  the greeting (`"greeting" \notin Overlaps`), with "answer" in `Overlaps` or
  not, for any number of ids and sessions, every tap, every fault and the
  settings open or closed. `SlotInv` says at which step of which call each task
  is and what is known of the ids there (`UiAt`, `WsAt`): outside of the
  greeting only the UI task counts, and a slot of this session holds an id below
  the next one (`Older`). `Transit` makes an answer the slot's own: unless the
  slot is `stale`, whatever in transit has its id is a lovelace request. The
  refinement `ServesSelected` is proved for `Overlaps = {}`, from `ServeInv`:
  outside of a request a slot of this session that waits for a view names the
  view selected last, and a stale one is only taken for an answer that has no
  views. Both assumptions are needed: without them TLC finds the
  counterexamples of the findings.
* Dashboard: all of its properties, for every set of dashboards and every size
  of the arrays. The loops of the code are recursive functions; that they have
  a value after every turn, of the right type and length, is proved by
  induction over a set of numbers (`Induct`, from the well-foundedness of `<`)
  and used through `HasLoop` and the lemmas on `Collected` and `Kept`.
  `MenuInv`, `BoxInv` and `RowInv` say what the screens show whenever no event
  is on its way that will redraw them (`ListKnown`, `RowsKnown`); they are
  weaker than the properties' `Settled` in what they assume, which makes them
  inductive. `AnswerInv` ties the list of views to the dashboard of the answer
  it was parsed from. `BoxesTrue` is proved for dashboards whose views keep
  different paths (`DistinctPaths`), `LoadsTheView` for those whose views go by
  different paths (`DistinctViews`): Home Assistant decides that, and without
  it they do fail. Two views with one path make two checkboxes for one entry of
  the selection, so that unchecking one leaves the other's path selected for
  both; and a path that two views go by always loads the first of them. The
  instance of the run `dashboard` satisfies both.
* Panel: all but its liveness. `VoidInv` is the heart of `Deliberate`: a touch
  that woke the screen is swallowed or was never held, one that has swiped is
  waiting for its release; `RowInv` that of `RowTrue`: the last state in
  transit, or the model when there is none, is the light's.
* Keepalive: all three invariants, from `KInv`, which bounds the time since
  the loss by the ages of the loop: while no PING is outstanding the next one
  comes in time, while one is, its PONG age has run for as long as the link has
  been dead, less what was read since.
* SetupWizard: all but its liveness; `TypeOK`, `ConfiguredComplete` and
  `HandlesLive` under every fault. `ConfiguredComplete` rests on
  `WrittenBefore` (at the write of key n the keys before it are stored or were
  stored before), `ResultComplete` (a flag that is set has both fields) and
  `NetworkKnown`; `TypeOK` rests on
  `TimersInv`, which bounds the shared tick counter by the timers still alive.
  `StoredAsFilledIn` is proved for an `Env` without "restart" and "resubmit"
  (`Undisturbed`; the findings say what either does): `PairInv` follows a form
  from the server's fields through the UI task's copy to NVS, and says at which
  places of the two tasks its two fields belong together.

Every safety property and all three refinements that a passing run checks are
proved, under the assumptions named here. Only
model-checked are the liveness properties (`Recovers`, `LoadingEnds`,
`StaleOnlineEnds`, `StopReturns`, `RequestEnds`, `StatesFollow`, `GoesDark`,
`FormIsStored`), as liveness under fairness is out of this prover's reach. The
induction theorems of the library take an operator as a parameter, which no
installed prover can instantiate; that is why Dashboard_proofs states induction
for sets.

## Findings

Where the code does something else than a comment or a document of the
repository says. The run `restore` keeps the first. The models contain the
behaviour of the others too; the formula given fails in them, and so does the
definition named, in the instance given (where no specification is named, under
`Spec`; for LovelaceSlot with two views).

* The saved view is not loaded after a reconnect: app_state is no longer
  DISCONNECTED when CONNECTED is handled (app_events.c:26 and :39).
* A WiFi network that drops after start-up is never joined again (wifi.c:35),
  while ui_status.c:153 tells the user that it is tried.
  `wifi # "up" ~> wifi = "up"` (HaSession, with a joinable network)
* A CONNECTED during setup is lost; nothing asks for the views after the exit,
  while app_events.c:15 says that everything is synchronised then.
  `SyncsAfterSetup` (HaSession, `FairSpec`, `Taps = {"setup"}`, `Env = {}`,
  `QueueCap = 2`, `Prompt`)
* A link that breaks under get_states or subscribe_events is reported before the
  CONNECTED of the same handler (ha_messages.cpp:239-242): the app ends online,
  while userstories.md:295 promises the message of a loss. `LossIsTold`
  (HaSession, `Taps = {}`, `Env = {"ha_down"}`, `QueueCap = 3`, `Prompt`)
* A network that was only tapped, in an earlier visit of the wizard, replaces
  the stored WiFi credentials (ui_setup.c:245; the comment at :243 says they
  are stored when step 1 was done). (SetupWizard, `StoredValue`)
* A form submitted a second time while the first is copied is stored half and
  half (web_config.c:122). `StoredAsFilledIn` with "resubmit" in `Env`
  (SetupWizard)
* userstories.md:305 says that on_close leads to the error message; a close by
  the server dispatches nothing the handler looks at.
  `(app = "VIEW_READY" /\ ws = "unknown") ~> app = "DISCONNECTED"` (HaSession)
* userstories.md:295 promises the message within three seconds; a silent loss
  takes up to two minutes. `state = "connected" /\ ~up => deadFor <= 3` with
  the times of the firmware (Keepalive)
* status.md:144 says that leaving the wizard cleans up its timers; after two
  taps on Verbinden one remains and starts the server later. `ExitCleansUp`
  (SetupWizard, the instance of `wizard_safety` with `Env = {}`)
* A scan that the driver refuses while the station joins never ends.
  `(open /\ scanning) ~> ~(open /\ scanning)` (SetupWizard)
* technisch_ontwerp.md:379 says that every message id is unique; a tap during
  the two messages after auth_ok can use one twice. `IdsRise` (LovelaceSlot,
  `Overlaps = {"greeting"}`, `Taps = {"select", "command"}`, `Env = {"loss"}`,
  `MaxId = 5`, two sessions)
* userstories.md:73 says that a view is loaded and shown after its selection.
  Three requests on a standing connection are not (LovelaceSlot,
  `Taps = {"select"}`, one session). One made while an answer is handled is
  forgotten when that handler frees the slot (ha_lovelace.cpp:289):
  `RequestEnds` (`FairSpec`, `Overlaps = {"answer"}`, `Env = {}`, `MaxId = 6`).
  In the same interleaving the answer may fill the page from the path of before
  or from one half written (ha_lovelace.cpp:46): `ServesSelected`. And one whose
  send times out keeps the slot and is only logged (ha_lovelace.cpp:27):
  `RequestShown` (`FairSpec`, `Overlaps = {}`, `Env = {"late"}`, `MaxId = 4`)
* technische_verkenning.md:95 says that the id couples an answer to its request;
  s_msg_id begins again with a session and the slot stays (ha_client.c:199), so
  that the answer to subscribe_events or to a switch command may be taken for
  the lovelace answer of the session before, and empties the list of views.
  `AnswersCoupled` (LovelaceSlot, `Overlaps = {}`,
  `Taps = {"select", "command", "setup"}`, `Env = {"loss"}`, `MaxId = 5`, two
  sessions)
* The client is freed while its task, or a sender, still uses it.
  `usedBy = {}` (ClientLifetime)
* touch.c:26-27 says that a waking touch is swallowed to its end; one failed
  read ends that (touch.c:32). `SwallowsWholeTouch` (Panel, the instance of
  `panel`)

## Not modelled

Drawing, layout, fonts and texts of the screens; JSON and HTTP parsing, URL
decoding and HTML; TLS and transport of the websocket library, its
configuration and its automatic reconnection, which the firmware turns off; the
start-up of the ST7701 panel and the I2C expander (register writes); WiFi power
save; the simulator and its mocks, which are another program; the host tools.

The buffer that joins fragmented frames (ha_client.c:46-78): it only does
something of interest when an allocation fails, after which the head of a frame
is missing and its tail is parsed. What that tail is to the parser is a question
about bytes, which the models do not have.

The action button that a redraw deletes while its 500 ms timer holds a pointer
to it (ui_widgets.c:521): the model lets a redraw wait for the timer (`Redraw`),
as nothing can be said of a write to freed memory. The climate row is present
with its popup. Its fan button works like its mode button. Its temperature
slider is not modelled: it is dragged and given up like that of the light, but
its knob is a share of the entity's range, which shows and sends by two
different formulas (ui_widgets.c:99-103 with the limits 15 and 30 when HA gives
none, :121-127 without them).

Smaller places that were read and left out, because they have no second actor
or no state that anything else depends on: the factory reset and an NVS write
that fails (storage.c:41), a send before `s_client` is set (it is ignored), an
option of the popup that points to the text of a mode in the array
(ui_widgets.c:395; `PopupTrue` speaks of the entity only).

## Plan

Done: `HaSession`, `Keepalive`, `SetupWizard`, `LovelaceSlot` with
`ViewService`, `ClientLifetime` with `ClientStates`, `Dashboard`, `Panel`, and
the proofs listed above.

What is left, in this order:

1. A composition of `HaSession` and `SetupWizard`, which share the station: how
   a wizard that joins another network ends the session.
2. The temperature slider of a climate row in `Panel`, next to the light's.
3. Theorems that need less than they now assume: `ServesSelected` with requests
   that overlap an answer after its slot was read, and `StoredAsFilledIn` with
   restarts on a device that has stored nothing yet.
