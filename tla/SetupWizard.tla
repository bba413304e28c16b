----------------------------- MODULE SetupWizard -----------------------------
(***************************************************************************)
(* The setup wizard: the three steps of ui_setup.c with their LVGL timers, *)
(* the provisioning web server (web_config.c, whose handler runs in the    *)
(* task of the HTTP server), the station of wifi.c, the keys it writes to  *)
(* NVS one by one (storage.c), and restarts. The ha_ws task takes part     *)
(* with the WiFi loop it runs before its first connection.                 *)
(*                                                                         *)
(* A form stands for an HA address and a token that belong together, so a  *)
(* stored pair is consistent when both come from the same form.            *)
(***************************************************************************)
EXTENDS Naturals

CONSTANTS
  Networks,     \* names a scan can find
  Passwords,    \* what the user can type, NoPassword among it
  NoPassword,   \* the empty text
  Works,        \* the <<name, password>> pairs an access point accepts
  Forms,        \* what can be filled in: <<address, token>> pairs
  ConnectTicks, \* polls until a connection attempt is given up (30)
  MaxTimers,    \* bound on the timers that wait at the same time
  Env           \* what the surroundings do in this instance, see AllEnv

\* No value: an empty key, no request.
None == "none"

AllEnv == {"restart", "resubmit", "drop", "http_fails"}

ASSUME WizardAssumption ==
  /\ NoPassword \in Passwords
  /\ Works \subseteq Networks \X Passwords
  /\ None \notin Networks \cup Passwords \cup Forms
  /\ ConnectTicks \in Nat /\ MaxTimers \in Nat
  /\ Env \subseteq AllEnv

VARIABLES
  nvs,      \* the keys of namespace ha-cfg
  open,     \* the setup screen is the active one
  step,     \* the visible step
  canExit,  \* s_can_exit
  sel,      \* s_sel_ssid
  pwd,      \* the text of s_pwd_ta
  scanning, \* s_scan_timer # NULL
  scan,     \* the driver's scan, with SCAN_DONE_BIT
  listed,   \* the list shows networks
  conn,     \* the connect_poll_cb timers
  ticks,    \* s_connect_ticks
  web,      \* the webconf_poll_cb timers
  ui,       \* "free", or where the UI task is in storing a configuration
  got,      \* the local copy it stores
  server,   \* s_server # NULL
  done,     \* s_done
  result,   \* s_result
  post,     \* the request the HTTP server is handling
  sta,      \* the station: its credentials and its link
  haPc,     \* the WiFi loop of ha_client_run
  haCred    \* the credentials ha_client_run read from NVS

screenVars == <<open, step, canExit, sel, pwd>>
scanVars   == <<scanning, scan, listed>>
timerVars  == <<conn, ticks, web>>
saveVars   == <<nvs, ui, got>>
serverVars == <<server, done, result, post>>
haVars     == <<haPc, haCred>>
vars == <<screenVars, scanVars, timerVars, saveVars, serverVars, sta, haVars>>

Keys == {"ssid", "pass", "url", "token", "configured"}

\* Timers: how many there are and whether the static handle names one.
NoTimer == [live |-> 0, known |-> FALSE]

Created(t) == [live |-> t.live + 1, known |-> TRUE]

\* Mutant of Fired: the callback deletes its timer and keeps the handle.
FiredKeepsHandle(t) == [live |-> t.live - 1, known |-> t.known]

\* Mutant of Fired: the callback forgets to delete its timer.
FiredRepeats(t) == [live |-> t.live, known |-> FALSE]

\* A callback deletes its own timer and clears the handle, which may be
\* that of another timer.
Fired(t) == [live |-> t.live - 1, known |-> FALSE]

Cancelled(t) == IF t.known THEN [live |-> t.live - 1, known |-> FALSE] ELSE t

Forgotten(t) == [t EXCEPT !.known = FALSE]

\* The UI task runs one callback at a time.
UiFree == ui = "free"

----------------------------------------------------------------------------
(* wifi.c                                                                  *)

Connect(cred) == sta' = [cred |-> cred, link |-> "joining"]

\* esp_wifi_scan_start, whose result nobody looks at: the driver refuses a
\* scan while the station is joining.
StartScan ==
  IF scanning
    THEN UNCHANGED scanVars
    ELSE /\ scanning' = TRUE
         /\ scan' = (IF sta.link = "joining" THEN "none" ELSE "running")
         /\ listed' = FALSE

ScanFinds ==
  /\ scan = "running"
  /\ scan' = "done"
  /\ UNCHANGED <<screenVars, scanning, listed, timerVars, saveVars,
                 serverVars, sta, haVars>>

StaJoins ==
  /\ sta.link = "joining" /\ sta.cred \in Works
  /\ sta' = [sta EXCEPT !.link = "up"]
  /\ UNCHANGED <<screenVars, scanVars, timerVars, saveVars, serverVars, haVars>>

StaFails ==
  /\ sta.link = "joining" \/ (sta.link = "up" /\ "drop" \in Env)
  /\ sta' = [sta EXCEPT !.link = "down"]
  /\ UNCHANGED <<screenVars, scanVars, timerVars, saveVars, serverVars, haVars>>

----------------------------------------------------------------------------
(* web_config.c                                                            *)

\* web_config_start: a server that is still running keeps its result.
StartServer ==
  IF server
    THEN UNCHANGED serverVars
    ELSE /\ server' \in IF "http_fails" \in Env THEN BOOLEAN ELSE {TRUE}
         /\ done' = FALSE
         /\ result' = [url |-> None, token |-> None]
         /\ post' = post

\* web_config_stop waits until the server's task has finished its request.
StopServer ==
  /\ post.form = None
  /\ server' = FALSE
  /\ UNCHANGED <<done, result, post>>

Posting(form, at) == post' = [form |-> form, at |-> at]

\* post_save writes the two fields and the flag one after the other. A server
\* that is being stopped takes no new request. Without "resubmit" nobody
\* submits a form again.
PostUrl(form) ==
  /\ server /\ ui # "stop" /\ post.form = None
  /\ ~done \/ "resubmit" \in Env
  /\ result' = [result EXCEPT !.url = form]
  /\ Posting(form, "token")
  /\ UNCHANGED done

PostToken ==
  /\ post.at = "token"
  /\ result' = [result EXCEPT !.token = post.form]
  /\ Posting(post.form, "done")
  /\ UNCHANGED done

PostDone ==
  /\ post.at = "done"
  /\ done' = TRUE
  /\ Posting(None, None)
  /\ UNCHANGED result

\* Mutant of HttpTask: the flag is set before the fields are written.
HttpTaskFlagsFirst ==
  /\ \/ \E form \in Forms : PostUrl(form)
     \/ post.at = "token" /\ done' = TRUE /\ Posting(post.form, "done")
        /\ UNCHANGED result
     \/ /\ post.at = "done"
        /\ result' = [result EXCEPT !.token = post.form]
        /\ Posting(None, None)
        /\ UNCHANGED done
  /\ UNCHANGED <<screenVars, scanVars, timerVars, saveVars, server, sta, haVars>>

HttpTask ==
  /\ (\E form \in Forms : PostUrl(form)) \/ PostToken \/ PostDone
  /\ UNCHANGED <<screenVars, scanVars, timerVars, saveVars, server, sta, haVars>>

----------------------------------------------------------------------------
(* The screen                                                              *)

\* Mutant of WatchForm: step 2 without the poll for its result.
WatchFormNever == StartServer /\ UNCHANGED web

\* start_web_config and the timer that polls for its result.
WatchForm == StartServer /\ web' = Created(web)

\* ui_setup_create: every widget is new; s_sel_ssid stays and the timer
\* handles are only forgotten. Step 1 is skipped on a connected device.
CreateScreen(configured, link) ==
  /\ open' = TRUE /\ canExit' = configured
  /\ pwd' = NoPassword
  /\ conn' = Forgotten(conn)
  /\ IF configured /\ link = "up"
       THEN /\ step' = 2
            /\ StartServer /\ web' = Created(web)
            /\ scanning' = FALSE /\ scan' = scan /\ listed' = FALSE
       ELSE /\ step' = 1
            /\ web' = Forgotten(web) /\ UNCHANGED serverVars
            /\ scanning' = TRUE /\ listed' = FALSE
            /\ scan' = (IF link = "joining" THEN "none" ELSE "running")
  /\ UNCHANGED <<sel, ticks>>

OpenSetup ==
  /\ UiFree /\ ~open
  /\ conn.live + web.live < MaxTimers
  /\ CreateScreen(nvs.configured, sta.link)
  /\ UNCHANGED <<saveVars, sta, haVars>>

\* exit_btn_cb, on steps 1 and 2 of a configured device.
ExitSetup ==
  /\ UiFree /\ open /\ canExit /\ step \in {1, 2}
  /\ scanning' = FALSE
  /\ conn' = Cancelled(conn) /\ web' = Cancelled(web)
  /\ StopServer
  /\ open' = FALSE
  /\ UNCHANGED <<step, canExit, sel, pwd, scan, listed, ticks, saveVars, sta,
                 haVars>>

\* scan_btn_cb
TapScan ==
  /\ UiFree /\ open /\ step = 1
  /\ StartScan
  /\ UNCHANGED <<screenVars, timerVars, saveVars, serverVars, sta, haVars>>

\* wifi_step_btn_cb, for a configured device.
TapWifiStep ==
  /\ UiFree /\ open /\ canExit /\ step = 2
  /\ step' = 1
  /\ StartScan
  /\ UNCHANGED <<open, canExit, sel, pwd, timerVars, saveVars, serverVars, sta,
                 haVars>>

TapNetwork ==
  /\ UiFree /\ open /\ step = 1 /\ listed
  /\ sel' \in Networks
  /\ UNCHANGED <<open, step, canExit, pwd, scanVars, timerVars, saveVars,
                 serverVars, sta, haVars>>

TypePassword ==
  /\ UiFree /\ open /\ step = 1
  /\ pwd' \in Passwords
  /\ UNCHANGED <<open, step, canExit, sel, scanVars, timerVars, saveVars,
                 serverVars, sta, haVars>>

\* connect_btn_cb: every tap makes a timer, the button stays enabled.
TapConnect ==
  /\ UiFree /\ open /\ step = 1 /\ sel # None
  /\ conn.live + web.live < MaxTimers
  /\ ticks' = 0
  /\ Connect(<<sel, pwd>>)
  /\ conn' = Created(conn)
  /\ UNCHANGED <<screenVars, scanVars, web, saveVars, serverVars, haVars>>

TapDone == UiFree /\ open /\ step = 3

----------------------------------------------------------------------------
(* The timers                                                              *)

\* scan_poll_cb
ScanPoll ==
  /\ UiFree /\ scanning /\ scan = "done"
  /\ scanning' = FALSE
  /\ listed' \in BOOLEAN
  /\ UNCHANGED <<screenVars, scan, timerVars, saveVars, serverVars, sta, haVars>>

\* connect_poll_cb, of any of its timers: connected, given up or waiting.
ConnectPoll ==
  /\ UiFree /\ conn.live > 0
  /\ \/ /\ sta.link = "up"
        /\ ticks' = ticks + 1 /\ conn' = Fired(conn)
        /\ step' = 2
        /\ WatchForm
     \/ /\ sta.link # "up" /\ ticks >= ConnectTicks
        /\ ticks' = ticks + 1 /\ conn' = Fired(conn)
        /\ UNCHANGED <<step, web, serverVars>>
     \/ /\ sta.link # "up" /\ ticks < ConnectTicks
        /\ ticks' = ticks + 1
        /\ UNCHANGED <<step, conn, web, serverVars>>
  /\ UNCHANGED <<open, canExit, sel, pwd, scanVars, saveVars, sta, haVars>>

\* WiFi credentials are stored when a network is selected.
FirstKey == IF sel # None THEN "ssid" ELSE "url"

\* webconf_poll_cb copies the result field by field, stops the server and
\* stores what it has.
WebPoll ==
  /\ UiFree /\ web.live > 0 /\ done
  /\ web' = Fired(web)
  /\ got' = [got EXCEPT !.url = result.url]
  /\ ui' = "copy"
  /\ UNCHANGED <<screenVars, scanVars, conn, ticks, nvs, serverVars, sta, haVars>>

CopyToken ==
  /\ ui = "copy"
  /\ got' = [got EXCEPT !.token = result.token]
  /\ ui' = "stop"
  /\ UNCHANGED <<screenVars, scanVars, timerVars, nvs, serverVars, sta, haVars>>

StopAndStore ==
  /\ ui = "stop"
  /\ StopServer
  /\ ui' = FirstKey
  /\ UNCHANGED <<screenVars, scanVars, timerVars, nvs, got, sta, haVars>>

\* manual_save_cb
ManualSave ==
  /\ UiFree /\ open /\ step = 2
  /\ StopServer
  /\ web' = Cancelled(web)
  /\ \E form \in Forms : got' = [url |-> form, token |-> form]
  /\ ui' = FirstKey
  /\ UNCHANGED <<screenVars, scanVars, conn, ticks, nvs, sta, haVars>>

\* The order of the writes; each key is committed on its own.
NextKey == [ssid |-> "pass", pass |-> "url", url |-> "token",
            token |-> "configured", configured |-> "free"]

StoredValue == [ssid |-> sel, pass |-> pwd, url |-> got.url,
                token |-> got.token, configured |-> TRUE]

\* Mutant of StoreKey: "configured" is set with the first write.
StoreKeyFlagFirst ==
  /\ ui \in Keys
  /\ nvs' = [nvs EXCEPT ![ui] = StoredValue[ui], !.configured = TRUE]
  /\ ui' = NextKey[ui]
  /\ step' = IF ui = "configured" THEN 3 ELSE step
  /\ UNCHANGED <<open, canExit, sel, pwd, scanVars, timerVars, got, serverVars,
                 sta, haVars>>

StoreKey ==
  /\ ui \in Keys
  /\ nvs' = [nvs EXCEPT ![ui] = StoredValue[ui]]
  /\ ui' = NextKey[ui]
  /\ step' = IF ui = "configured" THEN 3 ELSE step
  /\ UNCHANGED <<open, canExit, sel, pwd, scanVars, timerVars, got, serverVars,
                 sta, haVars>>

----------------------------------------------------------------------------
(* ha_client_run until its first connection: on a configured device only   *)

HaJoins ==
  /\ haPc = "join"
  /\ Connect(haCred)
  /\ haPc' = "wait"
  /\ UNCHANGED <<screenVars, scanVars, timerVars, saveVars, serverVars, haCred>>

\* wifi_wait_connected returns: connected, or after 30 s without a link.
HaWaited ==
  /\ haPc = "wait"
  /\ haPc' = IF sta.link = "up" THEN "done" ELSE "join"
  /\ UNCHANGED <<screenVars, scanVars, timerVars, saveVars, serverVars, sta,
                 haCred>>

HaTask == HaJoins \/ HaWaited

----------------------------------------------------------------------------
(* Start and restart                                                       *)

Blank == [ssid |-> None, pass |-> None, url |-> None, token |-> None,
          configured |-> FALSE]

Provisioned(cred, form) ==
  [ssid |-> cred[1], pass |-> cred[2], url |-> form, token |-> form,
   configured |-> TRUE]

\* The WiFi loop starts on a configured device that knows a network.
FirstHaPc(stored) ==
  IF stored.configured /\ stored.ssid # None THEN "join" ELSE "idle"

Init ==
  /\ \/ nvs = Blank
     \/ \E cred \in Works, form \in Forms : nvs = Provisioned(cred, form)
  /\ open = ~nvs.configured /\ canExit = FALSE /\ step = 1
  /\ sel = None /\ pwd = NoPassword
  /\ scanning = ~nvs.configured /\ listed = FALSE
  /\ scan = IF nvs.configured THEN "none" ELSE "running"
  /\ conn = NoTimer /\ web = NoTimer /\ ticks = 0
  /\ ui = "free" /\ got = [url |-> None, token |-> None]
  /\ server = FALSE /\ done = FALSE
  /\ result = [url |-> None, token |-> None]
  /\ post = [form |-> None, at |-> None]
  /\ sta = [cred |-> <<None, None>>, link |-> "down"]
  /\ haPc = FirstHaPc(nvs) /\ haCred = <<nvs.ssid, nvs.pass>>

\* The button of step 3, or the power.
Restart ==
  /\ TapDone \/ "restart" \in Env
  /\ open' = ~nvs.configured /\ canExit' = FALSE /\ step' = 1
  /\ sel' = None /\ pwd' = NoPassword
  /\ scanning' = ~nvs.configured /\ listed' = FALSE
  /\ scan' = IF nvs.configured THEN "none" ELSE "running"
  /\ conn' = NoTimer /\ web' = NoTimer /\ ticks' = 0
  /\ ui' = "free" /\ got' = [url |-> None, token |-> None]
  /\ server' = FALSE /\ done' = FALSE
  /\ result' = [url |-> None, token |-> None]
  /\ post' = [form |-> None, at |-> None]
  /\ sta' = [cred |-> <<None, None>>, link |-> "down"]
  /\ haPc' = FirstHaPc(nvs) /\ haCred' = <<nvs.ssid, nvs.pass>>
  /\ UNCHANGED nvs

Tap == \/ OpenSetup \/ ExitSetup \/ TapScan \/ TapWifiStep \/ TapNetwork
       \/ TypePassword \/ TapConnect \/ ManualSave
Poll  == ScanPoll \/ ConnectPoll \/ WebPoll
Store == CopyToken \/ StopAndStore \/ StoreKey
Station == ScanFinds \/ StaJoins \/ StaFails

Next == Tap \/ Poll \/ Store \/ HttpTask \/ HaTask \/ Station \/ Restart

Spec == Init /\ [][Next]_vars

\* LVGL runs every timer that is due and finishes a callback, the server
\* finishes a request, the driver a scan. Nobody has to submit a form.
Fairness ==
  /\ WF_vars(ScanPoll) /\ WF_vars(WebPoll) /\ WF_vars(Store)
  /\ WF_vars(HttpTask /\ post.form # None)
  /\ WF_vars(ScanFinds)

FairSpec == Spec /\ Fairness

----------------------------------------------------------------------------
(* Properties                                                              *)

NvsContent == [ssid : Networks \cup {None}, pass : Passwords \cup {None},
               url : Forms \cup {None}, token : Forms \cup {None},
               configured : BOOLEAN]
Timer      == [live : Nat, known : BOOLEAN]
Pair       == [url : Forms \cup {None}, token : Forms \cup {None}]
Request    == [form : Forms \cup {None}, at : {None, "token", "done"}]
Credential == (Networks \cup {None}) \X (Passwords \cup {None})
StaState   == [cred : Credential, link : {"down", "joining", "up"}]

\* Every field has its type; the ticks that two timers share end soon after
\* the limit.
TypeOK ==
  /\ nvs \in NvsContent
  /\ open \in BOOLEAN /\ canExit \in BOOLEAN /\ step \in 1..3
  /\ sel \in Networks \cup {None} /\ pwd \in Passwords
  /\ scanning \in BOOLEAN /\ listed \in BOOLEAN
  /\ scan \in {"none", "running", "done"}
  /\ conn \in Timer /\ web \in Timer
  /\ ticks \in 0..(ConnectTicks + MaxTimers)
  /\ ui \in Keys \cup {"free", "copy", "stop"} /\ got \in Pair
  /\ server \in BOOLEAN /\ done \in BOOLEAN
  /\ result \in Pair /\ post \in Request
  /\ sta \in StaState
  /\ haPc \in {"idle", "join", "wait", "done"} /\ haCred \in Credential

\* A device that calls itself configured has everything a start needs,
\* whenever the power went and however often the wizard was left.
ConfiguredComplete ==
  nvs.configured => /\ nvs.ssid # None /\ nvs.pass # None
                    /\ nvs.url # None /\ nvs.token # None

\* lv_timer_del is only ever called on a timer that still exists: a handle
\* that is not NULL names a live timer, also after two taps on Verbinden.
HandlesLive == (conn.known => conn.live > 0) /\ (web.known => web.live > 0)

\* status.md:144: leaving the wizard cleans up its timers and its server.
ExitCleansUp == ~open => conn.live = 0 /\ web.live = 0 /\ ~server

\* Address and token in NVS were filled in together, whatever timers are
\* left over. (Instances without restarts and second submissions.)
StoredAsFilledIn == UiFree => nvs.url = nvs.token

\* A form that was accepted while the wizard is open gets stored.
FormIsStored == (open /\ server /\ done) ~> (step = 3 \/ ~open \/ ~done)
=============================================================================
