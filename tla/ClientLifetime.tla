--------------------------- MODULE ClientLifetime ---------------------------
(***************************************************************************)
(* The life of a websocket client: who may still use it when it is freed.  *)
(* ha_client_run creates, starts, polls, stops and destroys it; the task   *)
(* of the library runs its loop; the UI task tests s_client and sends.     *)
(* Each step is an access to what they share: run, state, STOPPED_BIT, the *)
(* recursive lock, s_client and the memory itself.                         *)
(*                                                                         *)
(* Memory that has been freed keeps its content: the next client is made   *)
(* at least 5 s later, and nothing else of that size is allocated between. *)
(* Events are dispatched by the task they occur in (an event loop without  *)
(* a task, which is external).                                             *)
(***************************************************************************)
EXTENDS Naturals

CONSTANT MaxClients  \* bound on the clients made

ASSUME LifetimeAssumption == MaxClients \in Nat

VARIABLES
  made,     \* clients made so far
  sClient,  \* s_client # NULL
  alive,    \* the memory of the latest client is allocated
  run,      \* client->run
  sock,     \* client->state
  stopped,  \* STOPPED_BIT
  closeSent,\* CLOSE_FRAME_SENT_BIT
  lock,     \* who holds client->lock
  haPc,     \* where ha_client_run is
  wsPc,     \* where the task of the library is
  uiPc,     \* where the UI task is in a send
  event,    \* the event a dispatch in the websocket task is about
  reading,  \* read_select: data, nothing or a broken link
  told,     \* history: the handler got a DISCONNECTED or ERROR
  wasUp,    \* history: this client was connected
  closed,   \* history: the server sent a close frame
  cut,      \* history: it was connected after its stop was asked for
  usedBy    \* history: tasks that used a client after it was freed

shared  == <<run, sock, stopped, closeSent, lock>>
history == <<told, wasUp, closed, cut, usedBy>>
wsLocal == <<wsPc, event, reading>>
vars == <<made, sClient, alive, shared, haPc, wsLocal, uiPc, history>>

None == "none"

HaPcs == {"connect", "await", "poll", "stop", "stopSet", "stopWait",
          "stopState", "destroy", "free", "clear", "backoff"}
WsPcs == {"none", "created", "setup", "test", "take", "step", "error", "abort",
          "dispatch", "give", "select", "selectError", "selectAbort",
          "selectTell", "closed", "close", "bit", "last"}
UiPcs == {"idle", "tested", "checked", "write", "error", "abort", "tell", "give"}

\* An access to the client by task t.
Touch(t) == usedBy' = IF alive THEN usedBy ELSE usedBy \cup {t}

----------------------------------------------------------------------------
(* ha_client_run                                                           *)

\* connect_once: init and start. The task sets run itself, later.
Connect ==
  /\ haPc = "connect" /\ made < MaxClients
  /\ made' = made + 1
  /\ sClient' = TRUE /\ alive' = TRUE
  /\ run' = FALSE /\ sock' = "unknown" /\ lock' = None
  /\ stopped' = FALSE /\ closeSent' = FALSE
  /\ wsPc' = "created" /\ event' = None /\ reading' = "nothing"
  /\ told' = FALSE /\ wasUp' = FALSE /\ closed' = FALSE /\ cut' = FALSE
  /\ haPc' = "await"
  /\ UNCHANGED <<uiPc, usedBy>>

\* esp_websocket_client_is_connected, polled; 15 s are enough for the task
\* to have begun.
SeesConnected ==
  /\ haPc = "await" /\ sock = "connected"
  /\ haPc' = "poll"
  /\ UNCHANGED <<made, sClient, alive, shared, wsLocal, uiPc, history>>

LeavesLoop ==
  /\ \/ haPc = "await" /\ sock # "connected" /\ wsPc \notin {"created", "setup"}
     \/ haPc = "poll" /\ sock # "connected"
  /\ haPc' = "stop"
  /\ UNCHANGED <<made, sClient, alive, shared, wsLocal, uiPc, history>>

\* esp_websocket_client_stop
Stop ==
  /\ haPc = "stop"
  /\ haPc' = IF run THEN "stopSet" ELSE "destroy"
  /\ UNCHANGED <<made, sClient, alive, shared, wsLocal, uiPc, history>>

StopSet ==
  /\ haPc = "stopSet"
  /\ run' = FALSE
  /\ cut' = (sock = "connected")
  /\ haPc' = "stopWait"
  /\ UNCHANGED <<made, sClient, alive, sock, stopped, closeSent, lock, wsLocal,
                 uiPc, told, wasUp, closed, usedBy>>

\* Mutant of StopState: the state of the enumeration that nothing handles.
StopStateError ==
  /\ haPc = "stopState"
  /\ sock' = "error"
  /\ haPc' = "destroy"
  /\ UNCHANGED <<made, sClient, alive, run, stopped, closeSent, lock, wsLocal,
                 uiPc, history>>

\* Mutant of StopWait: no wait for the task.
StopWaitNot ==
  /\ haPc = "stopWait"
  /\ haPc' = "stopState"
  /\ UNCHANGED <<made, sClient, alive, shared, wsLocal, uiPc, history>>

\* xEventGroupWaitBits without a limit.
StopWait ==
  /\ haPc = "stopWait" /\ stopped
  /\ haPc' = "stopState"
  /\ UNCHANGED <<made, sClient, alive, shared, wsLocal, uiPc, history>>

StopState ==
  /\ haPc = "stopState"
  /\ sock' = "unknown"
  /\ haPc' = "destroy"
  /\ UNCHANGED <<made, sClient, alive, run, stopped, closeSent, lock, wsLocal,
                 uiPc, history>>

\* esp_websocket_client_destroy stops what still runs, then frees.
Destroy ==
  /\ haPc = "destroy"
  /\ haPc' = IF run THEN "stopSet" ELSE "free"
  /\ UNCHANGED <<made, sClient, alive, shared, wsLocal, uiPc, history>>

Free ==
  /\ haPc = "free"
  /\ alive' = FALSE
  /\ haPc' = "clear"
  /\ UNCHANGED <<made, sClient, shared, wsLocal, uiPc, history>>

ClearClient ==
  /\ haPc = "clear"
  /\ sClient' = FALSE
  /\ haPc' = "backoff"
  /\ UNCHANGED <<made, alive, shared, wsLocal, uiPc, history>>

\* At least 5 s: the old task has ended, the UI task has returned.
BackoffOver ==
  /\ haPc = "backoff" /\ wsPc = "none" /\ uiPc = "idle"
  /\ haPc' = "connect"
  /\ UNCHANGED <<made, sClient, alive, shared, wsLocal, uiPc, history>>

HaTask == Connect \/ SeesConnected \/ LeavesLoop \/ Stop \/ StopSet \/ StopWait
            \/ StopState \/ Destroy \/ Free \/ ClearClient \/ BackoffOver

----------------------------------------------------------------------------
(* esp_websocket_client_task                                               *)

WsGo(from, to) == wsPc = from /\ wsPc' = to /\ Touch("ws")

haSide == <<made, sClient, alive, haPc, uiPc>>

WsBegin ==
  /\ WsGo("created", "setup")
  /\ run' = TRUE
  /\ UNCHANGED <<haSide, sock, stopped, closeSent, lock, event, reading, told,
                 wasUp, closed, cut>>

WsSetup ==
  /\ WsGo("setup", "test")
  /\ sock' = "init"
  /\ stopped' = FALSE /\ closeSent' = FALSE
  /\ UNCHANGED <<haSide, run, lock, event, reading, told, wasUp, closed, cut>>

WsTestRun ==
  /\ WsGo("test", IF run THEN "take" ELSE "close")
  /\ UNCHANGED <<haSide, shared, event, reading, told, wasUp, closed, cut>>

WsTakeLock ==
  /\ lock = None
  /\ WsGo("take", "step")
  /\ lock' = "ws"
  /\ UNCHANGED <<haSide, run, sock, stopped, closeSent, event, reading, told,
                 wasUp, closed, cut>>

\* State INIT: the transport connects or fails within its timeout.
WsConnects ==
  /\ sock = "init"
  /\ \/ WsGo("step", "dispatch") /\ sock' = "connected" /\ event' = "CONNECTED"
        /\ wasUp' = TRUE /\ cut' = (cut \/ ~run)
     \/ WsGo("step", "error") /\ UNCHANGED <<sock, event, wasUp, cut>>
  /\ UNCHANGED <<haSide, run, stopped, closeSent, lock, reading, told, closed>>

\* State CONNECTED: a missing PONG, a failed read, data, a close frame, or
\* nothing to read.
WsServes ==
  /\ sock = "connected"
  /\ \/ WsGo("step", "error") /\ UNCHANGED <<sock, event, closed>>
     \/ WsGo("step", "give") /\ UNCHANGED <<sock, event, closed>>
     \/ reading = "data" /\ WsGo("step", "dispatch") /\ event' = "DATA"
          /\ UNCHANGED <<sock, closed>>
     \/ reading = "data" /\ WsGo("step", "give") /\ sock' = "closing"
          /\ closed' = TRUE /\ UNCHANGED event
  /\ UNCHANGED <<haSide, run, stopped, closeSent, lock, reading, told, wasUp, cut>>

\* Mutant of WsGivesUp: the library reconnects by itself.
WsGivesUpNot ==
  /\ sock = "wait_timeout"
  /\ WsGo("step", "give")
  /\ sock' = "init"
  /\ UNCHANGED <<haSide, run, stopped, closeSent, lock, event, reading, told,
                 wasUp, closed, cut>>

\* State WAIT_TIMEOUT without auto reconnect; states CLOSING and UNKNOW.
WsGivesUp ==
  /\ sock = "wait_timeout"
  /\ WsGo("step", "give")
  /\ run' = FALSE
  /\ UNCHANGED <<haSide, sock, stopped, closeSent, lock, event, reading, told,
                 wasUp, closed, cut>>

WsEchoesClose ==
  /\ sock \in {"closing", "unknown"}
  /\ WsGo("step", "give")
  /\ closeSent' = (closeSent \/ sock = "closing")
  /\ UNCHANGED <<haSide, run, sock, stopped, lock, event, reading, told, wasUp, closed, cut>>

\* esp_websocket_client_error: an ERROR event, unless there is no memory
\* for its text.
WsError ==
  /\ \/ WsGo("error", "abort")
     \/ WsGo("selectError", "selectAbort")
  /\ told' \in {told, TRUE}
  /\ UNCHANGED <<haSide, shared, event, reading, wasUp, closed, cut>>

\* abort_connection of a client that has not been stopped: the state, then
\* DISCONNECTED.
Aborted == IF sock = "unknown" THEN "unknown" ELSE "wait_timeout"

WsAbort ==
  /\ \/ WsGo("abort", "dispatch")
     \/ WsGo("selectAbort", "selectTell")
  /\ sock' = Aborted
  /\ event' = IF sock = "unknown" THEN None ELSE "DISCONNECTED"
  /\ UNCHANGED <<haSide, run, stopped, closeSent, lock, reading, told, wasUp, closed, cut>>

WsDispatch ==
  /\ \/ WsGo("dispatch", "give")
     \/ WsGo("selectTell", "test")
  /\ told' = (told \/ event = "DISCONNECTED")
  /\ event' = None
  /\ UNCHANGED <<haSide, shared, reading, wasUp, closed, cut>>

WsGiveLock ==
  /\ WsGo("give", "select")
  /\ lock' = None
  /\ UNCHANGED <<haSide, run, sock, stopped, closeSent, event, reading, told,
                 wasUp, closed, cut>>

\* Mutant of WsSelect: a poll that fails leaves the loop.
WsSelectSilent ==
  /\ \/ /\ sock = "connected"
        /\ \/ WsGo("select", "test") /\ reading' \in {"data", "nothing"}
              /\ UNCHANGED run
           \/ WsGo("select", "close") /\ run' = FALSE /\ UNCHANGED reading
     \/ /\ sock = "closing" /\ closeSent
        /\ WsGo("select", "closed")
        /\ run' = FALSE
        /\ UNCHANGED reading
     \/ /\ sock # "connected"
        /\ ~(sock = "closing" /\ closeSent)
        /\ WsGo("select", "test")
        /\ UNCHANGED <<run, reading>>
  /\ UNCHANGED <<haSide, sock, stopped, closeSent, lock, event, told, wasUp, closed, cut>>

\* After the lock: poll for data while connected (an error is handled here,
\* without the lock), or wait for the end of a closed connection.
WsSelect ==
  /\ \/ /\ sock = "connected"
        /\ \/ WsGo("select", "test") /\ reading' \in {"data", "nothing"}
           \/ WsGo("select", "selectError") /\ UNCHANGED reading
        /\ UNCHANGED run
     \/ /\ sock = "closing" /\ closeSent
        /\ WsGo("select", "closed")
        /\ run' = FALSE
        /\ UNCHANGED reading
     \/ /\ sock # "connected"
        /\ ~(sock = "closing" /\ closeSent)
        /\ WsGo("select", "test")
        /\ UNCHANGED <<run, reading>>
  /\ UNCHANGED <<haSide, sock, stopped, closeSent, lock, event, told, wasUp, closed, cut>>

\* WEBSOCKET_EVENT_CLOSED, which the firmware's handler ignores.
WsClosed ==
  /\ WsGo("closed", "close")
  /\ sock' = "unknown"
  /\ UNCHANGED <<haSide, run, stopped, closeSent, lock, event, reading, told,
                 wasUp, closed, cut>>

WsCloseTransport ==
  /\ WsGo("close", "bit")
  /\ UNCHANGED <<haSide, shared, event, reading, told, wasUp, closed, cut>>

\* Mutant of WsSetStopped: the bit is forgotten.
WsSetStoppedNot ==
  /\ WsGo("bit", "last")
  /\ UNCHANGED <<haSide, shared, event, reading, told, wasUp, closed, cut>>

WsSetStopped ==
  /\ WsGo("bit", "last")
  /\ stopped' = TRUE
  /\ UNCHANGED <<haSide, run, sock, closeSent, lock, event, reading, told,
                 wasUp, closed, cut>>

\* The last accesses of the task: state and selected_for_destroying.
WsEnds ==
  /\ WsGo("last", "none")
  /\ sock' = "unknown"
  /\ UNCHANGED <<haSide, run, stopped, closeSent, lock, event, reading, told,
                 wasUp, closed, cut>>

WsTask == WsBegin \/ WsSetup \/ WsTestRun \/ WsTakeLock \/ WsConnects
            \/ WsServes \/ WsGivesUp \/ WsEchoesClose \/ WsError \/ WsAbort
            \/ WsDispatch \/ WsGiveLock \/ WsSelect \/ WsClosed
            \/ WsCloseTransport \/ WsSetStopped \/ WsEnds

----------------------------------------------------------------------------
(* The UI task: ha_client_toggle and its like, down to the socket          *)

uiSide == <<made, sClient, alive, haPc, wsLocal, wasUp, closed, cut>>
UiGo(from, to) == uiPc = from /\ uiPc' = to /\ Touch("ui")

UiTests ==
  /\ uiPc = "idle" /\ sClient
  /\ uiPc' = "tested"
  /\ UNCHANGED <<uiSide, shared, told, usedBy>>

\* The lock, within 2 s, or an error.
UiTakesLock ==
  /\ \/ lock = None /\ UiGo("tested", "checked") /\ lock' = "ui"
     \/ lock # None /\ UiGo("tested", "idle") /\ UNCHANGED lock
  /\ UNCHANGED <<uiSide, run, sock, stopped, closeSent, told>>

UiChecks ==
  /\ UiGo("checked", IF sock = "connected" THEN "write" ELSE "give")
  /\ UNCHANGED <<uiSide, shared, told>>

UiWrites ==
  /\ UiGo("write", "give") \/ UiGo("write", "error")
  /\ UNCHANGED <<uiSide, shared, told>>

UiError ==
  /\ UiGo("error", "abort")
  /\ told' \in {told, TRUE}
  /\ UNCHANGED <<uiSide, shared>>

UiAbort ==
  /\ UiGo("abort", IF sock = "unknown" THEN "give" ELSE "tell")
  /\ sock' = Aborted
  /\ UNCHANGED <<uiSide, run, stopped, closeSent, lock, told>>

UiTells ==
  /\ UiGo("tell", "give")
  /\ told' = TRUE
  /\ UNCHANGED <<uiSide, shared>>

UiGivesLock ==
  /\ UiGo("give", "idle")
  /\ lock' = None
  /\ UNCHANGED <<uiSide, run, sock, stopped, closeSent, told>>

UiTask == UiTests \/ UiTakesLock \/ UiChecks \/ UiWrites \/ UiError \/ UiAbort
            \/ UiTells \/ UiGivesLock

----------------------------------------------------------------------------

Init ==
  /\ made = 0 /\ sClient = FALSE /\ alive = FALSE
  /\ run = FALSE /\ sock = "unknown" /\ stopped = FALSE /\ closeSent = FALSE
  /\ lock = None
  /\ haPc = "connect" /\ wsPc = "none" /\ uiPc = "idle"
  /\ event = None /\ reading = "nothing"
  /\ told = FALSE /\ wasUp = FALSE /\ closed = FALSE /\ cut = FALSE /\ usedBy = {}

Next == HaTask \/ WsTask \/ UiTask

Spec == Init /\ [][Next]_vars

\* The scheduler runs each task that is ready; the UI task's call ends. The
\* lock goes to the task that waits for it: taps are far apart.
FairSpec == /\ Spec
            /\ WF_vars(HaTask) /\ WF_vars(WsTask) /\ SF_vars(WsTakeLock)
            /\ WF_vars(UiTask /\ uiPc # "idle")

----------------------------------------------------------------------------
(* Properties                                                              *)

\* The type invariant. No state is left that the library does not handle.
TypeOK ==
  /\ made \in 0..MaxClients
  /\ sClient \in BOOLEAN /\ alive \in BOOLEAN
  /\ run \in BOOLEAN /\ stopped \in BOOLEAN /\ closeSent \in BOOLEAN
  /\ sock \in {"unknown", "init", "connected", "wait_timeout", "closing"}
  /\ lock \in {None, "ws", "ui"}
  /\ haPc \in HaPcs /\ wsPc \in WsPcs /\ uiPc \in UiPcs
  /\ event \in {None, "CONNECTED", "DATA", "DISCONNECTED"}
  /\ reading \in {"data", "nothing"}
  /\ told \in BOOLEAN /\ wasUp \in BOOLEAN /\ closed \in BOOLEAN /\ cut \in BOOLEAN
  /\ usedBy \subseteq {"ws", "ui"}

\* A task whose client has been freed is past its last event: it can give
\* the lock back, leave the loop and end, but calls no handler the firmware
\* listens to. HaSession relies on it.
SilentAfterFree ==
  ~alive => wsPc \in {"none", "give", "select", "test", "closed", "close",
                      "bit", "last"}

\* A connection that was up does not disappear in silence: the handler was
\* told, or the server closed it, or it came up in the very moment the
\* attempt was given up.
LossTold == (haPc = "backoff" /\ uiPc = "idle" /\ wasUp) => told \/ closed \/ cut

\* A stop that waits comes back.
StopReturns == haPc = "stopWait" ~> haPc # "stopWait"

\* The library keeps what HaSession assumes of it.
States == INSTANCE ClientStates WITH
  client <- sClient,
  state  <- IF wsPc \in {"created", "setup"} THEN "init"
            ELSE IF sock = "closing" \/ (sock = "wait_timeout" /\ ~run)
            THEN "unknown" ELSE sock
KeepsStates == States!Spec
=============================================================================
