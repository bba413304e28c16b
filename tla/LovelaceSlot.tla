---------------------------- MODULE LovelaceSlot ----------------------------
(***************************************************************************)
(* Requests to Home Assistant and their answers, at the grain of single    *)
(* reads and writes of what the tasks share without a lock: the message    *)
(* counter s_msg_id, the request slot of ha_lovelace (kind, id and path,   *)
(* written one after the other) and s_get_states_id of ha_messages.        *)
(*                                                                         *)
(* Every task has the list of steps it still has to do, todo[t], and one   *)
(* register. A send happens under client->lock, which the websocket task   *)
(* holds while it is in its handler. HA is external: it wants ids that     *)
(* rise, answers get_states and subscribe_events in order, the others when *)
(* it has them. A post waits for room in the queue here; what a dropped    *)
(* post does is in HaSession.                                              *)
(***************************************************************************)
EXTENDS Integers, Sequences

CONSTANTS
  Views,       \* paths of the views of the dashboard
  FirstView,   \* the first of them
  MaxId,       \* bound on s_msg_id: the user stops when it is reached
  MaxSessions, \* bound on the number of sessions
  Taps,        \* what the user does: subset of {"select", "refresh", "command",
               \* "setup"}
  Env,         \* what goes wrong: subset of {"loss", "bad", "late"}
  Overlaps     \* which work of the websocket task a call of the UI task may
               \* run through: "greeting", the two messages after auth_ok;
               \* "answer", the handling of an answer that fills the slot

NoView == "no view"
Torn   == "torn path"   \* a path of which a part has been overwritten

ASSUME SlotAssumption ==
  /\ FirstView \in Views
  /\ NoView \notin Views
  /\ Torn \notin Views
  /\ MaxId \in Nat
  /\ MaxSessions \in Nat
  /\ Taps \subseteq {"select", "refresh", "command", "setup"}
  /\ Env \subseteq {"loss", "bad", "late"}
  /\ Overlaps \subseteq {"greeting", "answer"}

Tasks == {"ui", "ws"}

VARIABLES
  todo,     \* what each task still has to do in its present call
  reg,      \* the value of s_msg_id each task has read for its next message
  msgId,    \* s_msg_id
  kind,     \* s_pending
  pid,      \* s_pending_id
  path,     \* s_pending_path
  statesId, \* s_get_states_id
  frame,    \* the message in the websocket task's handler
  listed,   \* s_view_count > 0
  page,     \* the view in s_view_model
  fresh,    \* the entities of the page were sent their states
  shown,    \* the UI has drawn the page since it was loaded
  saved,    \* NVS selected_view
  news,     \* ha_event_queue: CONNECTED and ENTITIES_LOADED
  setup,    \* ui_manager_setup_active(): the settings screen is open
  link,     \* none (s_client is NULL), connecting, on, lost
  sessions, \* number of sessions so far
  wire,     \* messages from HA on their way, in order
  asked,    \* requests HA is working on
  haId,     \* HA: the last id it has accepted in this session
  reused,   \* history: HA got an id that does not rise
  stale,    \* history: the slot has not been written in this session
  logged    \* history: the requests, of "lovelace" and "states", whose last one
            \* was not sent or got no usable answer; the code only logs that

slot   == <<kind, pid, path>>
store  == <<listed, page, fresh>>
uiSide == <<shown, saved, setup>>
haSide == <<wire, asked, haId, reused>>
vars == <<todo, reg, msgId, slot, statesId, frame, store, uiSide, news, link,
          sessions, haSide, stale, logged>>

None == "none"
NoId == -1

Frames == [what : {"auth_ok", "states", "subscribe", "lovelace", "call"},
           id : Nat, good : BOOLEAN]
NoFrame == [what |-> "auth_ok", id |-> 0, good |-> TRUE]

----------------------------------------------------------------------------
(* The calls, as lists of steps: "take", "bump" and the kind of message     *)
(* number a message and send it.                                           *)

\* Mutant of RequestView: the path is copied when the message has left.
RequestViewPathLast == <<"wantEntities", "slotId", "take", "bump", "lovelace",
                         "tearPath", "setPath">>

\* Mutant of RequestAll: the id is remembered after it was incremented.
RequestAllLate == <<"wantViews", "take", "bump", "slotId", "lovelace">>

\* Mutant of RequestView: the slot is filled in when the message has left.
RequestViewLate == <<"take", "bump", "lovelace", "wantEntities", "slotId",
                     "tearPath", "setPath">>

\* Mutant of GetStates: the id is remembered after it was incremented.
GetStatesLate == <<"take", "bump", "states", "statesId">>

RequestAll  == <<"wantViews", "slotId", "take", "bump", "lovelace">>
RequestView == <<"wantEntities", "slotId", "tearPath", "setPath",
                 "take", "bump", "lovelace">>
CallService == <<"take", "bump", "call">>
GetStates   == <<"statesId", "take", "bump", "states">>

\* ha_messages_handle: auth_ok, which ends in the call of GetStates, the one
\* of subscribe_events and the post of CONNECTED.
AfterAuth   == <<"statesId", "take", "bump", "states",
                 "take", "bump", "subscribe", "tellConnected">>
\* The answer to get_states; ha_lovelace_handle_result.
TakeStates  == <<"forgetId", "applyStates">>
TakeResult  == <<"parse", "fill", "freeKind", "freeId">>

Sends == {"lovelace", "call", "states", "subscribe"}
Steps == Sends \cup {"wantViews", "wantEntities", "slotId", "tearPath",
                     "setPath", "statesId", "take", "bump", "tellConnected",
                     "forgetId", "applyStates", "parse", "fill", "freeKind",
                     "freeId"}

Idle(t)    == todo[t] = <<>>
At(t, s)   == todo[t] # <<>> /\ Head(todo[t]) = s
Advance(t) == todo' = [todo EXCEPT ![t] = Tail(@)]

----------------------------------------------------------------------------
(* Steps of a request                                                      *)

WriteKind(t) ==
  /\ \/ At(t, "wantViews") /\ kind' = "views"
     \/ At(t, "wantEntities") /\ kind' = "entities"
  /\ logged' = logged \ {"lovelace"}
  /\ Advance(t)
  /\ UNCHANGED <<reg, msgId, pid, path, statesId, frame, store, uiSide, news,
                 link, sessions, haSide, stale>>

WriteSlotId(t) ==
  /\ At(t, "slotId")
  /\ pid' = msgId
  /\ stale' = FALSE
  /\ Advance(t)
  /\ UNCHANGED <<reg, msgId, kind, path, statesId, frame, store, uiSide, news,
                 link, sessions, haSide, logged>>

\* strncpy: the old path is gone before the new one is there.
WritePath(t) ==
  /\ \/ At(t, "tearPath") /\ path' = IF path = saved THEN path ELSE Torn
     \/ At(t, "setPath") /\ path' = saved
  /\ Advance(t)
  /\ UNCHANGED <<reg, msgId, kind, pid, statesId, frame, store, uiSide, news,
                 link, sessions, haSide, stale, logged>>

WriteStatesId(t) ==
  /\ At(t, "statesId")
  /\ statesId' = msgId
  /\ logged' = logged \ {"states"}
  /\ Advance(t)
  /\ UNCHANGED <<reg, msgId, slot, frame, store, uiSide, news, link, sessions,
                 haSide, stale>>

\* (*msg_id)++ is a read and a later write of what was read plus one.
TakeId(t) ==
  /\ At(t, "take")
  /\ reg' = [reg EXCEPT ![t] = msgId]
  /\ Advance(t)
  /\ UNCHANGED <<msgId, slot, statesId, frame, store, uiSide, news, link,
                 sessions, haSide, stale, logged>>

\* Mutant of BumpId: the increment is forgotten.
BumpIdNever(t) ==
  /\ At(t, "bump")
  /\ msgId' = reg[t]
  /\ Advance(t)
  /\ UNCHANGED <<reg, slot, statesId, frame, store, uiSide, news, link,
                 sessions, haSide, stale, logged>>

BumpId(t) ==
  /\ At(t, "bump")
  /\ msgId' = reg[t] + 1
  /\ Advance(t)
  /\ UNCHANGED <<reg, slot, statesId, frame, store, uiSide, news, link,
                 sessions, haSide, stale, logged>>

\* HA takes a message: an id that does not rise gets an error.
Receive(what, id) ==
  IF id > haId
  THEN /\ haId' = id
       /\ UNCHANGED reused
       /\ IF what \in {"states", "subscribe"}
          THEN /\ wire' = Append(wire, [what |-> what, id |-> id, good |-> TRUE])
               /\ UNCHANGED asked
          ELSE /\ asked' = asked \cup {[what |-> what, id |-> id]}
               /\ UNCHANGED wire
  ELSE /\ reused' = TRUE
       /\ wire' = Append(wire, [what |-> what, id |-> id, good |-> FALSE])
       /\ UNCHANGED <<asked, haId>>

\* A request that is not sent, or gets no usable answer, leaves a log line.
LogFailure(what) == logged' = logged \cup ({what} \cap {"lovelace", "states"})

\* send_json. The UI task waits for the lock, at most 2 s. A message before
\* the authentication is not sent, or makes HA close the connection.
SendJson(t) ==
  /\ todo[t] # <<>> /\ Head(todo[t]) \in Sends
  /\ reg' = [reg EXCEPT ![t] = 0]
  /\ Advance(t)
  /\ \/ /\ t = "ws" \/ Idle("ws")
        /\ \/ link = "on" /\ Receive(Head(todo[t]), reg[t])
              /\ UNCHANGED <<link, logged>>
           \/ /\ link # "on"
              /\ link' \in (IF link = "connecting" THEN {link, "lost"} ELSE {link})
              /\ LogFailure(Head(todo[t]))
              /\ UNCHANGED haSide
     \/ /\ "late" \in Env /\ t = "ui" /\ ~Idle("ws")
        /\ LogFailure(Head(todo[t]))
        /\ UNCHANGED <<link, haSide>>
  /\ UNCHANGED <<msgId, slot, statesId, frame, store, uiSide, news, sessions,
                 stale>>

----------------------------------------------------------------------------
(* The UI task                                                             *)

\* The UI task is in a request of views; the websocket task fills the slot.
Requesting == todo["ui"] # <<>> /\ todo["ui"][Len(todo["ui"])] = "lovelace"
Filling    == todo["ws"] # <<>> /\ todo["ws"][Len(todo["ws"])] = "freeId"

\* A call of the UI task may begin: as far as Overlaps lets it run through
\* what the websocket task is doing.
MayCall    == Idle("ui") /\ ("greeting" \in Overlaps \/ Idle("ws") \/ frame.what # "auth_ok")
MayRequest == MayCall /\ ("answer" \in Overlaps \/ ~Filling)

\* The user sees the menu or the page, and the bound on ids is not reached.
MayTap == ~setup /\ msgId < MaxId

UiCall(steps) == todo' = [todo EXCEPT !["ui"] = steps]

\* select_view of the menu: NVS first, then the request, which a session
\* between two connections leaves out.
TapView(v) ==
  /\ "select" \in Taps /\ MayTap /\ MayRequest /\ listed
  /\ saved' = v
  /\ UiCall(IF link = "none" THEN <<>> ELSE RequestView)
  /\ UNCHANGED <<reg, msgId, slot, statesId, frame, store, shown, setup,
                 news, link, sessions, haSide, stale, logged>>

\* The refresh buttons of the menu and of the view settings.
TapRefresh ==
  /\ "refresh" \in Taps /\ MayTap /\ MayRequest /\ link # "none"
  /\ UiCall(RequestAll)
  /\ UNCHANGED <<reg, msgId, slot, statesId, frame, store, uiSide, news, link,
                 sessions, haSide, stale, logged>>

\* A tap on a widget: ha_client_toggle and its like.
TapCommand ==
  /\ "command" \in Taps /\ MayTap /\ MayCall /\ page # NoView /\ link # "none"
  /\ UiCall(CallService)
  /\ UNCHANGED <<reg, msgId, slot, statesId, frame, store, uiSide, news, link,
                 sessions, haSide, stale, logged>>

\* ui_manager_show_setup and exit_btn_cb: the settings open and close. The
\* menu they close to asks for nothing.
OpenSetup ==
  /\ "setup" \in Taps /\ Idle("ui") /\ ~setup
  /\ setup' = TRUE
  /\ UNCHANGED <<todo, reg, msgId, slot, statesId, frame, store, shown, saved,
                 news, link, sessions, haSide, stale, logged>>

ExitSetup ==
  /\ Idle("ui") /\ setup
  /\ setup' = FALSE
  /\ UNCHANGED <<todo, reg, msgId, slot, statesId, frame, store, shown, saved,
                 news, link, sessions, haSide, stale, logged>>

\* app_events_handle: CONNECTED asks for the views, or for the one view that
\* was shown or is enabled; ENTITIES_LOADED shows the page and asks for the
\* states. Neither does anything while the settings are open.
HandleConnected ==
  /\ Idle("ui") /\ news # <<>> /\ Head(news) = "CONNECTED"
  /\ news' = Tail(news)
  /\ \/ setup /\ UNCHANGED <<todo, saved>>
     \/ /\ ~setup /\ MayRequest
        /\ \/ UNCHANGED saved
              /\ UiCall(IF link = "none" THEN <<>> ELSE RequestAll)
           \/ \E v \in Views : saved' = v
              /\ UiCall(IF link = "none" THEN <<>> ELSE RequestView)
  /\ UNCHANGED <<reg, msgId, slot, statesId, frame, store, shown, setup, link,
                 sessions, haSide, stale, logged>>

HandleEntitiesLoaded ==
  /\ Idle("ui") /\ news # <<>> /\ Head(news) = "ENTITIES_LOADED"
  /\ news' = Tail(news)
  /\ \/ setup /\ UNCHANGED <<todo, shown>>
     \/ /\ ~setup /\ MayCall
        /\ shown' = TRUE
        /\ UiCall(IF link = "none" THEN <<>> ELSE GetStates)
  /\ UNCHANGED <<reg, msgId, slot, statesId, frame, store, saved, setup,
                 link, sessions, haSide, stale, logged>>

----------------------------------------------------------------------------
(* The websocket task: one message at a time                               *)

WsTakes(steps) == todo' = [todo EXCEPT !["ws"] = steps]

\* ha_messages_handle up to the branch that is taken: success first, then
\* the id of get_states, then the slot.
Branch(f) ==
  CASE f.what = "auth_ok" -> AfterAuth
    [] f.what # "auth_ok" /\ ~f.good -> <<>>
    [] f.what # "auth_ok" /\ f.good /\ f.id = statesId -> TakeStates
    [] OTHER -> IF f.id = pid /\ kind # None THEN TakeResult ELSE <<>>

Dispatch ==
  /\ Idle("ws") /\ wire # <<>>
  /\ frame' = Head(wire)
  /\ wire' = Tail(wire)
  /\ WsTakes(Branch(Head(wire)))
  /\ Head(wire).what = "auth_ok" => "greeting" \in Overlaps \/ Idle("ui")
  /\ Branch(Head(wire)) = TakeResult => "answer" \in Overlaps \/ ~Requesting
  /\ IF Head(wire).good THEN UNCHANGED logged ELSE LogFailure(Head(wire).what)
  /\ UNCHANGED <<reg, msgId, slot, statesId, store, uiSide, news, link,
                 sessions, asked, haId, reused, stale>>

TellConnected ==
  /\ At("ws", "tellConnected")
  /\ news' = Append(news, "CONNECTED")
  /\ Advance("ws")
  /\ UNCHANGED <<reg, msgId, slot, statesId, frame, store, uiSide, link,
                 sessions, haSide, stale, logged>>

\* s_get_states_id = -1, then handle_states_result for the entities of the
\* page, if it has any.
ForgetStatesId ==
  /\ At("ws", "forgetId")
  /\ statesId' = NoId
  /\ Advance("ws")
  /\ UNCHANGED <<reg, msgId, slot, frame, store, uiSide, news, link, sessions,
                 haSide, stale, logged>>

ApplyStates ==
  /\ At("ws", "applyStates")
  /\ fresh' = (page # NoView /\ (fresh \/ frame.what = "states"))
  /\ Advance("ws")
  /\ UNCHANGED <<reg, msgId, slot, statesId, frame, listed, page, uiSide, news,
                 link, sessions, haSide, stale, logged>>

\* ha_lovelace_handle_result: an answer without a result object ends it;
\* otherwise the view list is refilled (emptied by a result without views)
\* and VIEWS_LOADED posted.
Parse ==
  /\ At("ws", "parse")
  /\ \/ /\ "bad" \in Env \/ frame.what \notin {"lovelace", "call"}
        /\ WsTakes(<<>>)
        /\ LogFailure("lovelace")
        /\ UNCHANGED listed
     \/ /\ frame.what \in {"lovelace", "call"}
        /\ Advance("ws")
        /\ listed' \in (IF frame.what = "lovelace" THEN BOOLEAN ELSE {FALSE})
        /\ UNCHANGED logged
  /\ UNCHANGED <<reg, msgId, slot, statesId, frame, page, fresh, uiSide, news,
                 link, sessions, haSide, stale>>

\* The views of the answer that match the path of the slot: the empty path
\* matches the first. A path matches none when HA no longer has that view, or
\* when it was cut at 63 characters; a torn one may be any.
Matches ==
  IF ~listed THEN {NoView}
  ELSE CASE path = NoView -> {FirstView}
         [] path = Torn -> Views \cup {NoView}
         [] OTHER -> {path, NoView}

\* The slot is read again. Without a match the page is empty, and announced.
Fill ==
  /\ At("ws", "fill")
  /\ IF kind = "entities"
     THEN /\ page' \in Matches
          /\ fresh' = FALSE
          /\ shown' = FALSE
          /\ news' = Append(news, "ENTITIES_LOADED")
     ELSE UNCHANGED <<page, fresh, shown, news>>
  /\ Advance("ws")
  /\ UNCHANGED <<reg, msgId, slot, statesId, frame, listed, saved, setup,
                 link, sessions, haSide, stale, logged>>

FreeSlot ==
  /\ \/ At("ws", "freeKind") /\ kind' = None /\ UNCHANGED pid
     \/ At("ws", "freeId") /\ pid' = NoId /\ UNCHANGED kind
  /\ Advance("ws")
  /\ UNCHANGED <<reg, msgId, path, statesId, frame, store, uiSide, news, link,
                 sessions, haSide, stale, logged>>

----------------------------------------------------------------------------
(* HA and the session                                                      *)

HaAnswers ==
  /\ link = "on"
  /\ \E r \in asked :
       /\ asked' = asked \ {r}
       /\ wire' = Append(wire, [what |-> r.what, id |-> r.id, good |-> TRUE])
  /\ UNCHANGED <<todo, reg, msgId, slot, statesId, frame, store, uiSide, news,
                 link, sessions, haId, reused, stale, logged>>

AuthOk ==
  /\ link = "connecting"
  /\ link' = "on"
  /\ haId' = 0
  /\ wire' = <<NoFrame>>
  /\ UNCHANGED <<todo, reg, msgId, slot, statesId, frame, store, uiSide, news,
                 sessions, asked, reused, stale, logged>>

LinkLost ==
  /\ "loss" \in Env
  /\ link \in {"connecting", "on"}
  /\ link' = "lost"
  /\ wire' = <<>>
  /\ asked' = {}
  /\ UNCHANGED <<todo, reg, msgId, slot, statesId, frame, store, uiSide, news,
                 sessions, haId, reused, stale, logged>>

DestroyClient ==
  /\ link = "lost" /\ Idle("ws")
  /\ link' = "none"
  /\ wire' = <<>>
  /\ asked' = {}
  /\ UNCHANGED <<todo, reg, msgId, slot, statesId, frame, store, uiSide, news,
                 sessions, haId, reused, stale, logged>>

\* Mutant of Connect: the counter starts at 0.
ConnectFromZero ==
  /\ link = "none" /\ Idle("ui") /\ news = <<>>
  /\ sessions < MaxSessions
  /\ sessions' = sessions + 1
  /\ link' = "connecting"
  /\ msgId' = 0
  /\ stale' = TRUE
  /\ UNCHANGED <<todo, reg, slot, statesId, frame, store, uiSide, news, haSide,
                 logged>>

\* The next round of the loop in ha_client_run. The backoff of at least 5 s
\* ends the UI task's call and empties the queue. The slot stays.
Connect ==
  /\ link = "none" /\ Idle("ui") /\ news = <<>>
  /\ sessions < MaxSessions
  /\ sessions' = sessions + 1
  /\ link' = "connecting"
  /\ msgId' = 1
  /\ stale' = TRUE
  /\ UNCHANGED <<todo, reg, slot, statesId, frame, store, uiSide, news, haSide,
                 logged>>

----------------------------------------------------------------------------

Init ==
  /\ todo = [t \in Tasks |-> <<>>]
  /\ reg = [t \in Tasks |-> 0]
  /\ msgId = 1
  /\ kind = None /\ pid = NoId /\ path = NoView
  /\ statesId = NoId
  /\ frame = NoFrame
  /\ listed = FALSE /\ page = NoView /\ fresh = FALSE /\ shown = FALSE
  /\ saved \in Views \cup {NoView}
  /\ news = <<>> /\ setup = FALSE
  /\ link = "none" /\ sessions = 0
  /\ wire = <<>> /\ asked = {} /\ haId = 0
  /\ reused = FALSE /\ stale = FALSE /\ logged = {}

Shared(t) ==
  WriteKind(t) \/ WriteSlotId(t) \/ WritePath(t) \/ WriteStatesId(t)
    \/ TakeId(t) \/ BumpId(t) \/ SendJson(t)

UiTask  == Shared("ui") \/ HandleConnected \/ HandleEntitiesLoaded
UserTap == TapRefresh \/ TapCommand \/ OpenSetup \/ ExitSetup
             \/ \E v \in Views : TapView(v)
WsTask  == Shared("ws") \/ Dispatch \/ TellConnected \/ ForgetStatesId
             \/ ApplyStates \/ Parse \/ Fill \/ FreeSlot
HaTask  == DestroyClient \/ Connect

Next == UiTask \/ UserTap \/ WsTask \/ HaTask \/ HaAnswers \/ AuthOk \/ LinkLost

Spec == Init /\ [][Next]_vars

\* The scheduler runs every task that is ready, and HA answers what it has
\* received while the connection holds.
FairSpec == Spec /\ WF_vars(UiTask) /\ WF_vars(WsTask) /\ WF_vars(HaAnswers)

----------------------------------------------------------------------------
(* Properties                                                              *)

\* The type invariant. A counter that started at 0 would be refused by HA.
TypeOK ==
  /\ todo \in [Tasks -> Seq(Steps)]
  /\ reg \in [Tasks -> Nat]
  /\ msgId \in Nat \ {0}
  /\ kind \in {None, "views", "entities"}
  /\ pid \in Nat \cup {NoId}
  /\ path \in Views \cup {NoView, Torn}
  /\ statesId \in Nat \cup {NoId}
  /\ frame \in Frames
  /\ listed \in BOOLEAN
  /\ page \in Views \cup {NoView}
  /\ fresh \in BOOLEAN
  /\ shown \in BOOLEAN
  /\ saved \in Views \cup {NoView}
  /\ news \in Seq({"CONNECTED", "ENTITIES_LOADED"})
  /\ setup \in BOOLEAN
  /\ link \in {"none", "connecting", "on", "lost"}
  /\ sessions \in Nat
  /\ wire \in Seq(Frames)
  /\ asked \subseteq [what : {"lovelace", "call"}, id : Nat]
  /\ haId \in Nat
  /\ reused \in BOOLEAN
  /\ stale \in BOOLEAN
  /\ logged \subseteq {"lovelace", "states"}

\* technisch_ontwerp.md:379: every message has a unique, rising id.
IdsRise == ~reused

\* A slot that was written in this session is only filled by a lovelace
\* answer: no answer of a switch command empties the view list. The slot of a
\* session before this one matches anything, since the ids begin again.
OwnAnswer == [][~Filling /\ Filling' => frame'.what = "lovelace" \/ stale]_vars

\* technische_verkenning.md:95: an answer is coupled to its request by the id.
\* What is taken for a lovelace answer is one, whatever the slot is left from.
AnswersCoupled == [][~Filling /\ Filling' => frame'.what = "lovelace"]_vars

\* A page only ever changes to the view selected last, or becomes empty.
Service == INSTANCE ViewService WITH selected <- saved
ServesSelected == Service!Spec

\* A view that is asked for on a standing connection is shown, or an empty
\* page if HA does not have it, and the slot is free again; unless a refresh
\* took the slot, the settings were opened, or the connection was lost.
\* Failures that leave a log line and the slot taken (kind) are let through.
Shown == kind = None /\ shown /\ page \in {saved, NoView}
Asked == At("ui", "setPath") /\ link = "on"
GivenUp == kind = "views" \/ setup \/ link # "on"
RequestEnds ==
  Asked ~> Shown \/ GivenUp \/ ("lovelace" \in logged /\ kind = "entities")

\* userstories.md:73: after selection the view is loaded and shown.
RequestShown == Asked ~> Shown \/ GivenUp

\* A page that the UI has drawn gets its states on a standing connection, or
\* the page is replaced by an empty one, or the request for them was logged
\* as not sent.
StatesFollow ==
  (shown /\ page # NoView /\ ~fresh /\ link = "on")
    ~> fresh \/ page = NoView \/ "states" \in logged \/ link # "on"
=============================================================================
