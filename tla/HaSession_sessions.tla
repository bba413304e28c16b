-------------------------- MODULE HaSession_sessions --------------------------
(***************************************************************************)
(* More proofs about HaSession: how the session uses the websocket client, *)
(* and what one session leaves behind for the next.                        *)
(***************************************************************************)
EXTENDS HaSession_proofs

----------------------------------------------------------------------------
(* The states of the client                                                *)

\* A failure that is being reported is one of a client that lives.
FailureInv == /\ wsPc = "abort" => ws \in {"init", "connected"}
              /\ wsPc \in {"greet", "greetAbort"} => ws = "connected"

LEMMA FailureInvInductive == SessionInv /\ FailureInv /\ [Next]_vars => FailureInv'
<1> SUFFICES ASSUME SessionInv, FailureInv, [Next]_vars PROVE FailureInv'
  OBVIOUS
<1> USE DEF haVars, sockVars, wsVars, slotVars, dataVars, nvsVars, uiVars,
            envVars
\* A write that fails needs an idle websocket task.
<1>f. ASSUME NEW q, SendFails(q), UNCHANGED wsVars PROVE FailureInv'
  BY <1>f DEF SendFails, WsBusy, FailureInv
<1>u. ASSUME UNCHANGED <<ws, wsVars>> PROVE FailureInv'
  BY <1>u DEF FailureInv
<1>q. ASSUME NEW q, Send(q), UNCHANGED wsVars PROVE FailureInv'
  BY <1>q, <1>f, <1>u DEF Send
<1>r. ASSUME NEW q, NEW kind, Request(kind, q), UNCHANGED wsVars
      PROVE  FailureInv'
  BY <1>r, <1>f, <1>u DEF Request
<1>1. CASE HaTask
  <2>1. CASE HaConnect
    <3>1. WsIdle
      BY <2>1 DEF HaConnect, SessionInv
    <3> QED BY <2>1, <3>1 DEF HaConnect, WsIdle, FailureInv
  <2>2. CASE ~HaConnect
    BY <1>1, <1>u, <2>2
    DEF HaTask, HaWifi, HaLoop, WifiAttempt, WifiJoined, WifiTimeout,
        WifiRetry, SeesConnected, AwaitTimeout, SeesLost, StopClient,
        DestroyClient, BackoffOver
  <2> QED BY <2>1, <2>2
<1>2. CASE WsTask
  BY <1>2 DEF WsTask, WsProgress, WsPost, WsConnectOk, WsFails, WsAbort,
        WsGiveUp, WsExit, WsCloses, WsCloseRefused, WsCloseShutdown,
        WsAuthRequired, WsAuthOk, WsGreet, WsTellConnected, WsAuthInvalid,
        WsReceives, WsLovelaceAnswer,
        WsAfterViews, WsClearSlot, WsStateChanged, WsIdle, FailureInv
<1>3. CASE HandleEvent
  BY <1>3, <1>u, <1>q, <1>r
  DEF HandleEvent, HandleConnected, HandleDisconnected, HandleAuthFailed,
      HandleRedraw, HandleEntitiesLoaded, ToldOfLoss
<1>4. CASE Tap
  BY <1>4, <1>u, <1>q, <1>r
  DEF Tap, MenuSelect, MenuRefresh, SettingsRefresh, Ask, OpenSetup, SetupExit,
      WizardConnect, EntitiesMenu, EntitiesInfo, StatusBack, SettingsBack,
      Show, EntityCommand, StatusViews, SettingsToggle
<1>5. CASE Surroundings \/ UNCHANGED vars
  BY <1>5, <1>u DEF Surroundings, vars
<1> QED BY <1>1, <1>2, <1>3, <1>4, <1>5 DEF Next

\* Every step of the session is a step of a client that is created, connects
\* once, breaks once, ends and is destroyed, in this order, or leaves the
\* client as it is.
LEMMA StepOfClient ==
  SessionInv /\ FailureInv /\ [Next]_vars => [SessionStates!Next]_<<client, ws>>
<1> SUFFICES ASSUME SessionInv, FailureInv, [Next]_vars
             PROVE  [SessionStates!Next]_<<client, ws>>
  OBVIOUS
<1> USE DEF haVars, sockVars, wsVars, slotVars, dataVars, nvsVars, uiVars,
            envVars
<1>c. ws # "unknown" => client
  BY DEF SessionInv
<1>b. ASSUME ws \in {"init", "connected"}, ws' = "wait_timeout",
             UNCHANGED client
      PROVE  SessionStates!Next
  BY <1>b, <1>c DEF SessionStates!Next, SessionStates!Break
<1>e. ASSUME ws # "unknown", ws' = "unknown", UNCHANGED client
      PROVE  SessionStates!Next
  BY <1>e, <1>c DEF SessionStates!Next, SessionStates!End
<1>u. ASSUME UNCHANGED <<client, ws>> PROVE [SessionStates!Next]_<<client, ws>>
  BY <1>u
<1>q. ASSUME NEW q, Send(q), UNCHANGED client
      PROVE  [SessionStates!Next]_<<client, ws>>
  BY <1>q, <1>b DEF Send, SendFails
<1>r. ASSUME NEW q, NEW kind, Request(kind, q), UNCHANGED client
      PROVE  [SessionStates!Next]_<<client, ws>>
  BY <1>r, <1>b DEF Request, SendFails
<1>1. CASE HaTask
  <2>1. CASE HaConnect
    <3>1. ~client
      BY <2>1 DEF HaConnect, SessionInv
    <3>2. client' = TRUE
      BY <2>1, Zenon DEF HaConnect
    <3> QED BY <2>1, <3>1, <3>2
            DEF HaConnect, SessionStates!Next, SessionStates!Create
  <2>2. CASE DestroyClient
    <3>1. client
      BY <2>2 DEF DestroyClient, SessionInv
    <3>2. client' = FALSE
      BY <2>2, Zenon DEF DestroyClient
    <3> QED BY <2>2, <3>1, <3>2
            DEF DestroyClient, SessionStates!Next, SessionStates!Destroy
  <2>3. CASE ~HaConnect /\ ~DestroyClient
    BY <1>1, <1>u, <2>3
    DEF HaTask, HaWifi, HaLoop, WifiAttempt, WifiJoined, WifiTimeout,
        WifiRetry, SeesConnected, AwaitTimeout, SeesLost, StopClient,
        BackoffOver
  <2> QED BY <2>1, <2>2, <2>3
<1>2. CASE WsTask
  <2>1. CASE WsConnectOk
    BY <1>c, <2>1 DEF WsConnectOk, SessionStates!Next, SessionStates!Connect
  <2>2. CASE WsAbort
    BY <1>b, <2>2 DEF WsAbort, FailureInv
  <2>3. CASE WsGiveUp \/ WsExit \/ WsCloses
    BY <1>e, <2>3 DEF WsGiveUp, WsExit, WsCloses
  <2>4. CASE ~(WsConnectOk \/ WsAbort \/ WsGiveUp \/ WsExit \/ WsCloses)
    BY <1>2, <1>u, <2>4
    DEF WsTask, WsProgress, WsPost, WsFails, WsCloseRefused, WsCloseShutdown,
        WsAuthRequired, WsAuthOk, WsGreet, WsTellConnected, WsAuthInvalid,
        WsLovelaceAnswer,
        WsAfterViews, WsClearSlot, WsStateChanged
  <2> QED BY <2>1, <2>2, <2>3, <2>4
<1>3. CASE HandleEvent
  BY <1>3, <1>u, <1>q, <1>r
  DEF HandleEvent, HandleConnected, HandleDisconnected, HandleAuthFailed,
      HandleRedraw, HandleEntitiesLoaded, ToldOfLoss
<1>4. CASE Tap
  BY <1>4, <1>u, <1>q, <1>r
  DEF Tap, MenuSelect, MenuRefresh, SettingsRefresh, Ask, OpenSetup, SetupExit,
      WizardConnect, EntitiesMenu, EntitiesInfo, StatusBack, SettingsBack,
      Show, EntityCommand, StatusViews, SettingsToggle
<1>5. CASE Surroundings \/ UNCHANGED vars
  BY <1>5, <1>u DEF Surroundings, vars
<1> QED BY <1>1, <1>2, <1>3, <1>4, <1>5 DEF Next

\* The session implements ClientStates, the module that ClientLifetime shows
\* the library to implement: what HaSession takes a client to be is what the
\* library makes of it, under every fault and for every queue.
THEOREM ClientUsedInOrder == Spec => UsesClientStates
<1>1. Init => SessionInv
  BY Zenon DEF Init, SessionInv, WsIdle
<1>2. Init => FailureInv
  BY DEF Init, FailureInv
<1>3. Init => SessionStates!Init
  BY Zenon DEF Init, SessionStates!Init
<1>4. SessionInv /\ FailureInv /\ [Next]_vars
        => [SessionStates!Next]_(SessionStates!vars)
  BY StepOfClient DEF SessionStates!vars
<1> QED BY <1>1, <1>2, <1>3, <1>4, SessionInvInductive, FailureInvInductive, PTL
        DEF Spec, UsesClientStates, SessionStates!Spec

----------------------------------------------------------------------------
(* What is in a queue                                                      *)

HasIn(q, evt) == \E i \in 1..Len(q) : q[i] = evt

\* Nothing but losses.
OnlyLoss(q) == \A i \in 1..Len(q) : q[i] = "DISCONNECTED"

\* Every ENTITIES_LOADED comes after a CONNECTED.
Greeted(q) ==
  \A i \in 1..Len(q) :
    q[i] = "ENTITIES_LOADED" => \E j \in 1..(i - 1) : q[j] = "CONNECTED"

LEMMA HasTail ==
  ASSUME NEW q \in Seq(EventTypes), q # <<>>, NEW evt
  PROVE  /\ HasIn(Tail(q), evt) => HasIn(q, evt)
         /\ HasIn(q, evt) /\ Head(q) # evt => HasIn(Tail(q), evt)
         /\ HasIn(q, Head(q))
<1>1. ASSUME HasIn(Tail(q), evt) PROVE HasIn(q, evt)
  <2>1. PICK i \in 1..Len(Tail(q)) : Tail(q)[i] = evt
    BY <1>1 DEF HasIn
  <2>2. i + 1 \in 1..Len(q) /\ q[i + 1] = evt
    BY <2>1
  <2> QED BY <2>2 DEF HasIn
<1>2. ASSUME HasIn(q, evt), Head(q) # evt PROVE HasIn(Tail(q), evt)
  <2>1. PICK i \in 1..Len(q) : q[i] = evt
    BY <1>2 DEF HasIn
  <2>2. i - 1 \in 1..Len(Tail(q)) /\ Tail(q)[i - 1] = evt
    BY <1>2, <2>1
  <2> QED BY <2>2 DEF HasIn
<1>3. HasIn(q, Head(q))
  <2>1. 1 \in 1..Len(q) /\ q[1] = Head(q)
    OBVIOUS
  <2> QED BY <2>1 DEF HasIn
<1> QED BY <1>1, <1>2, <1>3

LEMMA HasAppend ==
  ASSUME NEW q \in Seq(EventTypes), NEW x \in EventTypes, NEW evt
  PROVE  HasIn(Append(q, x), evt) <=> HasIn(q, evt) \/ x = evt
<1>1. ASSUME HasIn(q, evt) PROVE HasIn(Append(q, x), evt)
  <2>1. PICK i \in 1..Len(q) : q[i] = evt
    BY <1>1 DEF HasIn
  <2>2. i \in 1..Len(Append(q, x)) /\ Append(q, x)[i] = evt
    BY <2>1
  <2> QED BY <2>2 DEF HasIn
<1>2. ASSUME x = evt PROVE HasIn(Append(q, x), evt)
  <2>1. /\ Len(q) + 1 \in 1..Len(Append(q, x))
        /\ Append(q, x)[Len(q) + 1] = evt
    BY <1>2
  <2> QED BY <2>1 DEF HasIn
<1>3. ASSUME HasIn(Append(q, x), evt) PROVE HasIn(q, evt) \/ x = evt
  <2>1. PICK i \in 1..Len(Append(q, x)) : Append(q, x)[i] = evt
    BY <1>3 DEF HasIn
  <2>2. CASE i = Len(q) + 1
    BY <2>1, <2>2
  <2>3. CASE i \in 1..Len(q)
    BY <2>1, <2>3 DEF HasIn
  <2> QED BY <2>1, <2>2, <2>3
<1> QED BY <1>1, <1>2, <1>3

LEMMA GreetedTail ==
  ASSUME NEW q \in Seq(EventTypes), q # <<>>, Greeted(q)
  PROVE  /\ Head(q) # "ENTITIES_LOADED"
         /\ Head(q) # "CONNECTED" => Greeted(Tail(q))
<1>1. Head(q) # "ENTITIES_LOADED"
  BY DEF Greeted
<1>2. ASSUME Head(q) # "CONNECTED",
             NEW i \in 1..Len(Tail(q)), Tail(q)[i] = "ENTITIES_LOADED"
      PROVE  \E j \in 1..(i - 1) : Tail(q)[j] = "CONNECTED"
  <2>1. i + 1 \in 1..Len(q) /\ q[i + 1] = "ENTITIES_LOADED"
    BY <1>2
  <2>2. PICK j \in 1..((i + 1) - 1) : q[j] = "CONNECTED"
    BY <2>1 DEF Greeted
  <2>3. j # 1
    BY <1>2, <2>2
  <2>4. j - 1 \in 1..(i - 1) /\ Tail(q)[j - 1] = "CONNECTED"
    BY <1>2, <2>2, <2>3
  <2> QED BY <2>4
<1> QED BY <1>1, <1>2 DEF Greeted

LEMMA GreetedAppend ==
  ASSUME NEW q \in Seq(EventTypes), NEW x \in EventTypes, Greeted(q),
         x = "ENTITIES_LOADED" => HasIn(q, "CONNECTED")
  PROVE  Greeted(Append(q, x))
<1> SUFFICES ASSUME NEW i \in 1..Len(Append(q, x)),
                    Append(q, x)[i] = "ENTITIES_LOADED"
             PROVE  \E j \in 1..(i - 1) : Append(q, x)[j] = "CONNECTED"
  BY DEF Greeted
<1>1. CASE i = Len(q) + 1
  <2>1. PICK j \in 1..Len(q) : q[j] = "CONNECTED"
    BY <1>1 DEF HasIn
  <2>2. j \in 1..(i - 1) /\ Append(q, x)[j] = "CONNECTED"
    BY <1>1, <2>1
  <2> QED BY <2>2
<1>2. CASE i \in 1..Len(q)
  <2>1. PICK j \in 1..(i - 1) : q[j] = "CONNECTED"
    BY <1>2 DEF Greeted
  <2>2. Append(q, x)[j] = "CONNECTED"
    BY <1>2, <2>1
  <2> QED BY <2>2
<1> QED BY <1>1, <1>2

LEMMA OnlyLossKept ==
  ASSUME NEW q \in Seq(EventTypes), OnlyLoss(q)
  PROVE  /\ OnlyLoss(Append(q, "DISCONNECTED"))
         /\ q # <<>> => Head(q) = "DISCONNECTED" /\ OnlyLoss(Tail(q))
         /\ \A evt : evt # "DISCONNECTED" => ~HasIn(q, evt)
<1>1. OnlyLoss(Append(q, "DISCONNECTED"))
  BY DEF OnlyLoss, EventTypes
<1>2. q # <<>> => Head(q) = "DISCONNECTED" /\ OnlyLoss(Tail(q))
  BY DEF OnlyLoss
<1>3. \A evt : evt # "DISCONNECTED" => ~HasIn(q, evt)
  BY DEF OnlyLoss, HasIn
<1> QED BY <1>1, <1>2, <1>3

\* A write that fails leaves the queue q with no news but losses.
LEMMA FailureAdds ==
  ASSUME NEW q \in Seq(EventTypes), SendFails(q)
  PROVE  /\ queue' \in Seq(EventTypes)
         /\ \A evt \in EventTypes \ {"DISCONNECTED"} :
              HasIn(queue', evt) <=> HasIn(q, evt)
         /\ Greeted(q) => Greeted(queue')
<1> DEFINE q1 == PostOrDrop(q, "DISCONNECTED")
<1>d. "DISCONNECTED" \in EventTypes
  BY DEF EventTypes
<1>1. /\ q1 \in Seq(EventTypes)
      /\ \A evt \in EventTypes \ {"DISCONNECTED"} : HasIn(q1, evt) <=> HasIn(q, evt)
      /\ Greeted(q) => Greeted(q1)
  BY <1>d, HasAppend, GreetedAppend DEF PostOrDrop
<1>2. queue' = PostOrDrop(q1, "DISCONNECTED")
  BY DEF SendFails
<1> HIDE DEF q1
<1> QED BY <1>d, <1>1, <1>2, HasAppend, GreetedAppend DEF PostOrDrop

----------------------------------------------------------------------------
(* A new attempt starts clean                                              *)

\* Before a session is authenticated: between two sessions, while it
\* connects and until HA has answered to the token.
Early == \/ haPc \in {"wifi", "wifiWait", "wifiBackoff", "connect"}
         \/ ws = "init"
         \/ ws = "connected" /\ auth \in {"required", "sent"}

\* The handlers of auth_ok and of an answer run on an authenticated
\* connection, but for what the first does after a failed write.
AuthOkHandled ==
  /\ wsPc \in {"greet", "greetAbort", "views", "clear"}
       => ws = "connected" /\ auth = "ok"
  /\ wsPc = "tell" => ws = "wait_timeout" \/ (ws = "connected" /\ auth = "ok")

\* The strengthening of FreshAttempt: until then nothing but losses is on its
\* way to the UI task.
FreshInv ==
  /\ FreshAttempt
  /\ Early => OnlyLoss(queue) /\ out \in {None, "DISCONNECTED"}
  /\ AuthOkHandled

LEMMA FreshInvInductive ==
  ASSUME Prompt
  PROVE  TypeOK /\ SessionInv /\ FailureInv /\ FreshInv /\ [Next]_vars => FreshInv'
<1> SUFFICES ASSUME TypeOK, SessionInv, FailureInv, FreshInv, [Next]_vars
             PROVE  FreshInv'
  OBVIOUS
<1> USE DEF haVars, sockVars, wsVars, slotVars, dataVars, nvsVars, uiVars,
            envVars
<1>q. queue \in Seq(EventTypes) /\ out \in EventTypes \cup {None}
  BY DEF TypeOK
<1>h. ws # "unknown" => haPc \notin {"wifi", "wifiWait", "wifiBackoff", "connect"}
  BY DEF SessionInv
<1>n. /\ Early => OnlyLoss(queue) /\ out \in {None, "DISCONNECTED"}
      /\ AuthOkHandled
      /\ ws = "init" => app \notin {"ENTITIES_LOADING", "VIEW_READY"}
  BY DEF FreshInv, FreshAttempt
<1>z. ASSUME ws' = "init" => app' \notin {"ENTITIES_LOADING", "VIEW_READY"},
             Early' => OnlyLoss(queue') /\ out' \in {None, "DISCONNECTED"},
             AuthOkHandled'
      PROVE  FreshInv'
  BY <1>z DEF FreshInv, FreshAttempt
\* A failed write ends the session's connected time.
<1>f. ASSUME NEW q, SendFails(q), UNCHANGED <<haPc, wsVars>> PROVE FreshInv'
  <2>1. wsPc = "run" /\ ws = "connected" /\ ws' = "wait_timeout"
    BY <1>f, <1>q DEF SendFails, WsBusy, TypeOK
  <2> QED BY <1>f, <1>h, <1>z, <2>1 DEF Early, AuthOkHandled
<1>k. ASSUME UNCHANGED <<haPc, ws, auth, wsVars, queue>>,
             app' = app \/ app' \notin {"ENTITIES_LOADING", "VIEW_READY"}
      PROVE  FreshInv'
  BY <1>k, <1>n, <1>z DEF Early, AuthOkHandled
<1>1. CASE HaTask
  <2>1. CASE WifiTimeout
    <3>1. queue' = Append(queue, "DISCONNECTED")
      BY <2>1 DEF WifiTimeout, Post
    <3>2. OnlyLoss(queue')
      BY <1>n, <1>q, <2>1, <3>1, OnlyLossKept DEF WifiTimeout, Early
    <3> QED BY <1>n, <1>z, <2>1, <3>2 DEF WifiTimeout, Early, AuthOkHandled
  <2>2. CASE HaConnect
    BY <1>n, <1>z, <2>2 DEF HaConnect, SessionInv, WsIdle, Early, AuthOkHandled
  <2>3. CASE BackoffOver
    <3>1. queue' = <<>> /\ out' = None /\ wsPc' = "run"
      BY <2>3 DEF BackoffOver, SessionInv, WsIdle
    <3>2. OnlyLoss(queue')
      BY <3>1 DEF OnlyLoss
    <3> QED BY <1>n, <1>z, <2>3, <3>1, <3>2 DEF BackoffOver, AuthOkHandled
  <2>4. CASE WifiAttempt \/ WifiJoined \/ WifiRetry
    BY <1>n, <1>z, <2>4 DEF WifiAttempt, WifiJoined, WifiRetry, Early, AuthOkHandled
  <2>5. CASE SeesConnected \/ AwaitTimeout \/ SeesLost \/ DestroyClient
    BY <1>n, <1>z, <2>5
    DEF SeesConnected, AwaitTimeout, SeesLost, StopClient, DestroyClient,
        Early, AuthOkHandled
  <2> QED BY <1>1, <2>1, <2>2, <2>3, <2>4, <2>5 DEF HaTask, HaWifi, HaLoop
<1>2. CASE WsTask
  <2>1. CASE WsPost
    <3>1. out \in EventTypes /\ queue' = Append(queue, out)
      BY <2>1 DEF WsPost, Post, TypeOK
    <3>2. Early => OnlyLoss(queue')
      BY <1>n, <1>q, <3>1, <2>1, OnlyLossKept DEF WsPost
    <3> QED BY <1>n, <1>z, <2>1, <3>2 DEF WsPost, Early, AuthOkHandled
  <2>2. CASE WsConnectOk
    BY <1>n, <1>z, <2>2 DEF WsConnectOk, WsIdle, Early, AuthOkHandled
  <2>3. CASE WsFails
    BY <1>n, <1>z, <2>3 DEF WsFails, Early, AuthOkHandled
  <2>4. CASE WsAbort \/ WsGiveUp \/ WsExit \/ WsCloses
    <3>1. ws # "unknown" /\ ws' \notin {"init", "connected"} /\ haPc' = haPc
          /\ (wsPc' = "run" \/ (wsPc' = "tell" /\ ws' = "wait_timeout"))
      BY <2>4 DEF WsAbort, WsGiveUp, WsExit, WsCloses, WsIdle, FailureInv
    <3> QED BY <1>h, <1>z, <3>1 DEF Early, AuthOkHandled
  <2>5. CASE WsAuthRequired
    BY <1>n, <1>z, <2>5 DEF WsAuthRequired, WsReceives, WsIdle, Early,
                                   AuthOkHandled
  <2>6. CASE WsAuthOk \/ WsAuthInvalid
    BY <1>h, <1>z, <2>6 DEF WsAuthOk, WsAuthInvalid, WsReceives, WsIdle, Early,
                            AuthOkHandled
  <2>9. CASE WsGreet \/ WsTellConnected
    <3>1. /\ UNCHANGED <<haPc, ws, auth>>
          /\ ws = "wait_timeout" \/ (ws = "connected" /\ auth = "ok")
          /\ wsPc' \in {"greetAbort", "tell"} => ws = "connected" /\ auth = "ok"
          /\ wsPc' \in {"greetAbort", "tell", "run"}
      BY <1>n, <2>9 DEF WsGreet, WsTellConnected, AuthOkHandled
    <3> QED BY <1>h, <1>z, <3>1 DEF Early, AuthOkHandled
  <2>7. CASE WsLovelaceAnswer \/ WsStateChanged
    <3>1. ws = "connected" /\ auth = "ok" /\ UNCHANGED <<haPc, ws, auth>>
      BY <2>7 DEF WsLovelaceAnswer, WsStateChanged, WsReceives
    <3>2. AuthOkHandled'
      BY <1>n, <2>7, <3>1 DEF WsLovelaceAnswer, WsStateChanged, AuthOkHandled
    <3> QED BY <1>h, <1>z, <3>1, <3>2 DEF Early
  <2>8. CASE WsAfterViews \/ WsClearSlot
    <3>1. ws = "connected" /\ auth = "ok" /\ UNCHANGED <<haPc, ws, auth>>
      BY <1>n, <2>8 DEF WsAfterViews, WsClearSlot, AuthOkHandled
    <3>2. AuthOkHandled'
      BY <2>8, <3>1 DEF WsAfterViews, WsClearSlot, AuthOkHandled
    <3> QED BY <1>h, <1>z, <3>1, <3>2 DEF Early
  <2> QED BY <1>2, <2>1, <2>2, <2>3, <2>4, <2>5, <2>6, <2>7, <2>8, <2>9
          DEF WsTask, WsProgress, WsCloseRefused, WsCloseShutdown
<1>3. CASE HandleEvent
  <2> SUFFICES ASSUME queue # <<>> PROVE FreshInv'
    BY <1>3 DEF HandleEvent, HandleConnected, HandleDisconnected,
            HandleAuthFailed, HandleRedraw, HandleEntitiesLoaded, HeadIs
  <2>t. Early => Head(queue) = "DISCONNECTED" /\ OnlyLoss(Tail(queue))
    BY <1>n, <1>q, OnlyLossKept
  <2>1. CASE HandleDisconnected \/ HandleAuthFailed \/ HandleRedraw
    BY <1>n, <1>z, <2>1, <2>t
    DEF HandleDisconnected, HandleAuthFailed, HandleRedraw, ToldOfLoss, Early,
        AuthOkHandled
  <2>2. CASE HandleConnected \/ HandleEntitiesLoaded
    <3>1. ~Early /\ UNCHANGED <<haPc, wsVars>>
      BY <2>2, <2>t DEF HandleConnected, HandleEntitiesLoaded, HeadIs
    <3>2. CASE UNCHANGED sockVars
      BY <1>n, <1>z, <3>1, <3>2 DEF Early, AuthOkHandled
    <3> QED BY <1>f, <2>2, <3>1, <3>2
            DEF HandleConnected, HandleEntitiesLoaded, Request, Send
  <2> QED BY <1>3, <2>1, <2>2 DEF HandleEvent
<1>4. CASE Tap
  <2>1. CASE MenuSelect \/ MenuRefresh \/ SettingsRefresh
    BY <1>f, <1>k, <2>1 DEF MenuSelect, MenuRefresh, SettingsRefresh, Ask, Request
  <2>2. CASE StatusViews
    BY <1>f, <1>k, <2>2 DEF StatusViews, Request
  <2>3. CASE EntityCommand
    BY <1>f, <1>k, <2>3 DEF EntityCommand, Send
  <2>4. CASE OpenSetup \/ SetupExit \/ WizardConnect \/ SettingsToggle
    BY <1>k, <2>4 DEF OpenSetup, SetupExit, WizardConnect, SettingsToggle
  <2>5. CASE EntitiesMenu \/ EntitiesInfo \/ StatusBack \/ SettingsBack
    BY <1>k, <2>5 DEF EntitiesMenu, EntitiesInfo, StatusBack, SettingsBack, Show
  <2> QED BY <1>4, <2>1, <2>2, <2>3, <2>4, <2>5 DEF Tap
<1>5. CASE Surroundings \/ UNCHANGED vars
  BY <1>5, <1>k DEF Surroundings, vars
<1> QED BY <1>1, <1>2, <1>3, <1>4, <1>5 DEF Next

LEMMA FreshInvInitial == Init => SessionInv /\ FailureInv /\ FreshInv
<1>1. Init => SessionInv
  BY Zenon DEF Init, SessionInv, WsIdle
<1>2. Init => FailureInv /\ FreshInv
  BY DEF Init, FailureInv, FreshInv, FreshAttempt, OnlyLoss, AuthOkHandled
<1> QED BY <1>1, <1>2

\* With a UI task that keeps up, no event of an earlier session is handled
\* once the next attempt has begun, so that this attempt never passes for a
\* view that is loading or ready.
THEOREM AttemptsAreFresh ==
  ASSUME Prompt
  PROVE  Spec => []FreshAttempt
<1>1. FreshInv => FreshAttempt
  BY DEF FreshInv
<1> QED BY <1>1, FreshInvInitial, TypeCorrect, SessionInvInductive,
           FailureInvInductive, FreshInvInductive, PTL DEF Spec

----------------------------------------------------------------------------
(* The token error                                                         *)

\* auth_ok was received and CONNECTED is not posted yet.
Greeting == wsPc \in {"greet", "greetAbort", "tell"}

\* HA has refused the token of this session and the UI does not know yet.
Refused == HasIn(queue, "AUTH_FAILED") \/ out = "AUTH_FAILED" \/ auth = "invalid"

\* The strengthening of TokenErrorMeansOffline: a session whose token was
\* refused brings no good news, and while the error is shown a loaded view
\* is announced only behind the CONNECTED that takes the error back.
TokenInv ==
  /\ TokenErrorMeansOffline
  /\ screen # "setup"
  /\ ws # "connected" => auth = None
  /\ out = "ENTITIES_LOADED" => auth = "ok" /\ wsPc = "clear"
  /\ Greeting \/ out = "CONNECTED" => ~Refused
  /\ Refused => /\ ~HasIn(queue, "CONNECTED") /\ ~HasIn(queue, "ENTITIES_LOADED")
                /\ auth # "ok"
  /\ authFailed => Greeted(queue)
  /\ authFailed /\ auth = "ok" /\ out # "CONNECTED" /\ ~Greeting
       => HasIn(queue, "CONNECTED")

\* The part that speaks of the queue and of what the UI shows.
ErrorInv ==
  /\ authFailed => ~Online
  /\ Refused => /\ ~HasIn(queue, "CONNECTED") /\ ~HasIn(queue, "ENTITIES_LOADED")
                /\ auth # "ok"
  /\ authFailed => Greeted(queue)
  /\ authFailed /\ auth = "ok" /\ out # "CONNECTED" /\ ~Greeting
       => HasIn(queue, "CONNECTED")

\* A step in which the UI task takes the event at the head of the queue,
\* other than CONNECTED, and does nothing else.
LEMMA ErrorTaken ==
  ASSUME ErrorInv, queue \in Seq(EventTypes), queue # <<>>,
         Head(queue) # "CONNECTED", queue' = Tail(queue),
         UNCHANGED <<auth, out, wsPc>>,
         authFailed' => /\ authFailed \/ Head(queue) = "AUTH_FAILED"
                        /\ ~Online'
  PROVE  ErrorInv'
<1>1. /\ HasIn(queue', "AUTH_FAILED") => HasIn(queue, "AUTH_FAILED")
      /\ HasIn(queue', "CONNECTED") <=> HasIn(queue, "CONNECTED")
      /\ HasIn(queue', "ENTITIES_LOADED") => HasIn(queue, "ENTITIES_LOADED")
      /\ HasIn(queue, Head(queue))
  BY HasTail
<1>2. Refused' => Refused
  BY <1>1 DEF Refused
<1>6. Greeting' = Greeting
  BY DEF Greeting
<1>3. CASE authFailed
  <2>1. Greeted(queue')
    BY <1>3, GreetedTail DEF ErrorInv
  <2> QED BY <1>1, <1>2, <1>3, <1>6, <2>1 DEF ErrorInv
<1>4. CASE ~authFailed /\ authFailed'
  <2>1. ~HasIn(queue, "ENTITIES_LOADED") /\ auth # "ok"
    BY <1>1, <1>4 DEF ErrorInv, Refused
  <2>2. Greeted(queue')
    BY <1>1, <2>1 DEF Greeted, HasIn
  <2> QED BY <1>1, <1>2, <1>4, <2>1, <2>2 DEF ErrorInv
<1>5. CASE ~authFailed'
  BY <1>1, <1>2, <1>5 DEF ErrorInv
<1> QED BY <1>3, <1>4, <1>5

\* A step whose write fails on the queue q it leaves behind.
LEMMA ErrorOfFailure ==
  ASSUME NEW q \in Seq(EventTypes), SendFails(q), UNCHANGED out,
         HasIn(q, "AUTH_FAILED") \/ out = "AUTH_FAILED"
            => ~HasIn(q, "CONNECTED") /\ ~HasIn(q, "ENTITIES_LOADED"),
         authFailed' => ~Online' /\ Greeted(q)
  PROVE  ErrorInv'
<1>1. /\ \A evt \in EventTypes \ {"DISCONNECTED"} :
           HasIn(queue', evt) <=> HasIn(q, evt)
      /\ Greeted(q) => Greeted(queue')
  BY FailureAdds
<1>2. {"AUTH_FAILED", "CONNECTED", "ENTITIES_LOADED"} \subseteq EventTypes \ {"DISCONNECTED"}
  BY DEF EventTypes
<1>3. auth' = None
  BY DEF SendFails
<1> QED BY <1>1, <1>2, <1>3 DEF ErrorInv, Refused, None

LEMMA TokenInvInductive ==
  ASSUME Prompt, "setup" \notin Taps
  PROVE  /\ TypeOK /\ SessionInv /\ FailureInv /\ FreshInv /\ TokenInv
         /\ [Next]_vars
         => TokenInv'
<1> SUFFICES ASSUME TypeOK, SessionInv, FailureInv, FreshInv, TokenInv,
                    [Next]_vars
             PROVE  TokenInv'
  OBVIOUS
<1> USE DEF haVars, sockVars, wsVars, slotVars, dataVars, nvsVars, uiVars,
            envVars
<1>q. queue \in Seq(EventTypes) /\ out \in EventTypes \cup {None}
  BY DEF TypeOK
<1>e. ErrorInv
  BY DEF TokenInv, TokenErrorMeansOffline, ErrorInv
<1>n. /\ screen # "setup"
      /\ ws # "connected" => auth = None
      /\ out = "ENTITIES_LOADED" => auth = "ok" /\ wsPc = "clear"
      /\ Greeting \/ out = "CONNECTED" => ~Refused
      /\ wsPc \in {"views", "clear"} => auth = "ok"
  BY DEF TokenInv, FreshInv, AuthOkHandled
<1>z. ASSUME ErrorInv', screen' # "setup",
             ws' # "connected" => auth' = None,
             out' = "ENTITIES_LOADED" => auth' = "ok" /\ wsPc' = "clear",
             Greeting' \/ out' = "CONNECTED" => ~Refused'
      PROVE  TokenInv'
  BY <1>z DEF TokenInv, TokenErrorMeansOffline, ErrorInv
<1>y. ASSUME ErrorInv', screen' # "setup",
             ws' # "connected" => auth' = None,
             out' = "ENTITIES_LOADED" => auth' = "ok" /\ wsPc' = "clear",
             Refused' => Refused,
             Greeting' \/ out' = "CONNECTED" => Greeting \/ out = "CONNECTED"
      PROVE  TokenInv'
  BY <1>n, <1>y, <1>z
\* A step that leaves the queue alone and tells the UI task nothing new.
<1>s. ASSUME UNCHANGED <<queue, authFailed>>, Online' => Online,
             auth' = auth \/ auth' \in {None, "required", "sent"},
             out' = out \/ (out # "CONNECTED" /\ out' # "AUTH_FAILED"),
             Greeting => Greeting' \/ out' = "CONNECTED" \/ auth' # "ok"
      PROVE  ErrorInv' /\ (Refused' => Refused)
  <2>1. Refused' => Refused
    BY <1>s DEF Refused, None
  <2> QED BY <1>s, <1>e, <2>1 DEF ErrorInv, None
<1>u. ASSUME UNCHANGED <<sockVars, wsVars, queue, authFailed>>,
             Online' => Online, screen' # "setup"
      PROVE  TokenInv'
  <2>1. Greeting' = Greeting
    BY <1>u DEF Greeting
  <2>2. ErrorInv' /\ (Refused' => Refused)
    BY <1>s, <1>u, <2>1
  <2> QED BY <1>n, <1>u, <1>y, <2>1, <2>2
<1>f. ASSUME SendFails(queue), UNCHANGED <<wsVars, authFailed, app>>,
             screen' # "setup"
      PROVE  TokenInv'
  <2>1. ErrorInv'
    BY <1>e, <1>f, <1>q, ErrorOfFailure DEF ErrorInv, Refused, Online
  <2>2. auth' = None /\ out' = None /\ ~Greeting'
    BY <1>f DEF SendFails, WsBusy, None, Greeting
  <2> QED BY <1>f, <1>z, <2>1, <2>2 DEF None
<1>1. CASE HaTask
  <2>1. CASE WifiTimeout
    <3>1. queue' = Append(queue, "DISCONNECTED") /\ "DISCONNECTED" \in EventTypes
      BY <2>1 DEF WifiTimeout, Post, EventTypes
    <3>2. /\ \A evt : evt # "DISCONNECTED" =>
               (HasIn(queue', evt) <=> HasIn(queue, evt))
          /\ Greeted(queue) => Greeted(queue')
      BY <1>q, <3>1, HasAppend, GreetedAppend
    <3>3. ErrorInv' /\ (Refused' => Refused)
      BY <1>e, <2>1, <3>2 DEF WifiTimeout, ErrorInv, Refused, Online, Greeting
    <3> QED BY <1>n, <1>y, <2>1, <3>3 DEF WifiTimeout, Greeting
  <2>2. CASE HaConnect
    <3>1. auth = None
      BY <1>n, <2>2 DEF HaConnect, SessionInv
    <3>2. ErrorInv' /\ (Refused' => Refused)
      BY <1>s, <2>2 DEF HaConnect, Online, Greeting
    <3> QED BY <1>n, <1>y, <2>2, <3>1, <3>2 DEF HaConnect, Greeting
  <2>3. CASE ~WifiTimeout /\ ~HaConnect
    BY <1>1, <1>n, <1>u, <2>3
    DEF HaTask, HaWifi, HaLoop, WifiAttempt, WifiJoined, WifiRetry,
        SeesConnected, AwaitTimeout, SeesLost, StopClient, DestroyClient,
        BackoffOver, Online
  <2> QED BY <2>1, <2>2, <2>3
<1>2. CASE WsTask
  <2>1. CASE WsPost
    <3>1. out \in EventTypes /\ queue' = Append(queue, out)
      BY <2>1 DEF WsPost, Post, TypeOK
    <3>2. \A evt : HasIn(queue', evt) <=> HasIn(queue, evt) \/ out = evt
      BY <1>q, <3>1, HasAppend
    <3>3. Refused' <=> Refused
      BY <2>1, <3>2 DEF WsPost, Refused, None
    <3>4. Refused => out \notin {"CONNECTED", "ENTITIES_LOADED"}
      <4>1. Refused => auth # "ok"
        BY <1>e DEF ErrorInv
      <4> QED BY <1>n, <4>1
    <3>5. authFailed => Greeted(queue')
      <4>1. authFailed /\ out = "ENTITIES_LOADED" => HasIn(queue, "CONNECTED")
        BY <1>e, <1>n DEF ErrorInv, Greeting
      <4> QED BY <1>e, <1>q, <3>1, <4>1, GreetedAppend DEF ErrorInv
    <3>6. ErrorInv'
      BY <1>e, <2>1, <3>2, <3>3, <3>4, <3>5
      DEF WsPost, ErrorInv, Online, Greeting
    <3> QED BY <1>n, <1>y, <2>1, <3>3, <3>6 DEF WsPost, None, Greeting
  <2>2. CASE WsConnectOk
    <3>1. ErrorInv' /\ (Refused' => Refused)
      BY <1>s, <2>2 DEF WsConnectOk, WsIdle, Online, Greeting
    <3> QED BY <1>n, <1>y, <2>2, <3>1 DEF WsConnectOk, WsIdle, None, Greeting
  <2>3. CASE WsFails \/ WsAbort
    <3>1. ErrorInv' /\ (Refused' => Refused)
      BY <1>s, <2>3 DEF WsFails, WsAbort, WsIdle, Online, None, Greeting
    <3> QED BY <1>n, <1>y, <2>3, <3>1 DEF WsFails, WsAbort, Greeting
  <2>4. CASE WsGiveUp \/ WsExit \/ WsCloses
    <3>1. ErrorInv' /\ (Refused' => Refused)
      BY <1>s, <2>4 DEF WsGiveUp, WsExit, WsCloses, WsIdle, Online, Greeting
    <3> QED BY <1>n, <1>y, <2>4, <3>1
            DEF WsGiveUp, WsExit, WsCloses, WsIdle, None, Greeting
  <2>5. CASE WsAuthRequired
    <3>1. ErrorInv' /\ (Refused' => Refused)
      BY <1>s, <2>5 DEF WsAuthRequired, WsReceives, WsIdle, Online, Greeting
    <3> QED BY <1>n, <1>y, <2>5, <3>1
            DEF WsAuthRequired, WsReceives, WsIdle, None, Greeting
  <2>6. CASE WsAuthOk \/ WsAuthInvalid
    <3>1. Early
      BY <2>6 DEF WsAuthOk, WsAuthInvalid, WsReceives, Early
    <3>2. \A evt : evt # "DISCONNECTED" => ~HasIn(queue, evt)
      BY <1>q, <3>1, OnlyLossKept DEF FreshInv
    <3>3. WsIdle /\ auth = "sent" /\ ws' = "connected" /\ queue' = queue
      BY <2>6 DEF WsAuthOk, WsAuthInvalid, WsReceives
    <3>4. WsAuthOk => ~Refused'
      BY <3>2, <3>3 DEF WsAuthOk, Refused, WsIdle, None
    <3>5. ErrorInv'
      BY <1>e, <2>6, <3>2, <3>3, <3>4
      DEF WsAuthOk, WsAuthInvalid, ErrorInv, Online, Greeting
    <3> QED BY <1>n, <1>z, <2>6, <3>3, <3>4, <3>5
            DEF WsAuthOk, WsAuthInvalid, WsIdle, None, Greeting
  <2>10. CASE WsGreet \/ WsTellConnected
    <3>1. ErrorInv' /\ (Refused' => Refused)
      BY <1>s, <2>10 DEF WsGreet, WsTellConnected, Online, None, Greeting
    <3> QED BY <1>n, <1>y, <2>10, <3>1
            DEF WsGreet, WsTellConnected, None, Greeting
  <2>7. CASE WsLovelaceAnswer
    <3>1. ErrorInv' /\ (Refused' => Refused)
      BY <1>s, <2>7
      DEF WsLovelaceAnswer, WsReceives, WsIdle, Online, None, Greeting
    <3> QED BY <1>n, <1>y, <2>7, <3>1
            DEF WsLovelaceAnswer, WsReceives, WsIdle, None, Greeting
  <2>8. CASE WsAfterViews \/ WsClearSlot
    <3>1. ErrorInv' /\ (Refused' => Refused)
      BY <1>s, <2>8 DEF WsAfterViews, WsClearSlot, Online, None, Greeting
    <3> QED BY <1>n, <1>y, <2>8, <3>1
            DEF WsAfterViews, WsClearSlot, None, Greeting
  <2>9. CASE WsStateChanged
    <3>1. CASE queue' = queue
      BY <1>n, <1>u, <2>9, <3>1 DEF WsStateChanged, Online
    <3>2. CASE queue' = Append(queue, "STATE_CHANGED")
      <4>1. "STATE_CHANGED" \in EventTypes
        BY DEF EventTypes
      <4>2. /\ \A evt : evt # "STATE_CHANGED" =>
                 (HasIn(queue', evt) <=> HasIn(queue, evt))
            /\ Greeted(queue) => Greeted(queue')
        BY <1>q, <3>2, <4>1, HasAppend, GreetedAppend
      <4>3. ErrorInv' /\ (Refused' => Refused)
        BY <1>e, <2>9, <4>2
        DEF WsStateChanged, ErrorInv, Refused, Online, Greeting
      <4> QED BY <1>n, <1>y, <2>9, <4>3 DEF WsStateChanged, Greeting
    <3> QED BY <2>9, <3>1, <3>2 DEF WsStateChanged, PostOrDrop
  <2> QED BY <1>2, <2>1, <2>2, <2>3, <2>4, <2>5, <2>6, <2>7, <2>8, <2>9,
             <2>10
          DEF WsTask, WsProgress, WsCloseRefused, WsCloseShutdown
<1>3. CASE HandleEvent
  <2> SUFFICES ASSUME queue # <<>> PROVE TokenInv'
    BY <1>3 DEF HandleEvent, HandleConnected, HandleDisconnected,
            HandleAuthFailed, HandleRedraw, HandleEntitiesLoaded, HeadIs
  <2>t. Tail(queue) \in Seq(EventTypes)
    BY <1>q
  <2>h. /\ HasIn(Tail(queue), "AUTH_FAILED") => HasIn(queue, "AUTH_FAILED")
        /\ HasIn(Tail(queue), "CONNECTED") => HasIn(queue, "CONNECTED")
        /\ HasIn(Tail(queue), "ENTITIES_LOADED") => HasIn(queue, "ENTITIES_LOADED")
    BY <1>q, HasTail
  \* The error is not shown afterwards.
  <2>n. ASSUME ~authFailed', UNCHANGED wsVars, screen' # "setup",
               (queue' = Tail(queue) /\ UNCHANGED sockVars) \/ SendFails(Tail(queue))
        PROVE  TokenInv'
    <3>1. CASE queue' = Tail(queue) /\ UNCHANGED sockVars
      <4>1. ErrorInv' /\ (Refused' => Refused)
        BY <1>e, <2>h, <2>n, <3>1 DEF ErrorInv, Refused
      <4> QED BY <1>n, <1>y, <2>n, <3>1, <4>1 DEF Greeting
    <3>2. CASE SendFails(Tail(queue))
      <4>1. ErrorInv'
        BY <1>e, <2>h, <2>n, <2>t, <3>2, ErrorOfFailure DEF ErrorInv, Refused
      <4>2. auth' = None /\ out' = None /\ ~Greeting'
        BY <2>n, <3>2 DEF SendFails, WsBusy, None, Greeting
      <4> QED BY <1>z, <2>n, <4>1, <4>2 DEF None
    <3> QED BY <2>n, <3>1, <3>2
  <2>1. CASE HandleConnected
    <3>1. ~SetupOpen /\ screen' # "setup" /\ UNCHANGED wsVars
      BY <1>n, <2>1 DEF HandleConnected, SetupOpen
    <3>2. ~authFailed'
      BY <2>1, <3>1, Zenon DEF HandleConnected
    <3>3. (queue' = Tail(queue) /\ UNCHANGED sockVars) \/ SendFails(Tail(queue))
      BY <2>1, <3>1 DEF HandleConnected, Request
    <3> QED BY <2>n, <3>1, <3>2, <3>3
  <2>2. CASE HandleEntitiesLoaded
    <3>1. ~SetupOpen /\ screen' # "setup" /\ UNCHANGED wsVars
      BY <1>n, <2>2 DEF HandleEntitiesLoaded, SetupOpen
    <3>2. ~authFailed'
      <4>1. ~authFailed
        BY <1>e, <1>q, <2>2, GreetedTail DEF HandleEntitiesLoaded, HeadIs, ErrorInv
      <4> QED BY <2>2, <4>1 DEF HandleEntitiesLoaded
    <3>3. (queue' = Tail(queue) /\ UNCHANGED sockVars) \/ SendFails(Tail(queue))
      BY <2>2, <3>1 DEF HandleEntitiesLoaded, Send
    <3> QED BY <2>n, <3>1, <3>2, <3>3
  <2>3. CASE HandleDisconnected \/ HandleAuthFailed
    <3>1. /\ Head(queue) # "CONNECTED" /\ queue' = Tail(queue) /\ ~Online'
          /\ screen' # "setup" /\ UNCHANGED <<sockVars, wsVars>>
          /\ authFailed' => authFailed \/ Head(queue) = "AUTH_FAILED"
      BY <1>n, <2>3 DEF HandleDisconnected, HandleAuthFailed, HeadIs,
                        ToldOfLoss, Online, SetupOpen
    <3>2. ErrorInv'
      BY <1>e, <1>q, <3>1, ErrorTaken
    <3> QED BY <1>n, <1>y, <2>h, <3>1, <3>2 DEF Greeting, Refused
  <2>4. CASE HandleRedraw
    <3>1. /\ Head(queue) # "CONNECTED" /\ queue' = Tail(queue)
          /\ screen' # "setup" /\ UNCHANGED <<sockVars, wsVars, authFailed, app>>
      BY <1>n, <2>4 DEF HandleRedraw, HeadIs
    <3>2. ErrorInv'
      BY <1>e, <1>q, <3>1, ErrorTaken DEF ErrorInv, Online
    <3> QED BY <1>n, <1>y, <2>h, <3>1, <3>2 DEF Greeting, Refused
  <2> QED BY <1>3, <2>1, <2>2, <2>3, <2>4 DEF HandleEvent
<1>4. CASE Tap
  <2>1. CASE MenuSelect \/ MenuRefresh \/ SettingsRefresh
    BY <1>f, <1>n, <1>u, <2>1
    DEF MenuSelect, MenuRefresh, SettingsRefresh, Ask, Request, Online
  <2>2. CASE StatusViews
    BY <1>f, <1>u, <2>2 DEF StatusViews, Request, Online
  <2>3. CASE EntityCommand
    BY <1>f, <1>n, <1>u, <2>3 DEF EntityCommand, Send, Online
  <2>4. CASE EntitiesMenu \/ EntitiesInfo \/ StatusBack \/ SettingsBack
    BY <1>u, <2>4 DEF EntitiesMenu, EntitiesInfo, StatusBack, SettingsBack,
                      Show, Online
  <2>5. CASE SettingsToggle
    BY <1>n, <1>u, <2>5 DEF SettingsToggle, Online
  <2>6. ~OpenSetup /\ ~SetupExit /\ ~WizardConnect
    BY <1>n DEF OpenSetup, SetupExit, WizardConnect, SetupOpen
  <2> QED BY <1>4, <2>1, <2>2, <2>3, <2>4, <2>5, <2>6 DEF Tap
<1>5. CASE Surroundings \/ UNCHANGED vars
  BY <1>5, <1>n, <1>u DEF Surroundings, vars, Online
<1> QED BY <1>1, <1>2, <1>3, <1>4, <1>5 DEF Next

\* Without the setup screen, and with a UI task that keeps up, the status page
\* never blames the token while the app believes it is online, over any number
\* of refused and accepted sessions and for every queue depth.
THEOREM TokenErrorIsTrue ==
  ASSUME Prompt, "setup" \notin Taps
  PROVE  Spec => []TokenErrorMeansOffline
<1>1. Init => TokenInv
  <2> SUFFICES ASSUME Init PROVE TokenInv
    OBVIOUS
  <2>1. ~authFailed
    BY Zenon DEF Init
  <2> QED BY <2>1 DEF Init, TokenInv, TokenErrorMeansOffline, Refused, HasIn,
                      GoodNews, None
<1>2. TokenInv => TokenErrorMeansOffline
  BY DEF TokenInv
<1> QED BY <1>1, <1>2, FreshInvInitial, TypeCorrect, SessionInvInductive,
           FailureInvInductive, FreshInvInductive, TokenInvInductive, PTL DEF Spec
=============================================================================
