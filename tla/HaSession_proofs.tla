-------------------------- MODULE HaSession_proofs --------------------------
(***************************************************************************)
(* Proofs about HaSession, for every queue depth, every length of the      *)
(* backoff table and every choice of Taps, Env and Prompt.                 *)
(***************************************************************************)
EXTENDS HaSession, TLAPS

\* What a queue of events is.
EventQueue(q) == q \in Seq(EventTypes) /\ Len(q) <= QueueCap

----------------------------------------------------------------------------
(* The operators the actions are built from                                *)

\* A post keeps the queue a queue, also when it is dropped.
LEMMA PostOrDropType ==
  ASSUME NEW q, EventQueue(q), NEW evt \in EventTypes
  PROVE  EventQueue(PostOrDrop(q, evt))
<1>1. CASE Room(q)
  <2>1. Append(q, evt) \in Seq(EventTypes) /\ Len(Append(q, evt)) = Len(q) + 1
    BY DEF EventQueue
  <2>2. Len(q) \in Nat /\ QueueCap \in Nat
    BY SessionAssumption DEF EventQueue
  <2> QED BY <1>1, <2>1, <2>2 DEF EventQueue, PostOrDrop, Room
<1>2. CASE ~Room(q)
  BY <1>2 DEF PostOrDrop
<1> QED BY <1>1, <1>2

LEMMA PostType ==
  ASSUME EventQueue(queue), NEW evt \in EventTypes, Post(evt)
  PROVE  EventQueue(queue')
BY PostOrDropType DEF Post, PostOrDrop

\* Handling an event leaves a queue.
LEMMA TailType ==
  ASSUME NEW q, EventQueue(q), q # <<>>
  PROVE  EventQueue(Tail(q)) /\ Head(q) \in EventTypes
BY SessionAssumption DEF EventQueue

LEMMA SendType ==
  ASSUME TypeOK, NEW q, EventQueue(q), Send(q)
  PROVE  /\ ws' \in SockStates /\ auth' \in AuthStates
         /\ pending' \in {None, "views", "entities"} /\ asked' \in BOOLEAN
         /\ EventQueue(queue')
<1>1. CASE SendFails(q) /\ UNCHANGED pending
  <2>1. "DISCONNECTED" \in EventTypes
    BY DEF EventTypes
  <2>2. EventQueue(PostOrDrop(PostOrDrop(q, "DISCONNECTED"), "DISCONNECTED"))
    BY <2>1, PostOrDropType
  <2> QED BY <1>1, <2>2 DEF SendFails, TypeOK, SockStates, AuthStates
<1>2. CASE queue' = q /\ UNCHANGED <<sockVars, slotVars>>
  BY <1>2 DEF TypeOK, sockVars, slotVars
<1> QED BY <1>1, <1>2 DEF Send

LEMMA RequestType ==
  ASSUME TypeOK, NEW q, EventQueue(q),
         NEW kind \in {"views", "entities"}, Request(kind, q)
  PROVE  /\ ws' \in SockStates /\ auth' \in AuthStates
         /\ pending' \in {None, "views", "entities"} /\ asked' \in BOOLEAN
         /\ EventQueue(queue')
<1>1. CASE ~client /\ queue' = q /\ UNCHANGED <<sockVars, slotVars>>
  BY <1>1 DEF TypeOK, sockVars, slotVars
<1>2. CASE client /\ pending' = kind /\ SendFails(q)
  <2>1. "DISCONNECTED" \in EventTypes
    BY DEF EventTypes
  <2>2. EventQueue(PostOrDrop(PostOrDrop(q, "DISCONNECTED"), "DISCONNECTED"))
    BY <2>1, PostOrDropType
  <2> QED BY <1>2, <2>2 DEF SendFails, SockStates, AuthStates
<1>3. CASE /\ client /\ pending' = kind
           /\ queue' = q
           /\ \/ asked' = Reaches
              \/ ~Prompt /\ WsBusy /\ asked' = FALSE
           /\ UNCHANGED sockVars
  BY <1>3 DEF TypeOK, sockVars, Reaches
<1> QED BY <1>1, <1>2, <1>3 DEF Request

----------------------------------------------------------------------------
(* Type correctness                                                        *)

\* Every variable of the session stays within its type; in particular the
\* event queue never exceeds its depth and the backoff index its table.
THEOREM TypeCorrect == Spec => []TypeOK
<1>1. Init => TypeOK
  <2> SUFFICES ASSUME Init PROVE TypeOK
    OBVIOUS
  <2>1. /\ client \in BOOLEAN /\ authFailed \in BOOLEAN
        /\ settingsMade \in BOOLEAN /\ lossTold \in BOOLEAN
        /\ asked \in BOOLEAN /\ viewsLoaded \in BOOLEAN
        /\ model \in BOOLEAN /\ built \in BOOLEAN /\ cut \in BOOLEAN
    BY Zenon DEF Init
  <2>2. queue \in Seq(EventTypes) /\ Len(queue) <= QueueCap
    BY SessionAssumption DEF Init
  <2>3. retry \in 0..(BackoffCount - 1)
    BY SessionAssumption DEF Init
  <2> QED BY <2>1, <2>2, <2>3
          DEF Init, TypeOK, HaPcs, SockStates, AuthStates, AppStates, Screens,
              HaStates
<1>2. TypeOK /\ [Next]_vars => TypeOK'
  <2> SUFFICES ASSUME TypeOK, [Next]_vars PROVE TypeOK'
    OBVIOUS
  <2> USE SessionAssumption
      DEF haVars, sockVars, wsVars, slotVars, dataVars, nvsVars, uiVars,
          envVars
  <2>q. EventQueue(queue)
    BY DEF EventQueue, TypeOK
  <2>e. /\ {"CONNECTED", "DISCONNECTED", "AUTH_FAILED", "VIEWS_LOADED",
            "ENTITIES_LOADED", "STATE_CHANGED"} \subseteq EventTypes
    BY DEF EventTypes
  <2>1. CASE HaTask
    <3>1. CASE WifiAttempt
      BY <3>1 DEF WifiAttempt, TypeOK, HaPcs, AppStates
    <3>2. CASE WifiJoined
      BY <3>2 DEF WifiJoined, TypeOK, HaPcs
    <3>3. CASE WifiTimeout
      <4>1. EventQueue(queue')
        BY <3>3, <2>q, <2>e, PostType DEF WifiTimeout
      <4> QED BY <3>3, <4>1 DEF WifiTimeout, TypeOK, HaPcs, EventQueue
    <3>4. CASE WifiRetry
      BY <3>4 DEF WifiRetry, NextBackoff, TypeOK, HaPcs
    <3>5. CASE HaConnect
      <4>1. client' \in BOOLEAN /\ cut' \in BOOLEAN
        BY <3>5, Zenon DEF HaConnect
      <4> QED BY <4>1, <3>5 DEF HaConnect, TypeOK, HaPcs, AppStates, SockStates
    <3>6. CASE SeesConnected
      BY <3>6 DEF SeesConnected, TypeOK, HaPcs
    <3>7. CASE StopClient
      BY <3>7 DEF StopClient, TypeOK, HaPcs
    <3>8. CASE DestroyClient
      <4>1. client' \in BOOLEAN
        BY <3>8, Zenon DEF DestroyClient
      <4> QED BY <4>1, <3>8 DEF DestroyClient, TypeOK, HaPcs
    <3>9. CASE BackoffOver
      BY <3>9 DEF BackoffOver, NextBackoff, TypeOK, HaPcs
    <3> QED BY <2>1, <3>1, <3>2, <3>3, <3>4, <3>5, <3>6, <3>7, <3>8, <3>9
            DEF HaTask, HaWifi, HaLoop, AwaitTimeout, SeesLost
  <2>2. CASE WsTask
    <3>1. CASE WsPost
      <4>1. out \in EventTypes
        BY <3>1 DEF WsPost, TypeOK
      <4>2. EventQueue(queue')
        BY <3>1, <4>1, <2>q, PostType DEF WsPost
      <4> QED BY <3>1, <4>2 DEF WsPost, TypeOK, EventQueue
    <3>2. CASE WsConnectOk
      BY <3>2 DEF WsConnectOk, TypeOK, SockStates, AuthStates, AppStates
    <3>3. CASE WsFails
      BY <3>3, <2>e DEF WsFails, TypeOK
    <3>4. CASE WsAbort
      <4>1. asked' \in BOOLEAN
        BY <3>4, Zenon DEF WsAbort
      <4> QED BY <4>1, <3>4, <2>e DEF WsAbort, TypeOK, SockStates, AuthStates
    <3>5. CASE WsGiveUp
      BY <3>5 DEF WsGiveUp, TypeOK, SockStates
    <3>6. CASE WsExit
      <4>1. asked' \in BOOLEAN
        BY <3>6, Zenon DEF WsExit
      <4> QED BY <4>1, <3>6 DEF WsExit, TypeOK, SockStates, AuthStates
    <3>7. CASE WsCloses
      <4>1. asked' \in BOOLEAN
        BY <3>7, Zenon DEF WsCloses
      <4> QED BY <4>1, <3>7 DEF WsCloses, TypeOK, SockStates, AuthStates
    <3>8. CASE WsAuthRequired
      BY <3>8 DEF WsAuthRequired, TypeOK, AuthStates
    <3>9. CASE WsAuthOk
      BY <3>9 DEF WsAuthOk, TypeOK, AuthStates
    <3>15. CASE WsGreet
      <4>1. cut' \in BOOLEAN
        BY <3>15 DEF WsGreet, TypeOK
      <4> QED BY <4>1, <3>15, <2>e DEF WsGreet, TypeOK
    <3>16. CASE WsTellConnected
      BY <3>16, <2>e DEF WsTellConnected, TypeOK
    <3>10. CASE WsAuthInvalid
      BY <3>10, <2>e DEF WsAuthInvalid, TypeOK, AuthStates
    <3>11. CASE WsLovelaceAnswer
      <4>1. asked' \in BOOLEAN
        BY <3>11, Zenon DEF WsLovelaceAnswer
      <4>2. viewsLoaded' \in BOOLEAN
        BY <3>11 DEF WsLovelaceAnswer, TypeOK
      <4> QED BY <4>1, <4>2, <3>11, <2>e DEF WsLovelaceAnswer, TypeOK
    <3>12. CASE WsAfterViews
      <4>1. model' \in BOOLEAN /\ built' \in BOOLEAN
        BY <3>12 DEF WsAfterViews, TypeOK
      <4> QED BY <4>1, <3>12, <2>e DEF WsAfterViews, TypeOK
    <3>13. CASE WsClearSlot
      <4>1. asked' \in BOOLEAN
        BY <3>13, Zenon DEF WsClearSlot
      <4> QED BY <4>1, <3>13 DEF WsClearSlot, TypeOK
    <3>14. CASE WsStateChanged
      <4>1. EventQueue(queue')
        BY <3>14, <2>q, <2>e, PostOrDropType DEF WsStateChanged
      <4> QED BY <3>14, <4>1 DEF WsStateChanged, TypeOK, EventQueue
    <3> QED BY <2>2, <3>1, <3>2, <3>3, <3>4, <3>5, <3>6, <3>7, <3>8, <3>9,
               <3>10, <3>11, <3>12, <3>13, <3>14, <3>15, <3>16
            DEF WsTask, WsProgress, WsCloseRefused, WsCloseShutdown
  <2>3. CASE HandleEvent
    <3> SUFFICES ASSUME queue # <<>> PROVE TypeOK'
      BY <2>3 DEF HandleEvent, HandleConnected, HandleDisconnected,
              HandleAuthFailed, HandleRedraw, HandleEntitiesLoaded, HeadIs
    <3>t. EventQueue(Tail(queue))
      BY <2>q, TailType
    <3>1. CASE HandleConnected
      <4>f. lossTold' \in BOOLEAN
        BY <3>1, Zenon DEF HandleConnected
      <4>1. CASE SetupOpen /\ queue' = Tail(queue)
                 /\ UNCHANGED <<sockVars, slotVars, app, screen, authFailed, saved>>
        BY <3>1, <3>t, <4>1, <4>f DEF HandleConnected, TypeOK, EventQueue
      <4>2. CASE ~SetupOpen /\ LoadsView /\ Request("entities", Tail(queue))
                 /\ app' = "ENTITIES_LOADING" /\ saved' = TRUE
                 /\ authFailed' = FALSE /\ UNCHANGED screen
        <5>1. /\ ws' \in SockStates /\ auth' \in AuthStates
              /\ pending' \in {None, "views", "entities"} /\ asked' \in BOOLEAN
              /\ EventQueue(queue')
          BY <3>t, <4>2, RequestType
        <5>2. authFailed' \in BOOLEAN
          BY <4>2, Zenon
        <5> QED BY <3>1, <4>2, <4>f, <5>1, <5>2
                DEF HandleConnected, TypeOK, EventQueue, AppStates
      <4>3. CASE ~SetupOpen /\ ~LoadsView /\ Request("views", Tail(queue))
                 /\ app' = "VIEW_SELECT" /\ screen' = "menu"
                 /\ authFailed' = FALSE /\ UNCHANGED saved
        <5>1. /\ ws' \in SockStates /\ auth' \in AuthStates
              /\ pending' \in {None, "views", "entities"} /\ asked' \in BOOLEAN
              /\ EventQueue(queue')
          BY <3>t, <4>3, RequestType
        <5>2. authFailed' \in BOOLEAN
          BY <4>3, Zenon
        <5> QED BY <3>1, <4>3, <4>f, <5>1, <5>2
                DEF HandleConnected, TypeOK, EventQueue, AppStates, Screens
      <4> QED BY <3>1, <4>1, <4>2, <4>3 DEF HandleConnected
    <3>2. CASE ToldOfLoss /\ authFailed' \in BOOLEAN
      BY <3>2, <3>t DEF ToldOfLoss, TypeOK, EventQueue, AppStates, Screens
    <3>3. CASE HandleRedraw
      BY <3>3, <3>t DEF HandleRedraw, TypeOK, EventQueue
    <3>4. CASE HandleEntitiesLoaded
      <4>1. CASE SetupOpen /\ queue' = Tail(queue)
                 /\ UNCHANGED <<sockVars, slotVars, app, screen>>
        BY <3>4, <3>t, <4>1 DEF HandleEntitiesLoaded, TypeOK, EventQueue
      <4>2. CASE ~SetupOpen /\ Send(Tail(queue))
                 /\ app' = "VIEW_READY" /\ screen' = "entities"
        <5>1. /\ ws' \in SockStates /\ auth' \in AuthStates
              /\ pending' \in {None, "views", "entities"} /\ asked' \in BOOLEAN
              /\ EventQueue(queue')
          BY <3>t, <4>2, SendType
        <5> QED BY <3>4, <4>2, <5>1
                DEF HandleEntitiesLoaded, TypeOK, EventQueue, AppStates, Screens
      <4> QED BY <3>4, <4>1, <4>2 DEF HandleEntitiesLoaded
    <3> QED BY <2>3, <3>1, <3>2, <3>3, <3>4
            DEF HandleEvent, HandleDisconnected, HandleAuthFailed, TypeOK
  <2>4. CASE Tap
    <3>s. ASSUME NEW scr \in Screens, Show(scr) PROVE TypeOK'
      BY <3>s DEF Show, TypeOK
    <3>a. ASSUME NEW kind \in {"views", "entities"}, Ask(kind),
                 saved' \in BOOLEAN
          PROVE  TypeOK'
      <4>1. /\ ws' \in SockStates /\ auth' \in AuthStates
            /\ pending' \in {None, "views", "entities"} /\ asked' \in BOOLEAN
            /\ EventQueue(queue')
        BY <3>a, <2>q, RequestType DEF Ask
      <4> QED BY <3>a, <4>1 DEF Ask, TypeOK, EventQueue
    <3>1. CASE MenuSelect
      BY <3>1, <3>a DEF MenuSelect
    <3>2. CASE MenuRefresh \/ SettingsRefresh
      BY <3>2, <3>a DEF MenuRefresh, SettingsRefresh, TypeOK
    <3>3. CASE OpenSetup \/ SetupExit
      BY <3>3 DEF OpenSetup, SetupExit, TypeOK, AppStates, Screens
    <3>4. CASE WizardConnect
      BY <3>4 DEF WizardConnect, TypeOK
    <3>5. CASE EntitiesMenu \/ EntitiesInfo \/ StatusBack \/ SettingsBack
      BY <3>5, <3>s DEF EntitiesMenu, EntitiesInfo, StatusBack, SettingsBack,
                        Screens
    <3>6. CASE EntityCommand
      <4>1. /\ ws' \in SockStates /\ auth' \in AuthStates
            /\ pending' \in {None, "views", "entities"} /\ asked' \in BOOLEAN
            /\ EventQueue(queue')
        BY <3>6, <2>q, SendType DEF EntityCommand
      <4> QED BY <3>6, <4>1 DEF EntityCommand, TypeOK, EventQueue
    <3>7. CASE StatusViews
      <4>1. /\ ws' \in SockStates /\ auth' \in AuthStates
            /\ pending' \in {None, "views", "entities"} /\ asked' \in BOOLEAN
            /\ EventQueue(queue')
        <5>1. CASE settingsMade \/ viewsLoaded
          BY <3>7, <5>1, <2>q DEF StatusViews, TypeOK
        <5>2. CASE ~(settingsMade \/ viewsLoaded)
          BY <3>7, <5>2, <2>q, RequestType DEF StatusViews
        <5> QED BY <5>1, <5>2
      <4> QED BY <3>7, <4>1 DEF StatusViews, TypeOK, EventQueue, Screens
    <3>8. CASE SettingsToggle
      BY <3>8 DEF SettingsToggle, TypeOK
    <3> QED BY <2>4, <3>1, <3>2, <3>3, <3>4, <3>5, <3>6, <3>7, <3>8 DEF Tap
  <2>5. CASE Surroundings
    BY <2>5 DEF Surroundings, WifiUp, WifiRefused, WifiDrop, HaChanges,
                HaStates, TypeOK
  <2>6. CASE UNCHANGED vars
    BY <2>6 DEF vars, TypeOK
  <2> QED BY <2>1, <2>2, <2>3, <2>4, <2>5, <2>6 DEF Next
<1> QED BY <1>1, <1>2, PTL DEF Spec

----------------------------------------------------------------------------
(* A session ends before its client is destroyed                           *)

\* The strengthening: s_client is set exactly from connect_once to the
\* destroy, and a websocket task in the state UNKNOW has ended, with
\* nothing left to post.
SessionInv ==
  /\ client <=> haPc \in {"await", "poll", "stopping"}
  /\ ~client => ws = "unknown"
  /\ ws = "unknown" => WsIdle

LEMMA SessionInvInductive == SessionInv /\ [Next]_vars => SessionInv'
<1> SUFFICES ASSUME SessionInv, [Next]_vars PROVE SessionInv'
  OBVIOUS
<1> USE DEF haVars, sockVars, wsVars, slotVars, dataVars, nvsVars, uiVars,
            envVars
<1>u. ASSUME UNCHANGED <<haPc, client, ws, wsPc, out>> PROVE SessionInv'
  BY <1>u DEF SessionInv, WsIdle
\* What the UI task sends can only end a connection.
<1>s. ASSUME UNCHANGED <<haPc, client, wsPc, out>>, ws = "connected",
             ws' = "wait_timeout"
      PROVE  SessionInv'
  BY <1>s DEF SessionInv, WsIdle
<1>q. ASSUME NEW q, Send(q), UNCHANGED <<haPc, client, wsPc, out>>
      PROVE  SessionInv'
  BY <1>q, <1>u, <1>s DEF Send, SendFails
<1>r. ASSUME NEW q, NEW kind, Request(kind, q),
             UNCHANGED <<haPc, client, wsPc, out>>
      PROVE  SessionInv'
  BY <1>r, <1>u, <1>s DEF Request, SendFails
<1>1. CASE HaTask
  <2>1. CASE HaWifi
    BY <1>1, <2>1 DEF HaWifi, WifiAttempt, WifiJoined, WifiTimeout, WifiRetry,
                      SessionInv, WsIdle
  <2>2. CASE HaConnect
    <3>1. client'
      BY <2>2, Zenon DEF HaConnect
    <3> QED BY <2>2, <3>1 DEF HaConnect, SessionInv, WsIdle
  <2>3. CASE SeesConnected \/ (StopClient /\ client)
    BY <2>3 DEF SeesConnected, StopClient, SessionInv, WsIdle
  <2>4. CASE DestroyClient
    <3>1. ~client'
      BY <2>4, Zenon DEF DestroyClient
    <3> QED BY <2>4, <3>1 DEF DestroyClient, SessionInv, WsIdle
  <2>5. CASE BackoffOver
    BY <2>5 DEF BackoffOver, SessionInv, WsIdle
  <2>6. CASE AwaitTimeout \/ SeesLost
    BY <2>3, <2>6 DEF AwaitTimeout, SeesLost, SessionInv
  <2> QED BY <1>1, <2>1, <2>2, <2>3, <2>4, <2>5, <2>6 DEF HaTask, HaLoop
<1>2. CASE WsTask
  <2>1. CASE WsPost \/ WsConnectOk \/ WsFails \/ WsAbort
    BY <2>1 DEF WsPost, WsConnectOk, WsFails, WsAbort, SessionInv, WsIdle
  <2>2. CASE WsGiveUp \/ WsExit \/ WsCloses
    BY <2>2 DEF WsGiveUp, WsExit, WsCloses, SessionInv, WsIdle
  <2>3. CASE WsAuthRequired \/ WsAuthOk \/ WsAuthInvalid
    BY <2>3 DEF WsAuthRequired, WsAuthOk, WsAuthInvalid, WsReceives,
                SessionInv, WsIdle
  <2>6. CASE WsGreet \/ WsTellConnected
    BY <2>6 DEF WsGreet, WsTellConnected, SessionInv, WsIdle
  <2>4. CASE WsLovelaceAnswer \/ WsStateChanged
    BY <2>4 DEF WsLovelaceAnswer, WsStateChanged, WsReceives, SessionInv,
                WsIdle
  <2>5. CASE WsAfterViews \/ WsClearSlot
    BY <2>5 DEF WsAfterViews, WsClearSlot, SessionInv, WsIdle
  <2> QED BY <1>2, <2>1, <2>2, <2>3, <2>4, <2>5, <2>6
          DEF WsTask, WsProgress, WsCloseRefused, WsCloseShutdown
<1>3. CASE HandleEvent
  <2>1. CASE HandleConnected
    BY <2>1, <1>u, <1>r DEF HandleConnected
  <2>2. CASE HandleDisconnected \/ HandleAuthFailed \/ HandleRedraw
    BY <2>2, <1>u DEF HandleDisconnected, HandleAuthFailed, HandleRedraw,
                      ToldOfLoss
  <2>3. CASE HandleEntitiesLoaded
    BY <2>3, <1>u, <1>q DEF HandleEntitiesLoaded
  <2> QED BY <1>3, <2>1, <2>2, <2>3 DEF HandleEvent
<1>4. CASE Tap
  <2>1. CASE MenuSelect \/ MenuRefresh \/ SettingsRefresh
    BY <2>1, <1>r DEF MenuSelect, MenuRefresh, SettingsRefresh, Ask
  <2>2. CASE OpenSetup \/ SetupExit \/ WizardConnect \/ SettingsToggle
    BY <2>2, <1>u DEF OpenSetup, SetupExit, WizardConnect, SettingsToggle
  <2>3. CASE EntitiesMenu \/ EntitiesInfo \/ StatusBack \/ SettingsBack
    BY <2>3, <1>u DEF EntitiesMenu, EntitiesInfo, StatusBack, SettingsBack,
                      Show
  <2>4. CASE EntityCommand
    BY <2>4, <1>q DEF EntityCommand
  <2>5. CASE StatusViews
    BY <2>5, <1>u, <1>r DEF StatusViews
  <2> QED BY <1>4, <2>1, <2>2, <2>3, <2>4, <2>5 DEF Tap
<1>5. CASE Surroundings \/ UNCHANGED vars
  BY <1>5, <1>u DEF Surroundings, vars
<1> QED BY <1>1, <1>2, <1>3, <1>4, <1>5 DEF Next

\* A destroyed client has no websocket task left that could post an event
\* or change app_state, so two sessions never overlap.
THEOREM SessionsEnd == Spec => []SessionEnds
<1>1. Init => SessionInv
  BY Zenon DEF Init, SessionInv, WsIdle
<1>2. SessionInv => SessionEnds
  BY DEF SessionInv, SessionEnds
<1> QED BY <1>1, <1>2, SessionInvInductive, PTL DEF Spec

----------------------------------------------------------------------------
(* The setup screen                                                        *)

\* No event of HA, and no task but the user's own tap on the exit button,
\* takes the setup screen away.
THEOREM SetupStays == Spec => SetupKeepsScreen
<1>1. [Next]_vars =>
        (SetupOpen /\ screen' # screen => app' = "VIEW_SELECT" /\ queue' = queue)
  <2> SUFFICES ASSUME [Next]_vars, SetupOpen, screen' # screen
               PROVE  app' = "VIEW_SELECT" /\ queue' = queue
    OBVIOUS
  <2> USE DEF uiVars, SetupOpen
  <2>1. CASE HaTask
    BY <2>1 DEF HaTask, HaWifi, HaLoop, WifiAttempt, WifiJoined, WifiTimeout,
          WifiRetry, HaConnect, SeesConnected, AwaitTimeout, SeesLost,
          StopClient, DestroyClient, BackoffOver
  <2>2. CASE WsTask
    BY <2>2 DEF WsTask, WsProgress, WsPost, WsConnectOk, WsFails, WsAbort,
          WsGiveUp, WsExit, WsCloses, WsCloseRefused, WsCloseShutdown,
          WsAuthRequired, WsAuthOk, WsGreet, WsTellConnected, WsAuthInvalid,
          WsLovelaceAnswer,
          WsAfterViews, WsClearSlot, WsStateChanged
  <2>3. CASE HandleEvent
    BY <2>3 DEF HandleEvent, HandleConnected, HandleDisconnected,
          HandleAuthFailed, HandleRedraw, HandleEntitiesLoaded, ToldOfLoss
  <2>4. CASE Tap
    <3>1. CASE SetupExit
      BY <3>1 DEF SetupExit
    <3>2. CASE ~SetupExit
      BY <2>4, <3>2 DEF Tap, MenuSelect, MenuRefresh, SettingsRefresh, Ask,
            OpenSetup, WizardConnect, EntitiesMenu, EntitiesInfo,
            EntityCommand, StatusBack, StatusViews, SettingsBack,
            SettingsToggle
    <3> QED BY <3>1, <3>2
  <2>5. CASE Surroundings \/ UNCHANGED vars
    BY <2>5 DEF Surroundings, vars
  <2> QED BY <2>1, <2>2, <2>3, <2>4, <2>5 DEF Next
<1> QED BY <1>1, PTL DEF Spec, SetupKeepsScreen

----------------------------------------------------------------------------
(* The entities screen follows a processed answer                          *)

\* The strengthening: the event that leads to the screen, wherever it is,
\* was posted for a processed answer.
BackedInv ==
  \/ built
  \/ /\ app # "VIEW_READY" /\ screen # "entities" /\ ~model
     /\ out # "ENTITIES_LOADED"
     /\ \A i \in 1..Len(queue) : queue[i] # "ENTITIES_LOADED"

LEMMA NoEventAppended ==
  ASSUME NEW q \in Seq(EventTypes), NEW evt \in EventTypes,
         evt # "ENTITIES_LOADED",
         \A i \in 1..Len(q) : q[i] # "ENTITIES_LOADED"
  PROVE  \A i \in 1..Len(PostOrDrop(q, evt)) :
            PostOrDrop(q, evt)[i] # "ENTITIES_LOADED"
BY DEF PostOrDrop

LEMMA NoEventInTail ==
  ASSUME NEW q \in Seq(EventTypes), q # <<>>,
         \A i \in 1..Len(q) : q[i] # "ENTITIES_LOADED"
  PROVE  /\ Head(q) # "ENTITIES_LOADED"
         /\ \A i \in 1..Len(Tail(q)) : Tail(q)[i] # "ENTITIES_LOADED"
OBVIOUS

LEMMA BackedInvInductive == TypeOK /\ BackedInv /\ [Next]_vars => BackedInv'
<1> SUFFICES ASSUME TypeOK, BackedInv, [Next]_vars PROVE BackedInv'
  OBVIOUS
<1> USE DEF haVars, sockVars, wsVars, slotVars, dataVars, nvsVars, uiVars,
            envVars
<1>b. built => built'
  BY DEF Next, HaTask, HaWifi, HaLoop, WifiAttempt, WifiJoined, WifiTimeout,
         WifiRetry, HaConnect, SeesConnected, AwaitTimeout, SeesLost,
         StopClient, DestroyClient, BackoffOver, WsTask, WsProgress, WsPost,
         WsConnectOk, WsFails, WsAbort, WsGiveUp, WsExit, WsCloses,
         WsCloseRefused, WsCloseShutdown, WsAuthRequired, WsAuthOk,
         WsGreet, WsTellConnected, WsAuthInvalid, WsLovelaceAnswer, WsAfterViews, WsClearSlot,
         WsStateChanged, HandleEvent, HandleConnected, HandleDisconnected,
         HandleAuthFailed, HandleRedraw, HandleEntitiesLoaded, ToldOfLoss,
         Tap, MenuSelect, MenuRefresh, SettingsRefresh, Ask, OpenSetup,
         SetupExit, WizardConnect, EntitiesMenu, EntitiesInfo, Show,
         EntityCommand, StatusBack, StatusViews, SettingsBack,
         SettingsToggle, Surroundings, vars
<1> SUFFICES ASSUME ~built PROVE BackedInv'
  BY <1>b DEF BackedInv
<1>q. /\ queue \in Seq(EventTypes)
      /\ "DISCONNECTED" \in EventTypes /\ "STATE_CHANGED" \in EventTypes
  BY DEF TypeOK, EventTypes
<1>n. /\ app # "VIEW_READY" /\ screen # "entities" /\ ~model
      /\ out # "ENTITIES_LOADED"
      /\ \A i \in 1..Len(queue) : queue[i] # "ENTITIES_LOADED"
  BY DEF BackedInv
<1> DEFINE Clean(q) == /\ q \in Seq(EventTypes)
                       /\ \A i \in 1..Len(q) : q[i] # "ENTITIES_LOADED"
<1>c. Clean(queue)
  BY <1>q, <1>n
<1>t. queue # <<>> => Clean(Tail(queue))
  BY <1>c, NoEventInTail
<1>p. ASSUME NEW q, NEW evt \in EventTypes, Clean(q), evt # "ENTITIES_LOADED"
      PROVE  Clean(PostOrDrop(q, evt))
  <2>1. PostOrDrop(q, evt) \in Seq(EventTypes)
    BY <1>p DEF PostOrDrop
  <2> QED BY <1>p, <2>1, NoEventAppended
\* Whatever the UI task sends, the queue it leaves behind is still clean.
<1>s. ASSUME NEW q, Clean(q), SendFails(q) PROVE Clean(queue')
  BY <1>s, <1>q, <1>p DEF SendFails
<1>z. ASSUME Clean(queue'), app' # "VIEW_READY", screen' # "entities", ~model',
             out' # "ENTITIES_LOADED"
      PROVE  BackedInv'
  BY <1>z DEF BackedInv
<1> HIDE DEF Clean
<1>1. CASE HaTask
  <2>1. CASE WifiTimeout
    BY <1>n, <1>c, <1>p, <1>q, <1>z, <2>1 DEF WifiTimeout, Post, PostOrDrop
  <2>2. CASE ~WifiTimeout
    BY <1>1, <1>n, <1>c, <1>z, <2>2
    DEF HaTask, HaWifi, HaLoop, WifiAttempt, WifiJoined, WifiRetry, HaConnect,
        SeesConnected, AwaitTimeout, SeesLost, StopClient, DestroyClient,
        BackoffOver
  <2> QED BY <2>1, <2>2
<1>2. CASE WsTask
  <2>1. CASE WsPost
    <3>1. out \in EventTypes
      BY <2>1 DEF WsPost, TypeOK
    <3>2. Clean(queue')
      BY <1>n, <1>c, <1>p, <2>1, <3>1 DEF WsPost, Post, PostOrDrop
    <3> QED BY <1>n, <1>z, <2>1, <3>2 DEF WsPost, None
  <2>2. CASE WsStateChanged
    BY <1>n, <1>c, <1>p, <1>q, <1>z, <2>2 DEF WsStateChanged
  <2>3. CASE WsAfterViews
    <3>1. CASE UNCHANGED <<model, built, out>>
      BY <1>n, <1>c, <1>z, <2>3, <3>1 DEF WsAfterViews
    <3>2. CASE built' = TRUE
      BY <3>2 DEF BackedInv
    <3> QED BY <2>3, <3>1, <3>2 DEF WsAfterViews
  <2>4. CASE ~(WsPost \/ WsStateChanged \/ WsAfterViews)
    BY <1>2, <1>n, <1>c, <1>z, <2>4
    DEF WsTask, WsProgress, WsConnectOk, WsFails, WsAbort, WsGiveUp, WsExit,
        WsCloses, WsCloseRefused, WsCloseShutdown, WsAuthRequired, WsAuthOk,
        WsGreet, WsTellConnected, WsAuthInvalid, WsLovelaceAnswer, WsClearSlot
  <2> QED BY <2>1, <2>2, <2>3, <2>4
<1>3. CASE HandleEvent
  <2>1. queue # <<>> /\ Head(queue) # "ENTITIES_LOADED"
    BY <1>3, <1>c, NoEventInTail
    DEF HandleEvent, HandleConnected, HandleDisconnected, HandleAuthFailed,
        HandleRedraw, HandleEntitiesLoaded, HeadIs, Clean
  <2>2. Clean(Tail(queue))
    BY <1>t, <2>1
  <2>3. CASE HandleConnected
    <3>1. ASSUME NEW kind, Request(kind, Tail(queue)) PROVE Clean(queue')
      BY <1>s, <2>2, <3>1 DEF Request
    <3> QED BY <1>n, <1>z, <2>2, <2>3, <3>1 DEF HandleConnected
  <2>4. CASE ToldOfLoss \/ HandleRedraw
    BY <1>n, <1>z, <2>2, <2>4 DEF ToldOfLoss, HandleRedraw
  <2> QED BY <1>3, <2>1, <2>3, <2>4
          DEF HandleEvent, HandleDisconnected, HandleAuthFailed,
              HandleEntitiesLoaded, HeadIs
<1>4. CASE Tap
  <2>r. ASSUME NEW kind, Request(kind, queue) PROVE Clean(queue')
    BY <1>c, <1>s, <2>r DEF Request
  <2>1. CASE MenuSelect \/ MenuRefresh \/ SettingsRefresh
    BY <1>n, <1>z, <2>1, <2>r DEF MenuSelect, MenuRefresh, SettingsRefresh, Ask
  <2>2. CASE OpenSetup \/ SetupExit \/ WizardConnect \/ SettingsToggle
    BY <1>n, <1>c, <1>z, <2>2 DEF OpenSetup, SetupExit, WizardConnect,
                                  SettingsToggle
  <2>3. CASE EntitiesMenu \/ EntitiesInfo \/ EntityCommand
    BY <1>n, <2>3 DEF EntitiesMenu, EntitiesInfo, EntityCommand
  <2>4. CASE StatusBack \/ SettingsBack
    BY <1>n, <1>c, <1>z, <2>4 DEF StatusBack, SettingsBack, Show
  <2>5. CASE StatusViews
    BY <1>n, <1>c, <1>z, <2>5, <2>r DEF StatusViews
  <2> QED BY <1>4, <2>1, <2>2, <2>3, <2>4, <2>5 DEF Tap
<1>5. CASE Surroundings \/ UNCHANGED vars
  BY <1>n, <1>c, <1>z, <1>5 DEF Surroundings, vars
<1> QED BY <1>1, <1>2, <1>3, <1>4, <1>5 DEF Next

\* The entities screen is never built from a view model that no answer of HA
\* has filled.
THEOREM EntitiesAreBacked == Spec => []EntitiesBacked
<1>1. Init => BackedInv
  <2> SUFFICES ASSUME Init PROVE BackedInv
    OBVIOUS
  <2>1. ~model
    BY Zenon DEF Init
  <2> QED BY <2>1 DEF Init, BackedInv, None
<1>2. BackedInv => EntitiesBacked
  BY DEF BackedInv, EntitiesBacked
<1> QED BY <1>1, <1>2, TypeCorrect, BackedInvInductive, PTL DEF Spec

----------------------------------------------------------------------------
(* "Verbonden" is true or about to be corrected                            *)

\* A DISCONNECTED after position n.
LossIn(q, n) == \E i \in 1..Len(q) : i > n /\ q[i] = "DISCONNECTED"

\* The session is up, or the websocket task has yet to post its loss, or the
\* loss came before the news of the connection.
UpOrLosing == \/ LinkUp \/ cut
              \/ out = "DISCONNECTED" \/ wsPc \in {"abort", "greetAbort"}

\* There is no client.
Between == haPc \in {"wifi", "wifiWait", "wifiBackoff", "connect"}

\* The events that make the app believe it is online.
GoodNews == {"CONNECTED", "ENTITIES_LOADED"}

\* Every piece of good news in the queue is true or followed by the loss.
NewsHolds(q, up) ==
  \A i \in 1..Len(q) : q[i] \in GoodNews => up \/ LossIn(q, i)

LEMMA LossInTail ==
  ASSUME NEW q \in Seq(EventTypes), q # <<>>, NEW n \in Nat, LossIn(q, n + 1)
  PROVE  LossIn(Tail(q), n)
<1>1. PICK i \in 1..Len(q) : i > n + 1 /\ q[i] = "DISCONNECTED"
  BY DEF LossIn
<1>2. i - 1 \in 1..Len(Tail(q)) /\ i - 1 > n /\ Tail(q)[i - 1] = q[i]
  BY <1>1
<1> QED BY <1>1, <1>2 DEF LossIn

LEMMA LossInAppend ==
  ASSUME NEW q \in Seq(EventTypes), NEW evt \in EventTypes, NEW n \in Nat,
         LossIn(q, n)
  PROVE  LossIn(Append(q, evt), n)
<1>1. PICK i \in 1..Len(q) : i > n /\ q[i] = "DISCONNECTED"
  BY DEF LossIn
<1>2. i \in 1..Len(Append(q, evt)) /\ Append(q, evt)[i] = q[i]
  BY <1>1
<1> QED BY <1>1, <1>2 DEF LossIn

LEMMA LossAppended ==
  ASSUME NEW q \in Seq(EventTypes), NEW n \in 0..Len(q)
  PROVE  LossIn(Append(q, "DISCONNECTED"), n)
<1>1. "DISCONNECTED" \in EventTypes
  BY DEF EventTypes
<1>2. /\ Len(q) + 1 \in 1..Len(Append(q, "DISCONNECTED"))
      /\ Append(q, "DISCONNECTED")[Len(q) + 1] = "DISCONNECTED"
      /\ Len(q) + 1 > n
  BY <1>1
<1> QED BY <1>2 DEF LossIn

LEMMA NewsTail ==
  ASSUME NEW q \in Seq(EventTypes), q # <<>>, NEW up, NewsHolds(q, up)
  PROVE  /\ NewsHolds(Tail(q), up)
         /\ Head(q) \in GoodNews => up \/ LossIn(Tail(q), 0)
         /\ Head(q) # "DISCONNECTED" /\ LossIn(q, 0) => LossIn(Tail(q), 0)
<1>1. ASSUME NEW i \in 1..Len(Tail(q)), Tail(q)[i] \in GoodNews
      PROVE  up \/ LossIn(Tail(q), i)
  <2>1. i + 1 \in 1..Len(q) /\ q[i + 1] = Tail(q)[i] /\ i \in Nat
    BY <1>1
  <2>2. up \/ LossIn(q, i + 1)
    BY <1>1, <2>1 DEF NewsHolds
  <2> QED BY <2>1, <2>2, LossInTail
<1>2. ASSUME Head(q) \in GoodNews PROVE up \/ LossIn(Tail(q), 0)
  <2>1. 1 \in 1..Len(q) /\ q[1] = Head(q)
    OBVIOUS
  <2>2. up \/ LossIn(q, 0 + 1)
    BY <1>2, <2>1 DEF NewsHolds
  <2> QED BY <2>2, LossInTail
<1>3. ASSUME Head(q) # "DISCONNECTED", LossIn(q, 0) PROVE LossIn(Tail(q), 0)
  <2>1. PICK i \in 1..Len(q) : q[i] = "DISCONNECTED"
    BY <1>3 DEF LossIn
  <2>2. i # 1
    BY <1>3, <2>1
  <2>3. LossIn(q, 0 + 1)
    BY <2>1, <2>2 DEF LossIn
  <2> QED BY <2>3, LossInTail
<1> QED BY <1>1, <1>2, <1>3 DEF NewsHolds

\* Appending good news needs it to be true, appending anything else does not.
LEMMA NewsAppend ==
  ASSUME NEW q \in Seq(EventTypes), NEW evt \in EventTypes, NEW up,
         NewsHolds(q, up), evt \in GoodNews => up
  PROVE  NewsHolds(Append(q, evt), up)
<1> SUFFICES ASSUME NEW i \in 1..Len(Append(q, evt)),
                    Append(q, evt)[i] \in GoodNews
             PROVE  up \/ LossIn(Append(q, evt), i)
  BY DEF NewsHolds
<1>1. CASE i = Len(q) + 1
  BY <1>1
<1>2. CASE i \in 1..Len(q)
  <2>1. Append(q, evt)[i] = q[i] /\ i \in Nat
    BY <1>2
  <2>2. up \/ LossIn(q, i)
    BY <1>2, <2>1 DEF NewsHolds
  <2> QED BY <2>1, <2>2, LossInAppend
<1> QED BY <1>1, <1>2

\* The loss at the end of the queue answers for all news before it.
LEMMA NewsLossAppended ==
  ASSUME NEW q \in Seq(EventTypes)
  PROVE  /\ Append(q, "DISCONNECTED") \in Seq(EventTypes)
         /\ NewsHolds(Append(q, "DISCONNECTED"), FALSE)
         /\ LossIn(Append(q, "DISCONNECTED"), 0)
<1>1. "DISCONNECTED" \in EventTypes /\ "DISCONNECTED" \notin GoodNews
  BY DEF EventTypes, GoodNews
<1>2. ASSUME NEW i \in 1..Len(Append(q, "DISCONNECTED")),
             Append(q, "DISCONNECTED")[i] \in GoodNews
      PROVE  LossIn(Append(q, "DISCONNECTED"), i)
  <2>1. i \in 0..Len(q)
    BY <1>1, <1>2
  <2> QED BY <2>1, LossAppended
<1> QED BY <1>1, <1>2, LossAppended DEF NewsHolds

\* The part of OnlineInv that speaks of the queue: what the app believes, and
\* every piece of good news still to come, is true or will be corrected. A
\* new attempt finds no good news of the session before it.
NewsInv == /\ Online => UpOrLosing \/ LossIn(queue, 0)
           /\ NewsHolds(queue, UpOrLosing)
           /\ Between => NewsHolds(queue, FALSE)

\* The strengthening of OnlineIsTrue. ~ClientRuns is why a stop cannot cut
\* off a session that came up unseen: HA has not authenticated it.
OnlineInv ==
  /\ screen # "setup"
  /\ NewsInv
  /\ ~ClientRuns /\ ws = "connected" => auth # "ok"
  /\ out \in GoodNews \/ wsPc \in {"greet", "tell", "views", "clear"}
       => LinkUp \/ cut
  /\ wsPc = "greetAbort" => cut

\* The instances it is about: the UI task keeps up and the setup screen is not
\* opened.
PlainSession == Prompt /\ "setup" \notin Taps

LEMMA NewsMonotone ==
  ASSUME NEW q, NEW up, NEW up2, NewsHolds(q, up), up => up2
  PROVE  NewsHolds(q, up2)
BY DEF NewsHolds

\* A step that leaves the queue alone.
LEMMA NewsKept ==
  ASSUME NewsInv, queue' = queue, Online' => Online, UpOrLosing => UpOrLosing',
         Between' => Between
  PROVE  NewsInv'
<1>1. NewsHolds(queue, UpOrLosing')
  BY NewsMonotone DEF NewsInv
<1> QED BY <1>1 DEF NewsInv

\* A step that posts.
LEMMA NewsPosted ==
  ASSUME NewsInv, queue \in Seq(EventTypes), NEW evt \in EventTypes,
         queue' = Append(queue, evt), Online' => Online,
         UpOrLosing => UpOrLosing' \/ evt = "DISCONNECTED",
         evt \in GoodNews => UpOrLosing',
         Between' => evt = "DISCONNECTED"
  PROVE  NewsInv'
<1>1. CASE evt = "DISCONNECTED"
  <2>1. NewsHolds(queue', FALSE) /\ LossIn(queue', 0)
    BY <1>1, NewsLossAppended
  <2> QED BY <2>1, NewsMonotone DEF NewsInv
<1>2. CASE evt # "DISCONNECTED"
  <2>1. NewsHolds(queue, UpOrLosing')
    BY <1>2, NewsMonotone DEF NewsInv
  <2>2. NewsHolds(queue', UpOrLosing')
    BY <2>1, NewsAppend
  <2>3. LossIn(queue, 0) => LossIn(queue', 0)
    BY LossInAppend
  <2> QED BY <1>2, <2>2, <2>3 DEF NewsInv
<1> QED BY <1>1, <1>2

\* A step of the UI task that takes the event at the head.
LEMMA NewsTaken ==
  ASSUME NewsInv, queue \in Seq(EventTypes), queue # <<>>,
         queue' = Tail(queue),
         UNCHANGED <<haPc, ws, auth, out, wsPc, cut>>,
         Online' => \/ Head(queue) \in GoodNews
                    \/ Online /\ Head(queue) # "DISCONNECTED"
  PROVE  NewsInv'
<1>1. UpOrLosing' = UpOrLosing /\ Between' = Between
  BY DEF UpOrLosing, LinkUp, Between
<1>3. Between => NewsHolds(Tail(queue), FALSE)
  BY NewsTail DEF NewsInv
<1>2. /\ NewsHolds(Tail(queue), UpOrLosing)
      /\ Head(queue) \in GoodNews => UpOrLosing \/ LossIn(Tail(queue), 0)
      /\ Head(queue) # "DISCONNECTED" /\ LossIn(queue, 0)
            => LossIn(Tail(queue), 0)
  BY NewsTail DEF NewsInv
<1> QED BY <1>1, <1>2, <1>3 DEF NewsInv

\* A step of the UI task whose write fails: its own two events are the loss.
LEMMA NewsOfFailure ==
  ASSUME PlainSession, NEW q \in Seq(EventTypes), SendFails(q)
  PROVE  NewsInv' /\ queue' \in Seq(EventTypes)
<1>1. Len(q) \in Nat /\ QueueCap \in Nat /\ Len(q) + 2 <= QueueCap
  BY SessionAssumption DEF SendFails, PlainSession
<1> DEFINE q1 == Append(q, "DISCONNECTED")
<1>2. q1 \in Seq(EventTypes) /\ Len(q1) = Len(q) + 1
  BY DEF EventTypes
<1>3. queue' = Append(q1, "DISCONNECTED")
  BY <1>1, <1>2 DEF SendFails, PostOrDrop, Room
<1>4. /\ queue' \in Seq(EventTypes) /\ LossIn(queue', 0)
      /\ NewsHolds(queue', FALSE)
  BY <1>2, <1>3, NewsLossAppended
<1> QED BY <1>4, NewsMonotone DEF NewsInv

LEMMA OnlineInvInductive ==
  ASSUME PlainSession
  PROVE  TypeOK /\ SessionInv /\ OnlineInv /\ [Next]_vars => OnlineInv'
<1> SUFFICES ASSUME TypeOK, SessionInv, OnlineInv, [Next]_vars
             PROVE  OnlineInv'
  OBVIOUS
<1> USE DEF haVars, sockVars, wsVars, slotVars, dataVars, nvsVars, uiVars,
            envVars
<1>q. queue \in Seq(EventTypes) /\ "DISCONNECTED" \in EventTypes
  BY DEF TypeOK, EventTypes
<1>n. NewsInv
  BY DEF OnlineInv
<1>i. /\ screen # "setup"
      /\ ~ClientRuns /\ ws = "connected" => auth # "ok"
      /\ out \in GoodNews \/ wsPc \in {"greet", "tell", "views", "clear"}
           => LinkUp \/ cut
      /\ wsPc = "greetAbort" => cut
  BY DEF OnlineInv
<1>w. ws = "unknown" => WsIdle
  BY DEF SessionInv
<1>b. Between => ws = "unknown" /\ WsIdle
  BY DEF Between, SessionInv
\* The steps of the UI task and of the surroundings leave the websocket task
\* alone, but for a failing write, which needs it to be idle.
<1>u. ASSUME NewsInv', screen' # "setup",
             UNCHANGED <<haPc, sockVars, wsVars, cut>>
      PROVE  OnlineInv'
  BY <1>i, <1>u DEF OnlineInv, ClientRuns, LinkUp
<1>f. ASSUME NEW q \in Seq(EventTypes), SendFails(q), screen' # "setup",
             UNCHANGED <<haPc, wsVars>>
      PROVE  OnlineInv'
  <2>1. NewsInv'
    BY <1>f, NewsOfFailure
  <2>2. ws' = "wait_timeout" /\ auth' = None /\ WsIdle'
    BY <1>f DEF SendFails, WsBusy, WsIdle
  <2> QED BY <1>f, <1>i, <2>1, <2>2
          DEF OnlineInv, WsIdle, GoodNews, None
<1>1. CASE HaTask
  <2>1. CASE WifiTimeout
    <3>1. queue' = Append(queue, "DISCONNECTED")
      BY <2>1 DEF WifiTimeout, Post, PlainSession
    <3>2. NewsInv'
      BY <1>n, <1>q, <2>1, <3>1, NewsPosted
      DEF WifiTimeout, Online, UpOrLosing, LinkUp, GoodNews
    <3> QED BY <1>i, <2>1, <3>2
            DEF WifiTimeout, OnlineInv, ClientRuns, LinkUp
  <2>2. CASE HaConnect
    <3>1. ws = "unknown" /\ WsIdle
      BY <1>w, <2>2 DEF HaConnect, SessionInv
    <3>2. NewsHolds(queue, FALSE) /\ queue' = queue
      BY <1>n, <2>2 DEF HaConnect, NewsInv, Between
    <3>3. ~Online' /\ ~Between'
      BY <2>2 DEF HaConnect, Online, Between
    <3>4. NewsInv'
      BY <3>2, <3>3, NewsMonotone DEF NewsInv
    <3> QED BY <1>i, <2>2, <3>1, <3>4
            DEF HaConnect, OnlineInv, ClientRuns, WsIdle, GoodNews, None
  <2>3. CASE StopClient /\ ws # "connected"
    <3>1. NewsInv'
      BY <1>n, <2>3, NewsKept
      DEF StopClient, Online, UpOrLosing, LinkUp, Between
    <3> QED BY <1>i, <2>3, <3>1
            DEF StopClient, OnlineInv, ClientRuns, LinkUp
  <2>4. CASE WifiAttempt \/ WifiJoined \/ WifiRetry \/ SeesConnected
              \/ DestroyClient \/ BackoffOver
    <3>2. ASSUME ~BackoffOver PROVE NewsInv'
      BY <1>n, <2>4, <3>2, NewsKept
      DEF WifiAttempt, WifiJoined, WifiRetry, SeesConnected, DestroyClient,
          Online, UpOrLosing, LinkUp, Between
    \* The backoff has drained the queue.
    <3>3. ASSUME BackoffOver PROVE NewsInv'
      <4>1. queue = <<>> /\ queue' = queue
        BY <3>3 DEF BackoffOver, PlainSession
      <4>2. NewsHolds(queue, FALSE)
        BY <4>1 DEF NewsHolds
      <4>3. Online' = Online /\ UpOrLosing' = UpOrLosing
        BY <3>3 DEF BackoffOver, Online, UpOrLosing, LinkUp
      <4> QED BY <1>n, <4>1, <4>2, <4>3 DEF NewsInv
    <3>1. NewsInv'
      BY <3>2, <3>3
    <3> QED BY <1>i, <2>4, <3>1
            DEF WifiAttempt, WifiJoined, WifiRetry, SeesConnected,
                DestroyClient, BackoffOver, OnlineInv, ClientRuns, LinkUp
  <2> QED BY <1>1, <2>1, <2>2, <2>3, <2>4
          DEF HaTask, HaWifi, HaLoop, AwaitTimeout, SeesLost
<1>2. CASE WsTask
  <2>1. CASE WsPost
    <3>1. out \in EventTypes /\ queue' = Append(queue, out)
      BY <2>1 DEF WsPost, Post, PlainSession, TypeOK
    <3>3. ~Between'
      BY <1>b, <2>1 DEF WsPost, WsIdle, Between
    <3>2. NewsInv'
      BY <1>i, <1>n, <1>q, <2>1, <3>1, <3>3, NewsPosted
      DEF WsPost, Online, UpOrLosing, LinkUp
    <3> QED BY <1>i, <2>1, <3>2
            DEF WsPost, OnlineInv, ClientRuns, LinkUp, GoodNews, None
  <2>2. CASE WsConnectOk
    <3>1. WsIdle /\ (UpOrLosing => cut)
      BY <2>2 DEF WsConnectOk, UpOrLosing, LinkUp, WsIdle, None
    <3>2. NewsInv'
      BY <1>n, <2>2, <3>1, NewsKept DEF WsConnectOk, Online, UpOrLosing, Between
    <3> QED BY <1>i, <2>2, <3>1, <3>2
            DEF WsConnectOk, OnlineInv, WsIdle, GoodNews, None
  <2>3. CASE WsFails \/ WsAbort
    <3>1. NewsInv'
      BY <1>n, <2>3, NewsKept DEF WsFails, WsAbort, Online, UpOrLosing, Between
    <3> QED BY <1>i, <2>3, <3>1
            DEF WsFails, WsAbort, WsIdle, OnlineInv, ClientRuns, LinkUp,
                GoodNews, None
  <2>4. CASE WsGiveUp \/ WsExit
    <3>1. WsIdle /\ (UpOrLosing => cut)
      BY <1>i, <2>4 DEF WsGiveUp, WsExit, UpOrLosing, LinkUp, WsIdle, None
    <3>2. NewsInv'
      BY <1>n, <2>4, <3>1, NewsKept
      DEF WsGiveUp, WsExit, Online, UpOrLosing, Between
    <3> QED BY <1>i, <2>4, <3>1, <3>2
            DEF WsGiveUp, WsExit, OnlineInv, WsIdle, GoodNews, None
  <2>5. CASE WsAuthRequired \/ WsAuthOk \/ WsAuthInvalid
    <3>1. NewsInv'
      BY <1>n, <2>5, NewsKept
      DEF WsAuthRequired, WsAuthOk, WsAuthInvalid, WsReceives, WsIdle, Online,
          UpOrLosing, LinkUp, Between, None
    <3> QED BY <1>i, <2>5, <3>1
            DEF WsAuthRequired, WsAuthOk, WsAuthInvalid, WsReceives, WsIdle,
                OnlineInv, LinkUp, ClientRuns, GoodNews, None
  <2>10. CASE WsGreet \/ WsTellConnected
    <3>1. NewsInv'
      BY <1>n, <2>10, NewsKept
      DEF WsGreet, WsTellConnected, Online, UpOrLosing, LinkUp, Between, None
    <3> QED BY <1>i, <2>10, <3>1
            DEF WsGreet, WsTellConnected, OnlineInv, LinkUp, ClientRuns,
                GoodNews, None
  <2>6. CASE WsLovelaceAnswer
    <3>1. LinkUp /\ UNCHANGED <<ws, auth, haPc>>
      BY <2>6 DEF WsLovelaceAnswer, WsReceives, LinkUp
    <3>2. NewsInv'
      BY <1>n, <2>6, <3>1, NewsKept
      DEF WsLovelaceAnswer, Online, UpOrLosing, LinkUp, Between
    <3> QED BY <1>i, <2>6, <3>1, <3>2
            DEF WsLovelaceAnswer, OnlineInv, LinkUp, ClientRuns
  <2>7. CASE WsAfterViews \/ WsClearSlot
    <3>1. (LinkUp \/ cut) /\ UNCHANGED <<ws, auth, haPc, cut>>
      BY <1>i, <2>7 DEF WsAfterViews, WsClearSlot
    <3>2. NewsInv'
      BY <1>n, <2>7, <3>1, NewsKept
      DEF WsAfterViews, WsClearSlot, Online, UpOrLosing, LinkUp, Between
    <3> QED BY <1>i, <2>7, <3>1, <3>2
            DEF WsAfterViews, WsClearSlot, OnlineInv, LinkUp, ClientRuns
  <2>8. CASE WsStateChanged
    <3>3. ~Between'
      BY <1>b, <2>8 DEF WsStateChanged, WsReceives, Between
    <3>1. CASE queue' = queue
      <4>1. NewsInv'
        BY <1>n, <2>8, <3>1, <3>3, NewsKept
        DEF WsStateChanged, Online, UpOrLosing, LinkUp
      <4> QED BY <1>i, <1>u, <2>8, <4>1 DEF WsStateChanged
    <3>2. CASE queue' = Append(queue, "STATE_CHANGED")
      <4>1. "STATE_CHANGED" \in EventTypes /\ "STATE_CHANGED" \notin GoodNews
        BY DEF EventTypes, GoodNews
      <4>2. NewsInv'
        BY <1>n, <1>q, <2>8, <3>2, <3>3, <4>1, NewsPosted
        DEF WsStateChanged, Online, UpOrLosing, LinkUp
      <4> QED BY <1>i, <1>u, <2>8, <4>2 DEF WsStateChanged
    <3> QED BY <2>8, <3>1, <3>2 DEF WsStateChanged, PostOrDrop
  <2>9. CASE WsCloseRefused \/ WsCloseShutdown
    <3>1. WsCloses /\ WsIdle
      BY <2>9 DEF WsCloseRefused, WsCloseShutdown, WsCloses
    \* A session HA has refused was not up; any other is cut from now on.
    <3>2. UpOrLosing => cut'
      BY <3>1 DEF WsCloses, UpOrLosing, LinkUp, WsIdle, None
    <3>3. NewsInv'
      BY <1>n, <3>1, <3>2, NewsKept DEF WsCloses, Online, UpOrLosing, Between
    <3> QED BY <1>i, <3>1, <3>3
            DEF WsCloses, OnlineInv, WsIdle, GoodNews, None
  <2> QED BY <1>2, <2>1, <2>2, <2>3, <2>4, <2>5, <2>6, <2>7, <2>8, <2>9,
             <2>10
          DEF WsTask, WsProgress
<1>3. CASE HandleEvent
  <2> SUFFICES ASSUME queue # <<>> PROVE OnlineInv'
    BY <1>3 DEF HandleEvent, HandleConnected, HandleDisconnected,
            HandleAuthFailed, HandleRedraw, HandleEntitiesLoaded, HeadIs
  <2>t. Tail(queue) \in Seq(EventTypes)
    BY <1>q
  <2>1. CASE HandleConnected \/ HandleEntitiesLoaded
    <3>1. Head(queue) \in GoodNews
      BY <2>1 DEF HandleConnected, HandleEntitiesLoaded, HeadIs, GoodNews
    <3>2. screen' # "setup" /\ UNCHANGED <<haPc, wsVars, cut>>
      BY <1>i, <2>1 DEF HandleConnected, HandleEntitiesLoaded
    <3>3. CASE queue' = Tail(queue) /\ UNCHANGED sockVars
      <4>1. NewsInv'
        BY <1>n, <1>q, <3>1, <3>2, <3>3, NewsTaken
      <4> QED BY <1>i, <1>u, <3>2, <3>3, <4>1
    <3>4. CASE SendFails(Tail(queue))
      BY <1>f, <2>t, <3>2, <3>4
    <3> QED BY <2>1, <1>i, <3>3, <3>4
            DEF HandleConnected, HandleEntitiesLoaded, Request, Send, SetupOpen
  <2>2. CASE HandleDisconnected \/ HandleAuthFailed
    <3>1. /\ ~Online' /\ queue' = Tail(queue) /\ screen' # "setup"
          /\ UNCHANGED <<haPc, sockVars, wsVars, cut>>
      BY <1>i, <2>2 DEF HandleDisconnected, HandleAuthFailed, ToldOfLoss,
                        Online, SetupOpen
    <3>2. NewsInv'
      BY <1>n, <1>q, <3>1, NewsTaken
    <3> QED BY <1>i, <1>u, <3>1, <3>2
  <2>3. CASE HandleRedraw
    <3>1. /\ Head(queue) # "DISCONNECTED" /\ queue' = Tail(queue)
          /\ Online' = Online /\ screen' # "setup"
          /\ UNCHANGED <<haPc, sockVars, wsVars, cut>>
      BY <1>i, <2>3 DEF HandleRedraw, HeadIs, Online
    <3>2. NewsInv'
      BY <1>n, <1>q, <3>1, NewsTaken
    <3> QED BY <1>i, <1>u, <3>1, <3>2
  <2> QED BY <1>3, <2>1, <2>2, <2>3 DEF HandleEvent
<1>4. CASE Tap
  <2>k. ASSUME queue' = queue, Online' => Online, screen' # "setup",
               UNCHANGED <<haPc, sockVars, wsVars, cut>>
        PROVE  OnlineInv'
    <3>1. NewsInv'
      BY <1>n, <2>k, NewsKept DEF UpOrLosing, LinkUp, Between
    <3> QED BY <1>i, <1>u, <2>k, <3>1
  <2>1. CASE MenuSelect \/ MenuRefresh \/ SettingsRefresh
    <3>1. screen' # "setup" /\ Online' = Online
          /\ UNCHANGED <<haPc, wsVars, cut>>
      BY <1>i, <2>1 DEF MenuSelect, MenuRefresh, SettingsRefresh, Ask, Online
    <3> QED BY <1>f, <1>q, <2>1, <2>k, <3>1
            DEF MenuSelect, MenuRefresh, SettingsRefresh, Ask, Request
  <2>2. CASE StatusViews
    <3>1. screen' # "setup" /\ Online' = Online
          /\ UNCHANGED <<haPc, wsVars, cut>>
      BY <2>2 DEF StatusViews, Online
    <3> QED BY <1>f, <1>q, <2>2, <2>k, <3>1 DEF StatusViews, Request
  <2>3. CASE EntityCommand
    <3>1. screen' # "setup" /\ Online' = Online
          /\ UNCHANGED <<haPc, wsVars, cut>>
      BY <1>i, <2>3 DEF EntityCommand, Online
    <3> QED BY <1>f, <1>q, <2>3, <2>k, <3>1 DEF EntityCommand, Send
  <2>4. CASE EntitiesMenu \/ EntitiesInfo \/ StatusBack \/ SettingsBack
    BY <2>4, <2>k DEF EntitiesMenu, EntitiesInfo, StatusBack, SettingsBack,
                      Show, Online
  <2>5. CASE SettingsToggle
    BY <1>i, <2>5, <2>k DEF SettingsToggle, Online
  <2>6. ~OpenSetup /\ ~SetupExit /\ ~WizardConnect
    BY <1>i DEF OpenSetup, SetupExit, WizardConnect, SetupOpen, PlainSession
  <2> QED BY <1>4, <2>1, <2>2, <2>3, <2>4, <2>5, <2>6 DEF Tap
<1>5. CASE Surroundings \/ UNCHANGED vars
  <2>2. NewsInv'
    BY <1>5, <1>n, NewsKept
    DEF Surroundings, vars, Online, UpOrLosing, LinkUp, Between
  <2> QED BY <1>5, <1>i, <1>u, <2>2 DEF Surroundings, HaChanges, vars
<1> QED BY <1>1, <1>2, <1>3, <1>4, <1>5 DEF Next

\* In a plain session the status page says "Verbonden" only while the session
\* is authenticated, with the DISCONNECTED event on its way to the UI task, or
\* in a session that the server closed or whose link broke between auth_ok and
\* CONNECTED: no other interleaving of the three tasks loses the news of a
\* connection that is gone.
THEOREM OnlineIsCorrect ==
  ASSUME PlainSession
  PROVE  Spec => []OnlineIsTrue
<1>1. Init => SessionInv
  BY Zenon DEF Init, SessionInv, WsIdle
<1>2. Init => OnlineInv
  BY DEF Init, OnlineInv, NewsInv, NewsHolds, Online, HaStates, PlainSession,
         GoodNews, None, ClientRuns
<1>3. OnlineInv => OnlineIsTrue
  BY DEF OnlineInv, NewsInv, OnlineIsTrue, UpOrLosing, LossComing, LossIn
<1> QED BY <1>1, <1>2, <1>3, TypeCorrect, SessionInvInductive,
           OnlineInvInductive, PTL DEF Spec
=============================================================================
