-------------------------- MODULE SetupWizard_proofs --------------------------
(***************************************************************************)
(* Proofs about SetupWizard, for every set of networks, passwords and      *)
(* forms, every number of polls and timers and every choice of faults.     *)
(***************************************************************************)
EXTENDS SetupWizard, TLAPS

----------------------------------------------------------------------------
(* The inductive invariant                                                 *)

\* The UI task is storing, or about to.
Storing == ui \in {"copy", "stop"} \cup Keys

\* Timers are never more than the bound, a handle names a live one, and the
\* ticks that pass the limit are paid with a timer each.
TimersInv ==
  /\ HandlesLive
  /\ conn.live + web.live <= MaxTimers
  /\ ticks <= ConnectTicks \/ ticks + conn.live <= ConnectTicks + MaxTimers

\* Who can store a configuration knows the network, or one is stored.
NetworkKnown ==
  /\ conn.live > 0 => sel # None
  /\ step = 2 \/ web.live > 0 \/ ui \in {"copy", "stop"}
       => sel # None \/ nvs.configured

\* A result that is announced is complete, and so is the copy of it.
ResultComplete ==
  /\ post.at = None <=> post.form = None
  /\ post.form # None => server
  /\ post.form # None => result.url # None
  /\ done \/ post.at = "done" => result.url # None /\ result.token # None
  /\ ui = "copy" => done
  /\ Storing => got.url # None
  /\ Storing /\ ui # "copy" => got.token # None

\* What is written before the key whose turn it is.
WrittenBefore ==
  /\ ui \in {"ssid", "pass"} => sel # None
  /\ ui \in {"pass", "url", "token", "configured"} => nvs.ssid # None
  /\ ui \in {"url", "token", "configured"} => nvs.pass # None
  /\ ui \in {"token", "configured"} => nvs.url # None
  /\ ui = "configured" => nvs.token # None

WizardInv == /\ TypeOK /\ TimersInv /\ NetworkKnown /\ ResultComplete
             /\ WrittenBefore /\ ConfiguredComplete

----------------------------------------------------------------------------
(* Types                                                                   *)

\* Whatever happens to a timer, it stays one; a live one can fire.
LEMMA TimerTypes ==
  ASSUME NEW t \in Timer, t.known => t.live > 0
  PROVE  /\ Created(t) \in Timer /\ Forgotten(t) \in Timer
         /\ Cancelled(t) \in Timer
         /\ t.live > 0 => Fired(t) \in Timer
<1>1. t.live \in Nat /\ t.live + 1 \in Nat /\ (t.live > 0 => t.live - 1 \in Nat)
  BY DEF Timer
<1>2. Created(t) \in Timer
  BY <1>1, Zenon DEF Timer, Created
<1>3. Forgotten(t) \in Timer
  BY Zenon DEF Timer, Forgotten
<1>4. t.live > 0 => Fired(t) \in Timer
  BY <1>1, Zenon DEF Timer, Fired
<1>5. Cancelled(t) \in Timer
  <2>1. CASE t.known
    BY <1>4, <2>1, Zenon DEF Cancelled, Fired
  <2>2. CASE ~t.known
    BY <2>2, Zenon DEF Cancelled
  <2> QED BY <2>1, <2>2
<1> QED BY <1>2, <1>3, <1>4, <1>5

LEMMA ServerTypes ==
  ASSUME TypeOK, StartServer
  PROVE  /\ server' \in BOOLEAN /\ done' \in BOOLEAN /\ result' \in Pair
         /\ post' \in Request
<1>1. CASE server
  BY <1>1 DEF StartServer, TypeOK, serverVars, Pair
<1>2. CASE ~server
  <2>1. server' \in BOOLEAN /\ done' \in BOOLEAN
    BY <1>2, Zenon DEF StartServer
  <2>2. result' \in Pair /\ post' \in Request
    BY <1>2 DEF StartServer, TypeOK, Pair
  <2> QED BY <2>1, <2>2
<1> QED BY <1>1, <1>2

LEMMA InitType == Init => TypeOK
<1> SUFFICES ASSUME Init PROVE TypeOK
  OBVIOUS
<1>1. nvs \in NvsContent
  <2>1. CASE nvs = Blank
    BY <2>1, Zenon DEF Blank, NvsContent
  <2>2. ASSUME NEW cred \in Works, NEW form \in Forms,
               nvs = Provisioned(cred, form)
        PROVE  nvs \in NvsContent
    <3>1. cred[1] \in Networks /\ cred[2] \in Passwords
      BY WizardAssumption
    <3> QED BY <2>2, <3>1, Zenon DEF Provisioned, NvsContent
  <2> QED BY <2>1, <2>2 DEF Init
<1>2. open \in BOOLEAN /\ scanning \in BOOLEAN
  <2>1. nvs.configured \in BOOLEAN
    BY <1>1, Zenon DEF NvsContent
  <2> QED BY <2>1, Zenon DEF Init
<1>3. haCred \in Credential /\ sta \in StaState
  BY <1>1 DEF Init, Credential, StaState, NvsContent
<1>4. haPc \in {"idle", "join", "wait", "done"}
  BY DEF Init, FirstHaPc
<1>5. ticks \in 0..(ConnectTicks + MaxTimers)
  BY WizardAssumption DEF Init
<1>6. conn \in Timer /\ web \in Timer
  BY Zenon DEF Init, NoTimer, Timer
<1>7. /\ got \in Pair /\ result \in Pair
      /\ post \in Request /\ scan \in {"none", "running", "done"}
  BY DEF Init, Pair, Request
<1>8. /\ canExit \in BOOLEAN /\ listed \in BOOLEAN /\ server \in BOOLEAN
      /\ done \in BOOLEAN
  BY Zenon DEF Init
<1>9. step \in 1..3 /\ sel \in Networks \cup {None} /\ pwd \in Passwords
  BY WizardAssumption DEF Init
<1> QED BY <1>1, <1>2, <1>3, <1>4, <1>5, <1>6, <1>7, <1>8, <1>9, Zenon
        DEF Init, TypeOK

\* What each action leaves alone.
USE DEF screenVars, scanVars, timerVars, saveVars, serverVars, haVars

LEMMA TapTypes == ASSUME TypeOK, TimersInv, Tap PROVE TypeOK'
<1> USE DEF TypeOK
<1>t. /\ Created(web) \in Timer /\ Forgotten(web) \in Timer
      /\ Cancelled(web) \in Timer /\ Created(conn) \in Timer
      /\ Forgotten(conn) \in Timer /\ Cancelled(conn) \in Timer
  BY TimerTypes DEF TimersInv, HandlesLive
<1>1. CASE OpenSetup
  <2>1. CASE nvs.configured /\ sta.link = "up"
    <3>1. /\ server' \in BOOLEAN /\ done' \in BOOLEAN /\ result' \in Pair
          /\ post' \in Request
      BY <1>1, <2>1, ServerTypes, Zenon DEF OpenSetup, CreateScreen
    <3>2. open' \in BOOLEAN /\ canExit' \in BOOLEAN /\ scanning' \in BOOLEAN
          /\ listed' \in BOOLEAN
      BY <1>1, <2>1, Zenon DEF OpenSetup, CreateScreen
    <3> QED BY <1>1, <1>t, <2>1, <3>1, <3>2, WizardAssumption
            DEF OpenSetup, CreateScreen
  <2>2. CASE ~(nvs.configured /\ sta.link = "up")
    <3>1. nvs.configured \in BOOLEAN
      BY Zenon DEF NvsContent
    <3>2. open' \in BOOLEAN /\ canExit' \in BOOLEAN /\ scanning' \in BOOLEAN
          /\ listed' \in BOOLEAN
      BY <1>1, <2>2, <3>1, Zenon DEF OpenSetup, CreateScreen
    <3> QED BY <1>1, <1>t, <2>2, <3>2, WizardAssumption
            DEF OpenSetup, CreateScreen
  <2> QED BY <2>1, <2>2
<1>2. CASE ExitSetup
  <2>1. scanning' \in BOOLEAN /\ server' \in BOOLEAN /\ open' \in BOOLEAN
    BY <1>2, Zenon DEF ExitSetup, StopServer
  <2> QED BY <1>2, <1>t, <2>1 DEF ExitSetup, StopServer
<1>s. ASSUME StartScan
      PROVE  /\ scanning' \in BOOLEAN /\ listed' \in BOOLEAN
             /\ scan' \in {"none", "running", "done"}
  <2>1. CASE scanning
    BY <1>s, <2>1 DEF StartScan
  <2>2. CASE ~scanning
    <3>1. scanning' \in BOOLEAN /\ listed' \in BOOLEAN
      BY <1>s, <2>2, Zenon DEF StartScan
    <3> QED BY <1>s, <2>2, <3>1 DEF StartScan
  <2> QED BY <2>1, <2>2
<1>3. CASE TapScan
  BY <1>3, <1>s DEF TapScan
<1>4. CASE TapWifiStep
  BY <1>4, <1>s DEF TapWifiStep
<1>5. CASE TapNetwork
  BY <1>5 DEF TapNetwork
<1>6. CASE TypePassword
  BY <1>6 DEF TypePassword
<1>7. CASE TapConnect
  <2>1. sta' \in StaState
    BY <1>7, WizardAssumption DEF TapConnect, Connect, StaState, Credential
  <2> QED BY <1>7, <1>t, <2>1, WizardAssumption DEF TapConnect
<1>8. CASE ManualSave
  <2>1. server' \in BOOLEAN
    BY <1>8, Zenon DEF ManualSave, StopServer
  <2>2. got' \in Pair
    BY <1>8 DEF ManualSave, Pair
  <2> QED BY <1>8, <1>t, <2>1, <2>2 DEF ManualSave, StopServer, FirstKey, Keys
<1> QED BY <1>1, <1>2, <1>3, <1>4, <1>5, <1>6, <1>7, <1>8 DEF Tap

LEMMA PollTypes == ASSUME TypeOK, TimersInv, Poll PROVE TypeOK'
<1> USE DEF TypeOK
<1>1. CASE ScanPoll
  <2>1. scanning' \in BOOLEAN /\ listed' \in BOOLEAN
    BY <1>1, Zenon DEF ScanPoll
  <2> QED BY <1>1, <2>1 DEF ScanPoll
<1>2. CASE ConnectPoll
  <2>1. Fired(conn) \in Timer /\ Created(web) \in Timer
    BY <1>2, TimerTypes DEF ConnectPoll, TimersInv, HandlesLive
  <2>2. ticks + 1 \in 0..(ConnectTicks + MaxTimers)
    BY <1>2, WizardAssumption DEF ConnectPoll, TimersInv, Timer
  <2>3. CASE sta.link = "up"
    <3>1. /\ server' \in BOOLEAN /\ done' \in BOOLEAN /\ result' \in Pair
          /\ post' \in Request
      BY <1>2, <2>3, ServerTypes, Zenon DEF ConnectPoll, WatchForm
    <3> QED BY <1>2, <2>1, <2>2, <2>3, <3>1 DEF ConnectPoll, WatchForm
  <2>4. CASE sta.link # "up"
    BY <1>2, <2>1, <2>2, <2>4 DEF ConnectPoll
  <2> QED BY <2>3, <2>4
<1>3. CASE WebPoll
  <2>1. Fired(web) \in Timer
    BY <1>3, TimerTypes DEF WebPoll, TimersInv, HandlesLive
  <2>2. got' \in Pair
    BY <1>3 DEF WebPoll, Pair
  <2> QED BY <1>3, <2>1, <2>2 DEF WebPoll
<1> QED BY <1>1, <1>2, <1>3 DEF Poll

\* Storing a key writes a value of its kind.
LEMMA StoreKeyWrites ==
  ASSUME TypeOK, StoreKey, ResultComplete, WrittenBefore
  PROVE  /\ nvs' \in NvsContent
         /\ ui' \in Keys \cup {"free"}
<1> USE DEF StoreKey, StoredValue, NextKey, TypeOK, NvsContent
<1>1. CASE ui = "ssid"
  BY <1>1 DEF Keys
<1>2. CASE ui = "pass"
  BY <1>2 DEF Keys
<1>3. CASE ui = "url"
  BY <1>3 DEF Keys, Pair
<1>4. CASE ui = "token"
  BY <1>4 DEF Keys, Pair
<1>5. CASE ui = "configured"
  BY <1>5 DEF Keys
<1> QED BY <1>1, <1>2, <1>3, <1>4, <1>5 DEF Keys

LEMMA StoreTypes ==
  ASSUME TypeOK, ResultComplete, WrittenBefore, Store
  PROVE  TypeOK'
<1> USE DEF TypeOK
<1>1. CASE CopyToken
  <2>1. got' \in Pair
    BY <1>1 DEF CopyToken, Pair
  <2> QED BY <1>1, <2>1 DEF CopyToken
<1>2. CASE StopAndStore
  <2>1. server' \in BOOLEAN
    BY <1>2, Zenon DEF StopAndStore, StopServer
  <2> QED BY <1>2, <2>1 DEF StopAndStore, StopServer, FirstKey, Keys
<1>3. CASE StoreKey
  BY <1>3, StoreKeyWrites DEF StoreKey
<1> QED BY <1>1, <1>2, <1>3 DEF Store

LEMMA OtherTypes == ASSUME TypeOK, HttpTask \/ HaTask \/ Station PROVE TypeOK'
<1> USE DEF TypeOK
<1>1. CASE HttpTask
  <2>1. ASSUME NEW form \in Forms, PostUrl(form)
        PROVE  result' \in Pair /\ post' \in Request /\ done' \in BOOLEAN
    BY <2>1 DEF PostUrl, Posting, Pair, Request
  <2>2. ASSUME PostToken
        PROVE  result' \in Pair /\ post' \in Request /\ done' \in BOOLEAN
    BY <2>2 DEF PostToken, Posting, Pair, Request
  <2>3. ASSUME PostDone
        PROVE  result' \in Pair /\ post' \in Request /\ done' \in BOOLEAN
    <3>1. done' \in BOOLEAN
      BY <2>3, Zenon DEF PostDone
    <3> QED BY <2>3, <3>1 DEF PostDone, Posting, Request
  <2> QED BY <1>1, <2>1, <2>2, <2>3 DEF HttpTask
<1>2. CASE HaTask
  <2>1. CASE HaJoins
    BY <2>1 DEF HaJoins, Connect, StaState
  <2>2. CASE HaWaited
    BY <2>2 DEF HaWaited
  <2> QED BY <1>2, <2>1, <2>2 DEF HaTask
<1>3. CASE Station
  <2>1. CASE ScanFinds
    BY <2>1 DEF ScanFinds
  <2>2. CASE StaJoins
    BY <2>2 DEF StaJoins, StaState
  <2>3. CASE StaFails
    BY <2>3 DEF StaFails, StaState
  <2> QED BY <1>3, <2>1, <2>2, <2>3 DEF Station
<1> QED BY <1>1, <1>2, <1>3

\* A restart begins where Init does, with what NVS holds.
LEMMA RestartTypes == ASSUME TypeOK, Restart PROVE TypeOK'
<1>1. nvs' = nvs /\ nvs \in NvsContent /\ nvs.configured \in BOOLEAN
  <2>1. nvs' = nvs /\ nvs \in NvsContent
    BY DEF Restart, TypeOK
  <2> QED BY <2>1, Zenon DEF NvsContent
<1>2. /\ open' \in BOOLEAN /\ scanning' \in BOOLEAN /\ canExit' \in BOOLEAN
      /\ listed' \in BOOLEAN /\ server' \in BOOLEAN /\ done' \in BOOLEAN
  BY <1>1, Zenon DEF Restart
<1>3. haCred' \in Credential /\ sta' \in StaState
  BY <1>1 DEF Restart, Credential, StaState, NvsContent
<1>4. haPc' \in {"idle", "join", "wait", "done"}
  BY DEF Restart, FirstHaPc
<1>5. ticks' \in 0..(ConnectTicks + MaxTimers)
  BY WizardAssumption DEF Restart
<1>6. conn' \in Timer /\ web' \in Timer
  BY Zenon DEF Restart, NoTimer, Timer
<1>7. /\ got' \in Pair /\ result' \in Pair
      /\ post' \in Request /\ scan' \in {"none", "running", "done"}
  BY DEF Restart, Pair, Request
<1>8. step' \in 1..3 /\ sel' \in Networks \cup {None} /\ pwd' \in Passwords
  BY WizardAssumption DEF Restart
<1>9. ui' \in Keys \cup {"free", "copy", "stop"}
  BY DEF Restart
<1> QED BY <1>1, <1>2, <1>3, <1>4, <1>5, <1>6, <1>7, <1>8, <1>9, Zenon
        DEF TypeOK

----------------------------------------------------------------------------
(* Timers                                                                  *)

LEMMA TimersStep ==
  ASSUME TypeOK, TimersInv, [Next]_vars
  PROVE  TimersInv'
<1> USE WizardAssumption DEF TypeOK, TimersInv, HandlesLive, Timer
<1>1. CASE OpenSetup
  BY <1>1 DEF OpenSetup, CreateScreen, Created, Forgotten
<1>2. CASE ExitSetup
  BY <1>2 DEF ExitSetup, Cancelled
<1>3. CASE TapConnect
  BY <1>3 DEF TapConnect, Created
<1>4. CASE ManualSave
  BY <1>4 DEF ManualSave, Cancelled
<1>5. CASE ConnectPoll
  <2>1. CASE sta.link = "up"
    BY <1>5, <2>1 DEF ConnectPoll, WatchForm, Fired, Created
  <2>2. CASE sta.link # "up" /\ ticks >= ConnectTicks
    BY <1>5, <2>2 DEF ConnectPoll, Fired
  <2>3. CASE sta.link # "up" /\ ticks < ConnectTicks
    BY <1>5, <2>3 DEF ConnectPoll
  <2> QED BY <2>1, <2>2, <2>3
<1>6. CASE WebPoll
  BY <1>6 DEF WebPoll, Fired
<1>7. CASE Restart
  BY <1>7 DEF Restart, NoTimer
<1>8. CASE TapScan \/ TapWifiStep \/ TapNetwork \/ TypePassword \/ ScanPoll
  BY <1>8 DEF TapScan, TapWifiStep, TapNetwork, TypePassword, ScanPoll
<1>9. CASE Store \/ HttpTask \/ HaTask \/ Station \/ UNCHANGED vars
  BY <1>9 DEF Store, CopyToken, StopAndStore, StoreKey, HttpTask, HaTask,
              HaJoins, HaWaited, Station, ScanFinds, StaJoins, StaFails, vars
<1> QED BY <1>1, <1>2, <1>3, <1>4, <1>5, <1>6, <1>7, <1>8, <1>9
        DEF Next, Tap, Poll

----------------------------------------------------------------------------
(* What is stored is complete                                              *)

\* The actions that touch neither a form nor NVS.
Aside == \/ TapScan \/ TapWifiStep \/ TypePassword \/ ScanPoll \/ HaTask
         \/ Station \/ UNCHANGED vars

LEMMA AsideChanges ==
  ASSUME Aside
  PROVE  /\ UNCHANGED <<nvs, ui, got, server, done, result, post, conn, web, sel>>
         /\ step' = step \/ (TapWifiStep /\ step' = 1)
BY DEF Aside, TapScan, TapWifiStep, TypePassword, ScanPoll, HaTask, HaJoins,
       HaWaited, Station, ScanFinds, StaJoins, StaFails, vars

LEMMA NetworkStep ==
  ASSUME TypeOK, TimersInv, NetworkKnown, [Next]_vars
  PROVE  NetworkKnown'
<1> USE DEF TypeOK, TimersInv, HandlesLive, NetworkKnown, Timer
<1>1. CASE OpenSetup
  <2>1. CASE nvs.configured /\ sta.link = "up"
    BY <1>1, <2>1 DEF OpenSetup, CreateScreen, Forgotten
  <2>2. CASE ~(nvs.configured /\ sta.link = "up")
    BY <1>1, <2>2 DEF OpenSetup, CreateScreen, Forgotten
  <2> QED BY <2>1, <2>2
<1>2. CASE ExitSetup
  BY <1>2 DEF ExitSetup, Cancelled
<1>3. CASE TapNetwork
  BY <1>3, WizardAssumption DEF TapNetwork
<1>4. CASE TapConnect
  BY <1>4 DEF TapConnect
<1>5. CASE ManualSave
  BY <1>5 DEF ManualSave, Cancelled, FirstKey
<1>6. CASE ConnectPoll
  BY <1>6 DEF ConnectPoll, WatchForm, Fired
<1>7. CASE WebPoll
  BY <1>7 DEF WebPoll, Fired
<1>8. CASE CopyToken \/ StopAndStore
  BY <1>8 DEF CopyToken, StopAndStore, FirstKey
<1>9. CASE StoreKey
  <2>1. nvs.configured => nvs'.configured
    BY <1>9 DEF StoreKey, NvsContent, Keys, StoredValue
  <2> QED BY <1>9, <2>1 DEF StoreKey, Keys, NextKey
<1>10. CASE HttpTask
  BY <1>10 DEF HttpTask
<1>11. CASE Restart
  BY <1>11 DEF Restart, NoTimer
<1>12. CASE Aside
  BY <1>12, AsideChanges
<1> QED BY <1>1, <1>2, <1>3, <1>4, <1>5, <1>6, <1>7, <1>8, <1>9, <1>10, <1>11,
           <1>12 DEF Next, Tap, Poll, Store, Aside

LEMMA ServerResult ==
  ASSUME StartServer, ResultComplete
  PROVE  /\ post' = post
         /\ \/ server' = server /\ done' = done /\ result' = result
            \/ ~done' /\ post.form = None
<1>1. CASE server
  BY <1>1 DEF StartServer, serverVars
<1>2. CASE ~server
  <2>1. post' = post /\ ~done'
    BY <1>2, Zenon DEF StartServer
  <2> QED BY <1>2, <2>1 DEF ResultComplete
<1> QED BY <1>1, <1>2

LEMMA ResultStep ==
  ASSUME TypeOK, TimersInv, ResultComplete, [Next]_vars
  PROVE  ResultComplete'
<1> USE WizardAssumption DEF TypeOK, ResultComplete, Storing, Pair, Request, None
<1>1. CASE OpenSetup
  <2>1. CASE nvs.configured /\ sta.link = "up"
    <3>1. ui' = "free" /\ ui = "free" /\ StartServer
      BY <1>1, <2>1 DEF OpenSetup, CreateScreen, UiFree
    <3> QED BY <3>1, ServerResult DEF Keys
  <2>2. CASE ~(nvs.configured /\ sta.link = "up")
    BY <1>1, <2>2 DEF OpenSetup, CreateScreen
  <2> QED BY <2>1, <2>2
<1>2. CASE ExitSetup
  BY <1>2 DEF ExitSetup, StopServer
<1>3. CASE TapNetwork
  BY <1>3 DEF TapNetwork
<1>4. CASE TapConnect
  BY <1>4 DEF TapConnect
<1>5. CASE ManualSave
  BY <1>5 DEF ManualSave, StopServer, FirstKey, Keys
<1>6. CASE ConnectPoll
  <2>1. CASE sta.link = "up"
    <3>1. ui' = "free" /\ ui = "free" /\ StartServer
      BY <1>6, <2>1 DEF ConnectPoll, WatchForm, UiFree
    <3> QED BY <3>1, ServerResult DEF Keys
  <2>2. CASE sta.link # "up"
    BY <1>6, <2>2 DEF ConnectPoll
  <2> QED BY <2>1, <2>2
<1>7. CASE WebPoll
  BY <1>7 DEF WebPoll, UiFree, Keys
<1>8. CASE CopyToken \/ StopAndStore
  BY <1>8 DEF CopyToken, StopAndStore, StopServer, FirstKey, Keys
<1>9. CASE StoreKey
  BY <1>9 DEF StoreKey, Keys, NextKey
<1>10. CASE HttpTask
  <2>1. ASSUME NEW form \in Forms, PostUrl(form)
        PROVE  ResultComplete'
    BY <1>10, <2>1 DEF HttpTask, PostUrl, Posting
  <2>2. CASE PostToken
    BY <1>10, <2>2 DEF HttpTask, PostToken, Posting
  <2>3. CASE PostDone
    BY <1>10, <2>3 DEF HttpTask, PostDone, Posting
  <2> QED BY <1>10, <2>1, <2>2, <2>3 DEF HttpTask
<1>11. CASE Restart
  <2>1. ~done'
    BY <1>11, Zenon DEF Restart
  <2>2. /\ ui' = "free" /\ post'.at = None /\ post'.form = None
    BY <1>11 DEF Restart
  <2> QED BY <2>1, <2>2 DEF Keys
<1>12. CASE Aside
  BY <1>12, AsideChanges
<1> QED BY <1>1, <1>2, <1>3, <1>4, <1>5, <1>6, <1>7, <1>8, <1>9, <1>10, <1>11,
           <1>12 DEF Next, Tap, Poll, Store, Aside

\* One key of the configuration after the other.
LEMMA StoreKeySteps ==
  ASSUME TypeOK, NetworkKnown, ResultComplete, WrittenBefore,
         ConfiguredComplete, StoreKey
  PROVE  WrittenBefore' /\ ConfiguredComplete'
<1> USE WizardAssumption
    DEF StoreKey, StoredValue, NextKey, TypeOK, NvsContent, WrittenBefore,
        ConfiguredComplete
<1>1. CASE ui = "ssid"
  BY <1>1
<1>2. CASE ui = "pass"
  BY <1>2
<1>3. CASE ui = "url"
  BY <1>3 DEF ResultComplete, Storing, Keys
<1>4. CASE ui = "token"
  BY <1>4 DEF ResultComplete, Storing, Keys
<1>5. CASE ui = "configured"
  BY <1>5
<1> QED BY <1>1, <1>2, <1>3, <1>4, <1>5 DEF Keys

LEMMA CompleteStep ==
  ASSUME WizardInv, [Next]_vars
  PROVE  WrittenBefore' /\ ConfiguredComplete'
<1> USE DEF WizardInv, WrittenBefore, ConfiguredComplete
<1>1. CASE OpenSetup \/ ExitSetup \/ TapConnect \/ ConnectPoll
  BY <1>1 DEF OpenSetup, ExitSetup, TapConnect, ConnectPoll, CreateScreen
<1>2. CASE TapNetwork
  BY <1>2, WizardAssumption DEF TapNetwork, UiFree
<1>3. CASE ManualSave \/ StopAndStore
  <2>1. nvs' = nvs /\ sel' = sel /\ ui' = FirstKey
    BY <1>3 DEF ManualSave, StopAndStore
  <2>2. sel # None \/ nvs.configured
    BY <1>3 DEF ManualSave, StopAndStore, NetworkKnown
  <2> QED BY <2>1, <2>2 DEF FirstKey
<1>4. CASE WebPoll \/ CopyToken \/ HttpTask
  BY <1>4 DEF WebPoll, CopyToken, HttpTask
<1>5. CASE StoreKey
  BY <1>5, StoreKeySteps
<1>6. CASE Restart
  BY <1>6 DEF Restart
<1>7. CASE Aside
  BY <1>7, AsideChanges
<1> QED BY <1>1, <1>2, <1>3, <1>4, <1>5, <1>6, <1>7
        DEF Next, Tap, Poll, Store, Aside

----------------------------------------------------------------------------
(* What is stored belongs together                                         *)

\* Nobody submits a form again or takes the power while one is stored.
Undisturbed == {"restart", "resubmit"} \cap Env = {}

\* The fields of a form keep together on their way: in the result once the
\* flag is set or about to be, in the copy once the token is there too, and
\* in NVS but between the writes of the two keys.
PairInv ==
  /\ post.at = "token" => ~done /\ result.url = post.form
  /\ post.at = "done" => ~done
  /\ done \/ post.at = "done" => result.url = result.token
  /\ ui = "copy" => got.url = result.url
  /\ Storing /\ ui # "copy" => got.url = got.token
  /\ IF ui = "token" THEN nvs.url = got.url ELSE nvs.url = nvs.token

LEMMA PairStep ==
  ASSUME Undisturbed, WizardInv, PairInv, [Next]_vars
  PROVE  PairInv'
<1> USE WizardAssumption
    DEF WizardInv, TypeOK, ResultComplete, PairInv, Storing, Pair, Request, None
<1>1. CASE OpenSetup
  <2>1. CASE nvs.configured /\ sta.link = "up"
    <3>1. /\ ui' = "free" /\ ui = "free" /\ nvs' = nvs /\ got' = got
          /\ StartServer
      BY <1>1, <2>1 DEF OpenSetup, CreateScreen, UiFree
    <3> QED BY <3>1, ServerResult DEF Keys
  <2>2. CASE ~(nvs.configured /\ sta.link = "up")
    BY <1>1, <2>2 DEF OpenSetup, CreateScreen
  <2> QED BY <2>1, <2>2
<1>2. CASE ExitSetup
  BY <1>2 DEF ExitSetup, StopServer
<1>3. CASE TapNetwork \/ TapConnect
  BY <1>3 DEF TapNetwork, TapConnect
<1>4. CASE ManualSave
  BY <1>4 DEF ManualSave, StopServer, FirstKey, Keys, UiFree
<1>5. CASE ConnectPoll
  <2>1. CASE sta.link = "up"
    <3>1. /\ ui' = "free" /\ ui = "free" /\ nvs' = nvs /\ got' = got
          /\ StartServer
      BY <1>5, <2>1 DEF ConnectPoll, WatchForm, UiFree
    <3> QED BY <3>1, ServerResult DEF Keys
  <2>2. CASE sta.link # "up"
    BY <1>5, <2>2 DEF ConnectPoll
  <2> QED BY <2>1, <2>2
<1>6. CASE WebPoll
  BY <1>6 DEF WebPoll, UiFree, Keys
<1>7. CASE CopyToken \/ StopAndStore
  BY <1>7 DEF CopyToken, StopAndStore, StopServer, FirstKey, Keys
<1>8. CASE StoreKey
  BY <1>8 DEF StoreKey, StoredValue, Keys, NextKey, NvsContent
<1>9. CASE HttpTask
  <2>1. ASSUME NEW form \in Forms, PostUrl(form)
        PROVE  PairInv'
    BY <1>9, <2>1 DEF HttpTask, PostUrl, Posting, Undisturbed
  <2>2. CASE PostToken
    BY <1>9, <2>2 DEF HttpTask, PostToken, Posting
  <2>3. CASE PostDone
    BY <1>9, <2>3 DEF HttpTask, PostDone, Posting
  <2> QED BY <1>9, <2>1, <2>2, <2>3 DEF HttpTask
<1>10. CASE Restart
  <2>1. ~done'
    BY <1>10, Zenon DEF Restart
  <2>2. /\ ui' = "free" /\ ui = "free" /\ nvs' = nvs
        /\ post'.at = None /\ post'.form = None
    BY <1>10 DEF Restart, TapDone, UiFree, Undisturbed
  <2> QED BY <2>1, <2>2 DEF Keys
<1>11. CASE Aside
  BY <1>11, AsideChanges
<1> QED BY <1>1, <1>2, <1>3, <1>4, <1>5, <1>6, <1>7, <1>8, <1>9, <1>10, <1>11
        DEF Next, Tap, Poll, Store, Aside

----------------------------------------------------------------------------
(* The theorems                                                            *)

LEMMA WizardInvInit == Init => WizardInv
<1> SUFFICES ASSUME Init PROVE WizardInv
  OBVIOUS
<1>1. TypeOK
  BY InitType
<1>2. TimersInv
  BY WizardAssumption DEF Init, TimersInv, HandlesLive, NoTimer
<1>3. NetworkKnown
  BY DEF Init, NetworkKnown, NoTimer
<1>4. ResultComplete /\ WrittenBefore
  <2>1. ~done
    BY Zenon DEF Init
  <2>2. ui = "free" /\ post.at = None /\ post.form = None
    BY DEF Init
  <2> QED BY <2>1, <2>2 DEF ResultComplete, WrittenBefore, Storing, Keys, None
<1>5. ConfiguredComplete
  <2>1. CASE nvs = Blank
    BY <2>1 DEF Blank, ConfiguredComplete
  <2>2. ASSUME NEW cred \in Works, NEW form \in Forms,
               nvs = Provisioned(cred, form)
        PROVE  ConfiguredComplete
    <3>1. cred[1] \in Networks /\ cred[2] \in Passwords
      BY WizardAssumption
    <3> QED BY <2>2, <3>1, WizardAssumption DEF Provisioned, ConfiguredComplete
  <2> QED BY <2>1, <2>2 DEF Init
<1> QED BY <1>1, <1>2, <1>3, <1>4, <1>5 DEF WizardInv

LEMMA WizardInvStep == WizardInv /\ [Next]_vars => WizardInv'
<1> SUFFICES ASSUME WizardInv, [Next]_vars PROVE WizardInv'
  OBVIOUS
<1>1. TypeOK'
  <2>1. CASE UNCHANGED vars
    BY <2>1 DEF WizardInv, TypeOK, vars
  <2> QED BY <2>1, TapTypes, PollTypes, StoreTypes, OtherTypes, RestartTypes
          DEF WizardInv, Next
<1>2. TimersInv' /\ NetworkKnown' /\ ResultComplete'
  BY TimersStep, NetworkStep, ResultStep DEF WizardInv
<1>3. WrittenBefore' /\ ConfiguredComplete'
  BY CompleteStep
<1> QED BY <1>1, <1>2, <1>3 DEF WizardInv

LEMMA WizardInvAlways == Spec => []WizardInv
BY WizardInvInit, WizardInvStep, PTL DEF Spec

\* The state of the wizard stays well-typed; the ticks shared by several
\* timers end within the limit and one tick for each of them.
THEOREM WizardTypes == Spec => []TypeOK
<1>1. WizardInv => TypeOK
  BY DEF WizardInv
<1> QED BY <1>1, WizardInvAlways, PTL

\* Whenever the power goes, however often the wizard is left, with timers
\* left over and forms submitted twice: a device that calls itself
\* configured has all four values stored.
THEOREM ConfiguredIsComplete == Spec => []ConfiguredComplete
<1>1. WizardInv => ConfiguredComplete
  BY DEF WizardInv
<1> QED BY <1>1, WizardInvAlways, PTL

\* No callback deletes a timer that is already gone.
THEOREM HandlesAreLive == Spec => []HandlesLive
<1>1. WizardInv => HandlesLive
  BY DEF WizardInv, TimersInv
<1> QED BY <1>1, WizardInvAlways, PTL

\* The address and the token in NVS come from one form, whatever timers are
\* left over and whenever the server writes the next result, as long as no
\* form is submitted twice and the power stays.
THEOREM StoredTogether ==
  ASSUME Undisturbed
  PROVE  Spec => []StoredAsFilledIn
<1>1. Init => PairInv
  <2> SUFFICES ASSUME Init PROVE PairInv
    OBVIOUS
  <2>1. ~done
    BY Zenon DEF Init
  <2>2. ui = "free" /\ post.at = None
    BY DEF Init
  <2>3. nvs.url = nvs.token
    BY DEF Init, Blank, Provisioned
  <2> QED BY <2>1, <2>2, <2>3 DEF PairInv, Storing, Keys, None
<1>2. WizardInv /\ PairInv /\ [Next]_vars => PairInv'
  BY PairStep
<1>3. PairInv => StoredAsFilledIn
  BY DEF PairInv, StoredAsFilledIn, UiFree
<1> QED BY <1>1, <1>2, <1>3, WizardInvAlways, PTL DEF Spec
=============================================================================
