----------------------- MODULE ClientLifetime_proofs -----------------------
(***************************************************************************)
(* Proofs about ClientLifetime, for every number of clients: who is where  *)
(* when the client is freed, and that the library implements the states    *)
(* HaSession relies on.                                                    *)
(***************************************************************************)
EXTENDS ClientLifetime, TLAPS

\* Where a task is with client->lock in its hands.
WsLocked == {"step", "error", "abort", "dispatch", "give"}
UiLocked == {"checked", "write", "error", "abort", "tell", "give"}

\* Where the websocket task can no longer call a handler of the firmware,
\* provided that the connection is over.
Silent == {"none", "give", "select", "test", "closed", "close", "bit", "last"}
Over   == ~run /\ wsPc \in Silent /\ sock \notin {"init", "connected"}

\* The lock is held by whom it names.
LockInv ==
  /\ uiPc \in UiLocked <=> lock = "ui"
  /\ wsPc \in WsLocked <=> lock = "ws"

\* The stages of a client: its task begins before anybody leaves the first
\* wait, a stop waits for the task, and what is destroyed is over.
StageInv ==
  /\ sClient <=> haPc \notin {"connect", "backoff"}
  /\ alive <=> haPc \notin {"clear", "backoff", "connect"}
  /\ haPc = "connect" => wsPc = "none" /\ uiPc = "idle"
  /\ wsPc \in {"created", "setup"} =>
       /\ haPc = "await" /\ sock = "unknown"
       /\ uiPc \notin {"write", "error", "abort", "tell"}
  /\ wsPc = "setup" => run
  /\ uiPc \in {"write", "error", "abort"} => sock \notin {"init", "closing"}
  /\ wsPc \in {"error", "abort"} => sock \in {"init", "connected"}
  /\ wsPc \in {"selectError", "selectAbort"} => sock \in {"connected", "wait_timeout"}
  /\ wsPc \in {"dispatch", "selectTell"} => sock \in {"connected", "wait_timeout"}
  /\ wsPc = "closed" => sock = "closing"
  /\ wsPc \in {"closed", "close", "bit", "last"} => ~run
  /\ stopped => wsPc \in {"last", "none"}
  /\ haPc = "stopState" => wsPc \in {"last", "none"}
  /\ haPc \in {"stopWait", "stopState"} => ~run
  /\ haPc \in {"destroy", "free", "clear", "backoff", "connect"} => Over
  /\ haPc \in {"await", "poll", "stop", "stopSet"} /\ ~run /\ wsPc # "created" => Over

LifeInv == TypeOK /\ LockInv /\ StageInv

\* The types, with the Boolean variables on their own.
Flags ==
  /\ sClient \in BOOLEAN /\ alive \in BOOLEAN
  /\ run \in BOOLEAN /\ stopped \in BOOLEAN /\ closeSent \in BOOLEAN
  /\ told \in BOOLEAN /\ wasUp \in BOOLEAN /\ closed \in BOOLEAN /\ cut \in BOOLEAN
Places ==
  /\ made \in 0..MaxClients
  /\ sock \in {"unknown", "init", "connected", "wait_timeout", "closing"}
  /\ lock \in {None, "ws", "ui"}
  /\ haPc \in HaPcs /\ wsPc \in WsPcs /\ uiPc \in UiPcs
  /\ event \in {None, "CONNECTED", "DATA", "DISCONNECTED"}
  /\ reading \in {"data", "nothing"}
  /\ usedBy \subseteq {"ws", "ui"}

LEMMA TypesSplit == TypeOK <=> Flags /\ Places
BY DEF TypeOK, Flags, Places

\* Whoever uses the client, of the two tasks it is one.
LEMMA TouchType ==
  ASSUME usedBy \subseteq {"ws", "ui"}, NEW t \in {"ws", "ui"}, Touch(t)
  PROVE  usedBy' \subseteq {"ws", "ui"}
BY Zenon DEF Touch

----------------------------------------------------------------------------
(* The invariant                                                           *)

LEMMA LifeInitial == Init => LifeInv
<1> SUFFICES ASSUME Init PROVE LifeInv
  OBVIOUS
<1>1. Flags
  BY Zenon DEF Init, Flags
<1>2. Places
  BY LifetimeAssumption DEF Init, Places, HaPcs, WsPcs, UiPcs, None
<1>3. TypeOK
  BY <1>1, <1>2, TypesSplit
<1>4. LockInv /\ StageInv
  BY <1>3 DEF Init, TypeOK, LockInv, StageInv, Over, Silent, WsLocked, UiLocked, None
<1> QED BY <1>3, <1>4 DEF LifeInv

\* Each step leaves the flags Boolean.
LEMMA FlagsInductive == Flags /\ [Next]_vars => Flags'
<1> SUFFICES ASSUME Flags, [Next]_vars PROVE Flags'
  OBVIOUS
<1> USE DEF Flags, shared, history, wsLocal, haSide, uiSide, Touch,
        Aborted, WsGo, UiGo, None
<1>1. CASE HaTask
  <2>1. CASE Connect
    BY <2>1, Zenon DEF Connect
  <2>2. CASE SeesConnected
    BY <2>2, Zenon DEF SeesConnected
  <2>3. CASE LeavesLoop
    BY <2>3, Zenon DEF LeavesLoop
  <2>4. CASE Stop
    BY <2>4, Zenon DEF Stop
  <2>5. CASE StopSet
    BY <2>5, Zenon DEF StopSet
  <2>6. CASE StopWait
    BY <2>6, Zenon DEF StopWait
  <2>7. CASE StopState
    BY <2>7, Zenon DEF StopState
  <2>8. CASE Destroy
    BY <2>8, Zenon DEF Destroy
  <2>9. CASE Free
    BY <2>9, Zenon DEF Free
  <2>10. CASE ClearClient
    BY <2>10, Zenon DEF ClearClient
  <2>11. CASE BackoffOver
    BY <2>11, Zenon DEF BackoffOver
  <2> QED BY <1>1, <2>1, <2>2, <2>3, <2>4, <2>5, <2>6, <2>7, <2>8, <2>9, <2>10, <2>11 DEF HaTask
<1>2. CASE WsTask
  <2>1. CASE WsBegin
    BY <2>1, Zenon DEF WsBegin
  <2>2. CASE WsSetup
    BY <2>2, Zenon DEF WsSetup
  <2>3. CASE WsTestRun
    BY <2>3, Zenon DEF WsTestRun
  <2>4. CASE WsTakeLock
    BY <2>4, Zenon DEF WsTakeLock
  <2>5. CASE WsConnects
    BY <2>5, Zenon DEF WsConnects
  <2>6. CASE WsServes
    BY <2>6, Zenon DEF WsServes
  <2>7. CASE WsGivesUp
    BY <2>7, Zenon DEF WsGivesUp
  <2>8. CASE WsEchoesClose
    BY <2>8, Zenon DEF WsEchoesClose
  <2>9. CASE WsError
    BY <2>9, Zenon DEF WsError
  <2>10. CASE WsAbort
    BY <2>10, Zenon DEF WsAbort
  <2>11. CASE WsDispatch
    BY <2>11, Zenon DEF WsDispatch
  <2>12. CASE WsGiveLock
    BY <2>12, Zenon DEF WsGiveLock
  <2>13. CASE WsSelect
    BY <2>13, Zenon DEF WsSelect
  <2>14. CASE WsClosed
    BY <2>14, Zenon DEF WsClosed
  <2>15. CASE WsCloseTransport
    BY <2>15, Zenon DEF WsCloseTransport
  <2>16. CASE WsSetStopped
    BY <2>16, Zenon DEF WsSetStopped
  <2>17. CASE WsEnds
    BY <2>17, Zenon DEF WsEnds
  <2> QED BY <1>2, <2>1, <2>2, <2>3, <2>4, <2>5, <2>6, <2>7, <2>8, <2>9, <2>10, <2>11,
         <2>12, <2>13, <2>14, <2>15, <2>16, <2>17 DEF WsTask
<1>3. CASE UiTask
  <2>1. CASE UiTests
    BY <2>1, Zenon DEF UiTests
  <2>2. CASE UiTakesLock
    BY <2>2, Zenon DEF UiTakesLock
  <2>3. CASE UiChecks
    BY <2>3, Zenon DEF UiChecks
  <2>4. CASE UiWrites
    BY <2>4, Zenon DEF UiWrites
  <2>5. CASE UiError
    BY <2>5, Zenon DEF UiError
  <2>6. CASE UiAbort
    BY <2>6, Zenon DEF UiAbort
  <2>7. CASE UiTells
    BY <2>7, Zenon DEF UiTells
  <2>8. CASE UiGivesLock
    BY <2>8, Zenon DEF UiGivesLock
  <2> QED BY <1>3, <2>1, <2>2, <2>3, <2>4, <2>5, <2>6, <2>7, <2>8 DEF UiTask
<1>4. CASE UNCHANGED vars
  BY <1>4 DEF vars
<1> QED BY <1>1, <1>2, <1>3, <1>4 DEF Next

\* Each step keeps the other types.
LEMMA PlacesInductive == Flags /\ Places /\ [Next]_vars => Places'
<1> SUFFICES ASSUME Flags /\ Places, [Next]_vars PROVE Places'
  OBVIOUS
<1> USE LifetimeAssumption
    DEF Flags, Places, HaPcs, WsPcs, UiPcs, shared, history, wsLocal, haSide, uiSide,
        Aborted, WsGo, UiGo, None
<1>1. CASE HaTask
  <2>1. CASE Connect
    BY <2>1, TouchType DEF Connect
  <2>2. CASE SeesConnected
    BY <2>2, TouchType DEF SeesConnected
  <2>3. CASE LeavesLoop
    BY <2>3, TouchType DEF LeavesLoop
  <2>4. CASE Stop
    BY <2>4, TouchType DEF Stop
  <2>5. CASE StopSet
    BY <2>5, TouchType DEF StopSet
  <2>6. CASE StopWait
    BY <2>6, TouchType DEF StopWait
  <2>7. CASE StopState
    BY <2>7, TouchType DEF StopState
  <2>8. CASE Destroy
    BY <2>8, TouchType DEF Destroy
  <2>9. CASE Free
    BY <2>9, TouchType DEF Free
  <2>10. CASE ClearClient
    BY <2>10, TouchType DEF ClearClient
  <2>11. CASE BackoffOver
    BY <2>11, TouchType DEF BackoffOver
  <2> QED BY <1>1, <2>1, <2>2, <2>3, <2>4, <2>5, <2>6, <2>7, <2>8, <2>9, <2>10, <2>11 DEF HaTask
<1>2. CASE WsTask
  <2>1. CASE WsBegin
    BY <2>1, TouchType DEF WsBegin
  <2>2. CASE WsSetup
    BY <2>2, TouchType DEF WsSetup
  <2>3. CASE WsTestRun
    BY <2>3, TouchType DEF WsTestRun
  <2>4. CASE WsTakeLock
    BY <2>4, TouchType DEF WsTakeLock
  <2>5. CASE WsConnects
    BY <2>5, TouchType DEF WsConnects
  <2>6. CASE WsServes
    BY <2>6, TouchType DEF WsServes
  <2>7. CASE WsGivesUp
    BY <2>7, TouchType DEF WsGivesUp
  <2>8. CASE WsEchoesClose
    BY <2>8, TouchType DEF WsEchoesClose
  <2>9. CASE WsError
    BY <2>9, TouchType DEF WsError
  <2>10. CASE WsAbort
    BY <2>10, TouchType DEF WsAbort
  <2>11. CASE WsDispatch
    BY <2>11, TouchType DEF WsDispatch
  <2>12. CASE WsGiveLock
    BY <2>12, TouchType DEF WsGiveLock
  <2>13. CASE WsSelect
    BY <2>13, TouchType DEF WsSelect
  <2>14. CASE WsClosed
    BY <2>14, TouchType DEF WsClosed
  <2>15. CASE WsCloseTransport
    BY <2>15, TouchType DEF WsCloseTransport
  <2>16. CASE WsSetStopped
    BY <2>16, TouchType DEF WsSetStopped
  <2>17. CASE WsEnds
    BY <2>17, TouchType DEF WsEnds
  <2> QED BY <1>2, <2>1, <2>2, <2>3, <2>4, <2>5, <2>6, <2>7, <2>8, <2>9, <2>10, <2>11,
         <2>12, <2>13, <2>14, <2>15, <2>16, <2>17 DEF WsTask
<1>3. CASE UiTask
  <2>1. CASE UiTests
    BY <2>1, TouchType DEF UiTests
  <2>2. CASE UiTakesLock
    BY <2>2, TouchType DEF UiTakesLock
  <2>3. CASE UiChecks
    BY <2>3, TouchType DEF UiChecks
  <2>4. CASE UiWrites
    BY <2>4, TouchType DEF UiWrites
  <2>5. CASE UiError
    BY <2>5, TouchType DEF UiError
  <2>6. CASE UiAbort
    BY <2>6, TouchType DEF UiAbort
  <2>7. CASE UiTells
    BY <2>7, TouchType DEF UiTells
  <2>8. CASE UiGivesLock
    BY <2>8, TouchType DEF UiGivesLock
  <2> QED BY <1>3, <2>1, <2>2, <2>3, <2>4, <2>5, <2>6, <2>7, <2>8 DEF UiTask
<1>4. CASE UNCHANGED vars
  BY <1>4 DEF vars
<1> QED BY <1>1, <1>2, <1>3, <1>4 DEF Next

\* Each step keeps the lock with whom it names.
LEMMA LockInductive == LockInv /\ StageInv /\ [Next]_vars => LockInv'
<1> SUFFICES ASSUME LockInv /\ StageInv, [Next]_vars PROVE LockInv'
  OBVIOUS
<1> USE DEF LockInv, StageInv, WsLocked, UiLocked, shared, history, wsLocal, haSide, uiSide, Touch,
        Aborted, WsGo, UiGo, None
<1>1. CASE HaTask
  <2>1. CASE Connect
    BY <2>1 DEF Connect
  <2>2. CASE SeesConnected
    BY <2>2 DEF SeesConnected
  <2>3. CASE LeavesLoop
    BY <2>3 DEF LeavesLoop
  <2>4. CASE Stop
    BY <2>4 DEF Stop
  <2>5. CASE StopSet
    BY <2>5 DEF StopSet
  <2>6. CASE StopWait
    BY <2>6 DEF StopWait
  <2>7. CASE StopState
    BY <2>7 DEF StopState
  <2>8. CASE Destroy
    BY <2>8 DEF Destroy
  <2>9. CASE Free
    BY <2>9 DEF Free
  <2>10. CASE ClearClient
    BY <2>10 DEF ClearClient
  <2>11. CASE BackoffOver
    BY <2>11 DEF BackoffOver
  <2> QED BY <1>1, <2>1, <2>2, <2>3, <2>4, <2>5, <2>6, <2>7, <2>8, <2>9, <2>10, <2>11 DEF HaTask
<1>2. CASE WsTask
  <2>1. CASE WsBegin
    BY <2>1 DEF WsBegin
  <2>2. CASE WsSetup
    BY <2>2 DEF WsSetup
  <2>3. CASE WsTestRun
    BY <2>3 DEF WsTestRun
  <2>4. CASE WsTakeLock
    BY <2>4 DEF WsTakeLock
  <2>5. CASE WsConnects
    BY <2>5 DEF WsConnects
  <2>6. CASE WsServes
    BY <2>6 DEF WsServes
  <2>7. CASE WsGivesUp
    BY <2>7 DEF WsGivesUp
  <2>8. CASE WsEchoesClose
    BY <2>8 DEF WsEchoesClose
  <2>9. CASE WsError
    BY <2>9 DEF WsError
  <2>10. CASE WsAbort
    BY <2>10 DEF WsAbort
  <2>11. CASE WsDispatch
    BY <2>11 DEF WsDispatch
  <2>12. CASE WsGiveLock
    BY <2>12 DEF WsGiveLock
  <2>13. CASE WsSelect
    BY <2>13 DEF WsSelect
  <2>14. CASE WsClosed
    BY <2>14 DEF WsClosed
  <2>15. CASE WsCloseTransport
    BY <2>15 DEF WsCloseTransport
  <2>16. CASE WsSetStopped
    BY <2>16 DEF WsSetStopped
  <2>17. CASE WsEnds
    BY <2>17 DEF WsEnds
  <2> QED BY <1>2, <2>1, <2>2, <2>3, <2>4, <2>5, <2>6, <2>7, <2>8, <2>9, <2>10, <2>11,
         <2>12, <2>13, <2>14, <2>15, <2>16, <2>17 DEF WsTask
<1>3. CASE UiTask
  <2>1. CASE UiTests
    BY <2>1 DEF UiTests
  <2>2. CASE UiTakesLock
    BY <2>2 DEF UiTakesLock
  <2>3. CASE UiChecks
    BY <2>3 DEF UiChecks
  <2>4. CASE UiWrites
    BY <2>4 DEF UiWrites
  <2>5. CASE UiError
    BY <2>5 DEF UiError
  <2>6. CASE UiAbort
    BY <2>6 DEF UiAbort
  <2>7. CASE UiTells
    BY <2>7 DEF UiTells
  <2>8. CASE UiGivesLock
    BY <2>8 DEF UiGivesLock
  <2> QED BY <1>3, <2>1, <2>2, <2>3, <2>4, <2>5, <2>6, <2>7, <2>8 DEF UiTask
<1>4. CASE UNCHANGED vars
  BY <1>4 DEF vars
<1> QED BY <1>1, <1>2, <1>3, <1>4 DEF Next

\* Each step keeps the stages.
LEMMA StageInductive == TypeOK /\ LockInv /\ StageInv /\ [Next]_vars => StageInv'
<1> SUFFICES ASSUME TypeOK, LockInv, StageInv, [Next]_vars PROVE StageInv'
  OBVIOUS
<1> USE DEF TypeOK, LockInv, StageInv, Over, Silent, WsLocked, UiLocked,
        HaPcs, WsPcs, UiPcs, shared, history, wsLocal, haSide, uiSide, Touch,
        Aborted, WsGo, UiGo, None
<1>1. CASE HaTask
  <2>1. CASE Connect
    BY <2>1 DEF Connect
  <2>2. CASE SeesConnected
    BY <2>2 DEF SeesConnected
  <2>3. CASE LeavesLoop
    BY <2>3 DEF LeavesLoop
  <2>4. CASE Stop
    BY <2>4 DEF Stop
  <2>5. CASE StopSet
    BY <2>5 DEF StopSet
  <2>6. CASE StopWait
    BY <2>6 DEF StopWait
  <2>7. CASE StopState
    BY <2>7 DEF StopState
  <2>8. CASE Destroy
    BY <2>8 DEF Destroy
  <2>9. CASE Free
    BY <2>9 DEF Free
  <2>10. CASE ClearClient
    BY <2>10 DEF ClearClient
  <2>11. CASE BackoffOver
    BY <2>11 DEF BackoffOver
  <2> QED BY <1>1, <2>1, <2>2, <2>3, <2>4, <2>5, <2>6, <2>7, <2>8, <2>9, <2>10, <2>11 DEF HaTask
<1>2. CASE WsTask
  <2>1. CASE WsBegin
    BY <2>1 DEF WsBegin
  <2>2. CASE WsSetup
    BY <2>2 DEF WsSetup
  <2>3. CASE WsTestRun
    BY <2>3 DEF WsTestRun
  <2>4. CASE WsTakeLock
    BY <2>4 DEF WsTakeLock
  <2>5. CASE WsConnects
    BY <2>5 DEF WsConnects
  <2>6. CASE WsServes
    BY <2>6 DEF WsServes
  <2>7. CASE WsGivesUp
    BY <2>7 DEF WsGivesUp
  <2>8. CASE WsEchoesClose
    BY <2>8 DEF WsEchoesClose
  <2>9. CASE WsError
    BY <2>9 DEF WsError
  <2>10. CASE WsAbort
    BY <2>10 DEF WsAbort
  <2>11. CASE WsDispatch
    BY <2>11 DEF WsDispatch
  <2>12. CASE WsGiveLock
    BY <2>12 DEF WsGiveLock
  <2>13. CASE WsSelect
    BY <2>13 DEF WsSelect
  <2>14. CASE WsClosed
    BY <2>14 DEF WsClosed
  <2>15. CASE WsCloseTransport
    BY <2>15 DEF WsCloseTransport
  <2>16. CASE WsSetStopped
    BY <2>16 DEF WsSetStopped
  <2>17. CASE WsEnds
    BY <2>17 DEF WsEnds
  <2> QED BY <1>2, <2>1, <2>2, <2>3, <2>4, <2>5, <2>6, <2>7, <2>8, <2>9, <2>10, <2>11,
         <2>12, <2>13, <2>14, <2>15, <2>16, <2>17 DEF WsTask
<1>3. CASE UiTask
  <2>1. CASE UiTests
    BY <2>1 DEF UiTests
  <2>2. CASE UiTakesLock
    BY <2>2 DEF UiTakesLock
  <2>3. CASE UiChecks
    BY <2>3 DEF UiChecks
  <2>4. CASE UiWrites
    BY <2>4 DEF UiWrites
  <2>5. CASE UiError
    BY <2>5 DEF UiError
  <2>6. CASE UiAbort
    BY <2>6 DEF UiAbort
  <2>7. CASE UiTells
    BY <2>7 DEF UiTells
  <2>8. CASE UiGivesLock
    BY <2>8 DEF UiGivesLock
  <2> QED BY <1>3, <2>1, <2>2, <2>3, <2>4, <2>5, <2>6, <2>7, <2>8 DEF UiTask
<1>4. CASE UNCHANGED vars
  BY <1>4 DEF vars
<1> QED BY <1>1, <1>2, <1>3, <1>4 DEF Next

LEMMA LifeInductive == LifeInv /\ [Next]_vars => LifeInv'
<1> SUFFICES ASSUME LifeInv, [Next]_vars PROVE LifeInv'
  OBVIOUS
<1>1. Flags /\ Places
  BY TypesSplit DEF LifeInv
<1>2. Flags' /\ Places'
  BY <1>1, FlagsInductive, PlacesInductive
<1>3. TypeOK'
  BY <1>2 DEF TypeOK, Flags, Places
<1>4. LockInv' /\ StageInv'
  BY LockInductive, StageInductive DEF LifeInv
<1> QED BY <1>3, <1>4 DEF LifeInv

\* The variables of a client stay well-typed, and no state is left that the
\* library does not handle (esp_websocket_client.c:1000-1023), for every
\* number of clients.
THEOREM LifeTypes == Spec => []TypeOK
<1>1. LifeInv => TypeOK
  BY DEF LifeInv
<1> QED BY <1>1, LifeInitial, LifeInductive, PTL DEF Spec

\* Once esp_websocket_client_destroy has freed a client its task may still
\* use it, but calls no handler of the firmware any more: no event of an old
\* session arrives in a later one, whatever the number of clients.
THEOREM NothingAfterFree == Spec => []SilentAfterFree
<1>1. LifeInv => SilentAfterFree
  BY DEF LifeInv, TypeOK, HaPcs, StageInv, SilentAfterFree, Over, Silent
<1> QED BY <1>1, LifeInitial, LifeInductive, PTL DEF Spec

----------------------------------------------------------------------------
(* No loss in silence                                                      *)

\* A connection that was up is up, or its end is known or about to be told.
LossInv ==
  /\ wasUp => \/ told \/ closed \/ cut
              \/ sock = "connected"
              \/ wsPc \in {"dispatch", "selectTell"} /\ event = "DISCONNECTED"
              \/ uiPc = "tell"
  /\ ~run /\ sock = "connected" /\ wsPc # "created" => cut
  /\ cut => haPc \in {"stopWait", "stopState", "destroy", "free", "clear",
                      "backoff", "connect"}

\* Each step keeps account of the loss.
LEMMA LossInductive == LifeInv /\ LossInv /\ [Next]_vars => LossInv'
<1> SUFFICES ASSUME LifeInv /\ LossInv, [Next]_vars PROVE LossInv'
  OBVIOUS
<1> USE DEF LifeInv, TypeOK, LockInv, StageInv, Over, Silent, WsLocked,
        UiLocked, HaPcs, WsPcs, UiPcs, LossInv,
        shared, history, wsLocal, haSide, uiSide, Touch,
        Aborted, WsGo, UiGo, None
<1>1. CASE HaTask
  <2>1. CASE Connect
    BY <2>1 DEF Connect
  <2>2. CASE SeesConnected
    BY <2>2 DEF SeesConnected
  <2>3. CASE LeavesLoop
    BY <2>3 DEF LeavesLoop
  <2>4. CASE Stop
    BY <2>4 DEF Stop
  <2>5. CASE StopSet
    BY <2>5 DEF StopSet
  <2>6. CASE StopWait
    BY <2>6 DEF StopWait
  <2>7. CASE StopState
    BY <2>7 DEF StopState
  <2>8. CASE Destroy
    BY <2>8 DEF Destroy
  <2>9. CASE Free
    BY <2>9 DEF Free
  <2>10. CASE ClearClient
    BY <2>10 DEF ClearClient
  <2>11. CASE BackoffOver
    BY <2>11 DEF BackoffOver
  <2> QED BY <1>1, <2>1, <2>2, <2>3, <2>4, <2>5, <2>6, <2>7, <2>8, <2>9, <2>10, <2>11 DEF HaTask
<1>2. CASE WsTask
  <2>1. CASE WsBegin
    BY <2>1 DEF WsBegin
  <2>2. CASE WsSetup
    BY <2>2 DEF WsSetup
  <2>3. CASE WsTestRun
    BY <2>3 DEF WsTestRun
  <2>4. CASE WsTakeLock
    BY <2>4 DEF WsTakeLock
  <2>5. CASE WsConnects
    BY <2>5 DEF WsConnects
  <2>6. CASE WsServes
    BY <2>6 DEF WsServes
  <2>7. CASE WsGivesUp
    BY <2>7 DEF WsGivesUp
  <2>8. CASE WsEchoesClose
    BY <2>8 DEF WsEchoesClose
  <2>9. CASE WsError
    <3>1. told => told'
      BY <2>9, Zenon DEF WsError
    <3> QED BY <2>9, <3>1 DEF WsError
  <2>10. CASE WsAbort
    BY <2>10 DEF WsAbort
  <2>11. CASE WsDispatch
    BY <2>11 DEF WsDispatch
  <2>12. CASE WsGiveLock
    BY <2>12 DEF WsGiveLock
  <2>13. CASE WsSelect
    BY <2>13 DEF WsSelect
  <2>14. CASE WsClosed
    BY <2>14 DEF WsClosed
  <2>15. CASE WsCloseTransport
    BY <2>15 DEF WsCloseTransport
  <2>16. CASE WsSetStopped
    BY <2>16 DEF WsSetStopped
  <2>17. CASE WsEnds
    BY <2>17 DEF WsEnds
  <2> QED BY <1>2, <2>1, <2>2, <2>3, <2>4, <2>5, <2>6, <2>7, <2>8, <2>9, <2>10, <2>11,
         <2>12, <2>13, <2>14, <2>15, <2>16, <2>17 DEF WsTask
<1>3. CASE UiTask
  <2>1. CASE UiTests
    BY <2>1 DEF UiTests
  <2>2. CASE UiTakesLock
    BY <2>2 DEF UiTakesLock
  <2>3. CASE UiChecks
    BY <2>3 DEF UiChecks
  <2>4. CASE UiWrites
    BY <2>4 DEF UiWrites
  <2>5. CASE UiError
    BY <2>5 DEF UiError
  <2>6. CASE UiAbort
    BY <2>6 DEF UiAbort
  <2>7. CASE UiTells
    BY <2>7 DEF UiTells
  <2>8. CASE UiGivesLock
    BY <2>8 DEF UiGivesLock
  <2> QED BY <1>3, <2>1, <2>2, <2>3, <2>4, <2>5, <2>6, <2>7, <2>8 DEF UiTask
<1>4. CASE UNCHANGED vars
  BY <1>4 DEF vars
<1> QED BY <1>1, <1>2, <1>3, <1>4 DEF Next

\* A connection that was up never goes away unnoticed: when ha_client_run is
\* in its backoff and no send is under way, the handler was told, or the
\* server had closed it, or it came up as the attempt was given up.
THEOREM LossIsTold == Spec => []LossTold
<1>1. Init => LossInv
  BY Zenon DEF Init, LossInv
<1>2. LifeInv /\ LossInv => LossTold
  BY DEF LifeInv, TypeOK, StageInv, Over, Silent, LossInv, LossTold
<1> QED BY <1>1, <1>2, LifeInitial, LifeInductive, LossInductive, PTL DEF Spec

----------------------------------------------------------------------------
(* The library implements ClientStates                                     *)

\* The state of the client as ClientStates sees it.
SeenState ==
  IF wsPc \in {"created", "setup"} THEN "init"
  ELSE IF sock = "closing" \/ (sock = "wait_timeout" /\ ~run)
  THEN "unknown" ELSE sock

\* Every access is a step of the abstract client or none at all.
LEMMA StepOfStates ==
  LifeInv /\ [Next]_vars => [States!Next]_<<sClient, SeenState>>
<1> SUFFICES ASSUME LifeInv, [Next]_vars
             PROVE  [States!Next]_<<sClient, SeenState>>
  OBVIOUS
<1> DEFINE Goal == [States!Next]_<<sClient, SeenState>>
<1>h. ASSUME UNCHANGED sClient,
             \/ SeenState' = SeenState
             \/ sClient /\ SeenState \in {"init", "connected"} /\ SeenState' = "wait_timeout"
             \/ sClient /\ SeenState # "unknown" /\ SeenState' = "unknown"
      PROVE  Goal
  BY <1>h DEF States!Next, States!Break, States!End, SeenState
<1> USE DEF LifeInv, TypeOK, LockInv, StageInv, Over, Silent, WsLocked,
        UiLocked, HaPcs, WsPcs, UiPcs, SeenState,
        shared, history, wsLocal, haSide, uiSide, Touch,
        Aborted, WsGo, UiGo, None
<1>1. CASE HaTask
  <2>1. CASE Connect
    <3>1. ~sClient /\ SeenState' = "init"
      BY <2>1 DEF Connect
    <3>2. sClient' = TRUE
      BY <2>1, Zenon DEF Connect
    <3> HIDE DEF SeenState
    <3>3. States!Create
      BY <3>1, <3>2 DEF States!Create, SeenState
    <3> QED BY <3>3 DEF States!Next
  <2>2. CASE SeesConnected
    BY <1>h, <2>2 DEF SeesConnected
  <2>3. CASE LeavesLoop
    BY <1>h, <2>3 DEF LeavesLoop
  <2>4. CASE Stop
    BY <1>h, <2>4 DEF Stop
  <2>5. CASE StopSet
    BY <1>h, <2>5 DEF StopSet
  <2>6. CASE StopWait
    BY <1>h, <2>6 DEF StopWait
  <2>7. CASE StopState
    BY <1>h, <2>7 DEF StopState
  <2>8. CASE Destroy
    BY <1>h, <2>8 DEF Destroy
  <2>9. CASE Free
    BY <1>h, <2>9 DEF Free
  <2>10. CASE ClearClient
    <3>1. sClient /\ SeenState = "unknown" /\ SeenState' = SeenState
      BY <2>10 DEF ClearClient
    <3>2. sClient' = FALSE
      BY <2>10, Zenon DEF ClearClient
    <3>3. States!Destroy
      BY <3>1, <3>2 DEF States!Destroy
    <3> QED BY <3>3 DEF States!Next
  <2>11. CASE BackoffOver
    BY <1>h, <2>11 DEF BackoffOver
  <2> QED BY <1>1, <2>1, <2>2, <2>3, <2>4, <2>5, <2>6, <2>7, <2>8, <2>9, <2>10, <2>11 DEF HaTask
<1>2. CASE WsTask
  <2>1. CASE WsBegin
    BY <1>h, <2>1 DEF WsBegin
  <2>2. CASE WsSetup
    BY <1>h, <2>2 DEF WsSetup
  <2>3. CASE WsTestRun
    BY <1>h, <2>3 DEF WsTestRun
  <2>4. CASE WsTakeLock
    BY <1>h, <2>4 DEF WsTakeLock
  <2>5. CASE WsConnects
    <3>1. CASE WsGo("step", "error")
      BY <1>h, <2>5, <3>1 DEF WsConnects
    <3>2. CASE WsGo("step", "dispatch")
      <4>1. sClient /\ SeenState = "init" /\ SeenState' = "connected" /\ UNCHANGED sClient
        BY <2>5, <3>2 DEF WsConnects
      <4>2. States!Connect
        BY <4>1 DEF States!Connect
      <4> QED BY <4>2 DEF States!Next
    <3> QED BY <2>5, <3>1, <3>2 DEF WsConnects
  <2>6. CASE WsServes
    BY <1>h, <2>6 DEF WsServes
  <2>7. CASE WsGivesUp
    BY <1>h, <2>7 DEF WsGivesUp
  <2>8. CASE WsEchoesClose
    BY <1>h, <2>8 DEF WsEchoesClose
  <2>9. CASE WsError
    BY <1>h, <2>9 DEF WsError
  <2>10. CASE WsAbort
    BY <1>h, <2>10 DEF WsAbort
  <2>11. CASE WsDispatch
    BY <1>h, <2>11 DEF WsDispatch
  <2>12. CASE WsGiveLock
    BY <1>h, <2>12 DEF WsGiveLock
  <2>13. CASE WsSelect
    BY <1>h, <2>13 DEF WsSelect
  <2>14. CASE WsClosed
    BY <1>h, <2>14 DEF WsClosed
  <2>15. CASE WsCloseTransport
    BY <1>h, <2>15 DEF WsCloseTransport
  <2>16. CASE WsSetStopped
    BY <1>h, <2>16 DEF WsSetStopped
  <2>17. CASE WsEnds
    BY <1>h, <2>17 DEF WsEnds
  <2> QED BY <1>2, <2>1, <2>2, <2>3, <2>4, <2>5, <2>6, <2>7, <2>8, <2>9, <2>10, <2>11,
         <2>12, <2>13, <2>14, <2>15, <2>16, <2>17 DEF WsTask
<1>3. CASE UiTask
  <2>1. CASE UiTests
    BY <1>h, <2>1 DEF UiTests
  <2>2. CASE UiTakesLock
    BY <1>h, <2>2 DEF UiTakesLock
  <2>3. CASE UiChecks
    BY <1>h, <2>3 DEF UiChecks
  <2>4. CASE UiWrites
    BY <1>h, <2>4 DEF UiWrites
  <2>5. CASE UiError
    BY <1>h, <2>5 DEF UiError
  <2>6. CASE UiAbort
    BY <1>h, <2>6 DEF UiAbort
  <2>7. CASE UiTells
    BY <1>h, <2>7 DEF UiTells
  <2>8. CASE UiGivesLock
    BY <1>h, <2>8 DEF UiGivesLock
  <2> QED BY <1>3, <2>1, <2>2, <2>3, <2>4, <2>5, <2>6, <2>7, <2>8 DEF UiTask
<1>4. CASE UNCHANGED vars
  BY <1>h, <1>4 DEF vars
<1> QED BY <1>1, <1>2, <1>3, <1>4 DEF Next

\* The library, at the grain of single accesses and with every interleaving
\* of its task, ha_client_run and a sender, implements ClientStates, which
\* HaSession is shown to keep to as well.
THEOREM LibraryKeepsStates == Spec => KeepsStates
<1>1. Init => States!Init
  BY Zenon DEF Init, States!Init
<1>2. LifeInv /\ [Next]_vars => [States!Next]_(States!vars)
  BY StepOfStates DEF States!vars, SeenState
<1> QED BY <1>1, <1>2, LifeInitial, LifeInductive, PTL
        DEF Spec, KeepsStates, States!Spec
=============================================================================
