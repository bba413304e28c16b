-------------------------- MODULE Keepalive_proofs --------------------------
(***************************************************************************)
(* For every choice of the times: a silent loss is noticed within LossMax, *)
(* and a peer that answers is never given up. The inductive invariant says *)
(* how far the time since the loss can be ahead of the ages the code keeps *)
(* (Dead), and that a wait for a PONG always has a PONG on its way (Alive).*)
(***************************************************************************)
EXTENDS Keepalive, TLAPS

\* The ages the task keeps, as far as the rounds of the loop have let them run.
Ages ==
  /\ pingAge <= PingInterval + 1 + roundAge
  /\ state = "connected" /\ waiting => pongAge <= PongTimeout + roundAge

\* What is unread on a dead link was received before it died.
Unread ==
  ~up => /\ pongIn => deadFor <= pongInAge
         /\ dataIn => deadFor <= dataAge

Dead ==
  state = "connected" /\ ~up =>
    /\ ~waiting => /\ deadFor <= ReadLag + pingAge
                   /\ deadFor <= ReadLag + PingInterval + roundAge
    /\ waiting => deadFor <= ReadLag + PingInterval + RoundMax + pongAge

Alive ==
  state = "connected" /\ up /\ waiting =>
    \/ owed /\ pongAge <= flight
    \/ pongIn /\ pongAge <= PeerDelay + pongInAge

KInv == TypeOK /\ Ages /\ Unread /\ Dead /\ Alive /\ AliveKept

Flags == /\ waiting \in BOOLEAN /\ up \in BOOLEAN /\ owed \in BOOLEAN
         /\ pongIn \in BOOLEAN /\ dataIn \in BOOLEAN

LEMMA KInvInit == Init => KInv
<1>1. Init => Flags
  BY Zenon DEF Init, Flags
<1>2. Init => TypeOK
  BY <1>1, KeepaliveAssumption DEF Init, TypeOK, Flags
<1>3. Init => Ages /\ Unread /\ Dead /\ Alive /\ AliveKept
  BY KeepaliveAssumption DEF Init, Ages, Unread, Dead, Alive, AliveKept
<1> QED BY <1>2, <1>3 DEF KInv

\* The flags of the client, the peer and the buffers stay flags.
LEMMA FlagsStay == TypeOK /\ [Next]_vars => Flags'
<1> SUFFICES ASSUME TypeOK, [Next]_vars PROVE Flags'
  OBVIOUS
<1>1. Flags
  BY DEF TypeOK, Flags
<1>2. ASSUME SendPing PROVE up' \in BOOLEAN /\ owed' \in BOOLEAN
                            /\ NowWaiting \in BOOLEAN
  BY <1>1, <1>2, Zenon DEF SendPing, linkVars, Flags, NowWaiting
<1>3. CASE ReportLoss
  BY <1>1, <1>2, <1>3, Zenon DEF ReportLoss, Flags, pongVars, dataVars
<1>4. CASE NothingRead
  BY <1>1, <1>2, <1>4, Zenon DEF NothingRead, Flags, pongVars, dataVars
<1>5. CASE ReadPong
  BY <1>1, <1>2, <1>5, Zenon DEF ReadPong, Flags, dataVars
<1>6. CASE ReadData
  BY <1>1, <1>2, <1>6, Zenon DEF ReadData, Flags, pongVars
<1>7. CASE PeerAnswers
  BY <1>1, <1>7, Zenon DEF PeerAnswers, Flags, taskVars, linkVars, dataVars
<1>8. CASE DataArrives
  BY <1>1, <1>8, Zenon
  DEF DataArrives, Flags, taskVars, linkVars, peerVars, pongVars
<1>9. CASE LinkDies
  BY <1>1, <1>9, Zenon
  DEF LinkDies, Flags, taskVars, peerVars, pongVars, dataVars
<1>10. CASE Tick
  BY <1>1, <1>10, Zenon DEF Tick, Flags
<1>11. CASE Reconnect
  BY <1>1, <1>11, Zenon DEF Reconnect, Flags
<1>12. CASE UNCHANGED vars
  BY <1>1, <1>12, Zenon
  DEF vars, Flags, taskVars, linkVars, peerVars, pongVars, dataVars
<1> QED BY <1>3, <1>4, <1>5, <1>6, <1>7, <1>8, <1>9, <1>10, <1>11, <1>12
        DEF Next, Iterate

\* A round of the loop, up to what it reads.
LEMMA RoundKeeps ==
  ASSUME KInv, SendPing
  PROVE  /\ roundAge' = 0 /\ pongAge' \in 0..(PongTimeout + RoundMax)
         /\ owed' \in BOOLEAN /\ flight' \in 0..PeerDelay
         /\ up' = up /\ deadFor' = deadFor
         /\ NowWaiting \in BOOLEAN
         /\ NowWaiting /\ ~PongMissing => pongAge' <= PongTimeout
         /\ ~up /\ NowWaiting =>
              deadFor <= ReadLag + PingInterval + RoundMax + pongAge'
         /\ ~up /\ ~NowWaiting => deadFor <= ReadLag + pingAge
         /\ ~NowWaiting => pingAge <= PingInterval
         /\ up /\ NowWaiting =>
              \/ owed' /\ pongAge' <= flight'
              \/ pongIn /\ pongAge' <= PeerDelay + pongInAge
<1> USE KeepaliveAssumption DEF KInv, SendPing, PingDue, NowWaiting, NowPongAge
<1>1. roundAge' = 0 /\ pongAge' \in 0..(PongTimeout + RoundMax)
  BY DEF TypeOK
<1>2. owed' \in BOOLEAN /\ flight' \in 0..PeerDelay
  <2>1. owed' \in BOOLEAN
    BY Zenon DEF TypeOK
  <2>2. flight' \in 0..PeerDelay
    BY DEF TypeOK
  <2> QED BY <2>1, <2>2
<1>3. up' = up /\ deadFor' = deadFor
  BY DEF linkVars
<1>4. NowWaiting \in BOOLEAN
  BY Zenon DEF TypeOK
<1>5. NowWaiting /\ ~PongMissing => pongAge' <= PongTimeout
  BY DEF TypeOK, PongMissing
<1>6. ~up /\ NowWaiting =>
        deadFor <= ReadLag + PingInterval + RoundMax + pongAge'
  BY DEF TypeOK, Dead
<1>7. ~up /\ ~NowWaiting => deadFor <= ReadLag + pingAge
  BY DEF Dead
<1>8. ~NowWaiting => pingAge <= PingInterval
  BY DEF TypeOK
<1>9. up /\ NowWaiting => \/ owed' /\ pongAge' <= flight'
                          \/ pongIn /\ pongAge' <= PeerDelay + pongInAge
  <2>1. (owed => owed') /\ (PingDue /\ up => owed')
    BY Zenon
  <2>2. CASE waiting
    BY <2>1, <2>2 DEF TypeOK, Alive
  <2>3. CASE ~waiting
    BY <2>1, <2>3 DEF TypeOK
  <2> QED BY <2>2, <2>3
<1> QED BY <1>1, <1>2, <1>3, <1>4, <1>5, <1>6, <1>7, <1>8, <1>9

LEMMA KInvInductive == KInv /\ [Next]_vars => KInv'
<1> SUFFICES ASSUME KInv, [Next]_vars PROVE KInv'
  OBVIOUS
<1> USE KeepaliveAssumption
<1>f. Flags'
  BY FlagsStay DEF KInv
<1>1. CASE ReportLoss
  <2>1. SendPing /\ PongMissing
    BY <1>1 DEF ReportLoss
  <2>2. PongMissing => NowWaiting /\ pongAge' > PongTimeout
    BY <2>1 DEF PongMissing, SendPing
  <2>3. ~up
    BY <2>1, <2>2, RoundKeeps DEF KInv, TypeOK
  <2> QED BY <1>1, <1>f, <2>1, <2>3, RoundKeeps
          DEF ReportLoss, KInv, TypeOK, Flags, Ages, Unread, Dead, Alive,
              AliveKept, pongVars, dataVars
<1>2. CASE NothingRead
  <2>1. SendPing /\ ~PongMissing
    BY <1>2 DEF NothingRead
  <2>2. TypeOK' /\ Ages'
    BY <1>2, <1>f, <2>1, RoundKeeps
    DEF NothingRead, KInv, TypeOK, Flags, Ages, PingDue, NowWaiting, pongVars,
        dataVars
  <2>3. Unread' /\ AliveKept'
    BY <1>2, <2>1, RoundKeeps
    DEF NothingRead, KInv, Unread, AliveKept, pongVars, dataVars
  <2>4. (waiting' <=> NowWaiting) /\ (PingDue => NowWaiting)
    BY <1>2, Zenon DEF NothingRead, NowWaiting
  <2>5. Dead'
    BY <1>2, <2>1, <2>4, RoundKeeps DEF NothingRead, KInv, TypeOK, Dead
  <2>6. Alive'
    BY <1>2, <2>1, <2>4, RoundKeeps DEF NothingRead, KInv, Alive, pongVars
  <2> QED BY <2>2, <2>3, <2>5, <2>6 DEF KInv
<1>3. CASE ReadPong
  <2>1. SendPing /\ ~PongMissing
    BY <1>3 DEF ReadPong
  <2>2. TypeOK' /\ Ages'
    BY <1>3, <1>f, <2>1, RoundKeeps
    DEF ReadPong, KInv, TypeOK, Flags, Ages, dataVars
  <2>3. Unread' /\ AliveKept' /\ Alive'
    BY <1>3, <2>1, RoundKeeps
    DEF ReadPong, KInv, Unread, AliveKept, Alive, dataVars
  <2>4. Dead'
    BY <1>3, <2>1, RoundKeeps DEF ReadPong, KInv, TypeOK, Unread, Dead
  <2> QED BY <2>2, <2>3, <2>4 DEF KInv
<1>4. CASE ReadData
  <2>1. SendPing /\ ~PongMissing
    BY <1>4 DEF ReadData
  <2>2. TypeOK' /\ Ages'
    BY <1>4, <1>f, <2>1, RoundKeeps
    DEF ReadData, KInv, TypeOK, Flags, Ages, pongVars
  <2>3. Unread' /\ AliveKept'
    BY <1>4, <2>1, RoundKeeps DEF ReadData, KInv, Unread, AliveKept, pongVars
  <2>4. Dead'
    BY <1>4, <2>1, RoundKeeps DEF ReadData, KInv, TypeOK, Unread, Dead
  <2>5. Alive'
    BY <1>4, <2>1, RoundKeeps DEF ReadData, KInv, Alive, pongVars
  <2> QED BY <2>2, <2>3, <2>4, <2>5 DEF KInv
<1>5. CASE PeerAnswers
  BY <1>5, <1>f DEF Flags, PeerAnswers, KInv, TypeOK, Ages, Unread, Dead, Alive, AliveKept,
              taskVars, linkVars, dataVars
<1>6. CASE DataArrives
  BY <1>6, <1>f DEF Flags, DataArrives, KInv, TypeOK, Ages, Unread, Dead, Alive, AliveKept,
              taskVars, linkVars, peerVars, pongVars
<1>7. CASE LinkDies
  BY <1>7, <1>f DEF Flags, LinkDies, KInv, TypeOK, Ages, Unread, Dead, Alive, AliveKept,
              taskVars, peerVars, pongVars, dataVars
<1>8. CASE Tick
  <2>1. TypeOK' /\ Ages'
    BY <1>8, <1>f DEF Tick, KInv, TypeOK, Flags, Ages
  <2>2. Unread' /\ AliveKept'
    BY <1>8 DEF Tick, KInv, TypeOK, Unread, AliveKept
  <2>3. Dead' /\ Alive'
    BY <1>8 DEF Tick, KInv, TypeOK, Dead, Alive
  <2> QED BY <2>1, <2>2, <2>3 DEF KInv
<1>9. CASE Reconnect
  BY <1>9, <1>f DEF Flags, Reconnect, KInv, TypeOK, Ages, Unread, Dead, Alive, AliveKept
<1>10. CASE UNCHANGED vars
  BY <1>10 DEF vars, taskVars, linkVars, peerVars, pongVars, dataVars, KInv,
               TypeOK, Ages, Unread, Dead, Alive, AliveKept
<1> QED BY <1>1, <1>2, <1>3, <1>4, <1>5, <1>6, <1>7, <1>8, <1>9, <1>10
        DEF Next, Iterate

LEMMA KInvAlways == Spec => []KInv
BY KInvInit, KInvInductive, PTL DEF Spec

\* The ages the task keeps stay within the bounds the loop gives them.
THEOREM AgesBounded == Spec => []TypeOK
BY KInvAlways, PTL DEF KInv

\* A connection whose link died silently is reported lost within LossMax
\* seconds, by esp_websocket_client_task's check of the PONG.
THEOREM LossIsNoticed == Spec => []LossNoticed
<1>1. KInv => LossNoticed
  BY KeepaliveAssumption
  DEF KInv, TypeOK, Ages, Dead, LossNoticed, LossMax
<1> QED BY <1>1, KInvAlways, PTL

\* The PONG check never ends a connection whose peer answers its PINGs.
THEOREM AliveIsKept == Spec => []AliveKept
BY KInvAlways, PTL DEF KInv
=============================================================================
