------------------------------ MODULE Keepalive ------------------------------
(***************************************************************************)
(* How the websocket task notices that an established connection has died  *)
(* silently (WiFi gone, host switched off): a PING when nothing was read   *)
(* for a while, and a time limit for the PONG. One step of Iterate is one  *)
(* round of the loop of esp_websocket_client_task in state CONNECTED; the  *)
(* tick fields of the client are kept as ages in seconds.                  *)
(***************************************************************************)
EXTENDS Integers

CONSTANTS
  PingInterval, \* ping_interval_sec (10)
  PongTimeout,  \* pingpong_timeout_sec (120)
  RoundMax,     \* longest time between two rounds of the loop
  ReadLag,      \* longest time a received frame waits for the task
  PeerDelay     \* longest time the PONG of a living peer is under way

ASSUME KeepaliveAssumption ==
  /\ PingInterval \in Nat /\ PongTimeout \in Nat /\ RoundMax \in Nat
  /\ ReadLag \in Nat /\ PeerDelay \in Nat
  /\ PeerDelay + ReadLag <= PongTimeout

VARIABLES
  state,     \* the client is connected, or has reported the connection lost
  pingAge,   \* since ping_tick_ms: the last PING or the last read
  waiting,   \* wait_for_pong_resp
  pongAge,   \* while waiting: since pingpong_tick_ms
  roundAge,  \* since the last round of the loop
  up,        \* the link still carries packets
  deadFor,   \* while not up: for how long
  owed,      \* the peer has yet to answer a PING
  flight,    \* while owed: since the oldest of these PINGs
  pongIn,    \* a PONG was received and not read
  pongInAge, \* while pongIn: since then
  dataIn,    \* other frames were received and not read
  dataAge    \* while dataIn: since then

taskVars == <<state, pingAge, waiting, pongAge>>
linkVars == <<up, deadFor>>
peerVars == <<owed, flight>>
pongVars == <<pongIn, pongInAge>>
dataVars == <<dataIn, dataAge>>
vars == <<taskVars, roundAge, linkVars, peerVars, pongVars, dataVars>>

----------------------------------------------------------------------------
(* One round of the loop                                                   *)

PingDue == pingAge > PingInterval

NowWaiting == waiting \/ PingDue

\* Mutant of NowPongAge: every PING restarts the wait.
NowPongAgeRestarted == IF PingDue THEN 0 ELSE pongAge

\* Mutant of NowPongAge: the time of the first PING is kept for good.
NowPongAgeKept == pongAge

\* pingpong_tick_ms is set only by the PING that starts the wait.
NowPongAge == IF PingDue /\ ~waiting THEN 0 ELSE pongAge

PongMissing == NowWaiting /\ NowPongAge > PongTimeout

\* The head of the round. A PING on a dead link is sent into the void.
SendPing ==
  /\ state = "connected"
  /\ owed' = (owed \/ (PingDue /\ up))
  /\ flight' = IF owed THEN flight ELSE 0
  /\ roundAge' = 0
  /\ pongAge' = NowPongAge
  /\ UNCHANGED linkVars

\* No PONG: esp_websocket_client_error and abort_connection.
ReportLoss ==
  /\ SendPing
  /\ PongMissing
  /\ state' = "lost"
  /\ pingAge' = 0
  /\ waiting' = NowWaiting
  /\ UNCHANGED <<pongVars, dataVars>>

\* Mutant of NothingRead: ping_tick_ms is not set when a PING is sent.
NothingReadKeepsTick ==
  /\ SendPing
  /\ ~PongMissing
  /\ pingAge' = pingAge
  /\ waiting' = NowWaiting
  /\ UNCHANGED <<state, pongVars, dataVars>>

\* read_select = 0, as the poll of the previous round found it.
NothingRead ==
  /\ SendPing
  /\ ~PongMissing
  /\ pingAge' = IF PingDue THEN 0 ELSE pingAge
  /\ waiting' = NowWaiting
  /\ UNCHANGED <<state, pongVars, dataVars>>

ReadPong ==
  /\ SendPing
  /\ ~PongMissing
  /\ pongIn
  /\ pingAge' = 0
  /\ waiting' = FALSE
  /\ pongIn' = FALSE
  /\ UNCHANGED <<state, pongInAge, dataVars>>

\* Any other frame; there may be more of them.
ReadData ==
  /\ SendPing
  /\ ~PongMissing
  /\ dataIn
  /\ pingAge' = 0
  /\ waiting' = NowWaiting
  /\ dataIn' \in BOOLEAN
  /\ UNCHANGED <<state, pongVars, dataAge>>

Iterate == ReportLoss \/ NothingRead \/ ReadPong \/ ReadData

----------------------------------------------------------------------------
(* The peer, the link and time                                             *)

\* The oldest PING is answered, and perhaps not yet a later one.
PeerAnswers ==
  /\ state = "connected" /\ up /\ owed
  /\ pongIn' = TRUE
  /\ pongInAge' = IF pongIn THEN pongInAge ELSE 0
  /\ owed' \in BOOLEAN
  /\ flight' \in 0..flight
  /\ UNCHANGED <<taskVars, roundAge, linkVars, dataVars>>

DataArrives ==
  /\ state = "connected" /\ up /\ ~dataIn
  /\ dataIn' = TRUE
  /\ dataAge' = 0
  /\ UNCHANGED <<taskVars, roundAge, linkVars, peerVars, pongVars>>

\* Nothing tells the socket; the loss is final for this connection.
LinkDies ==
  /\ state = "connected" /\ up
  /\ up' = FALSE
  /\ deadFor' = 0
  /\ UNCHANGED <<taskVars, roundAge, peerVars, pongVars, dataVars>>

\* A second passes. The task comes round within RoundMax, reads what it has
\* received within ReadLag, and a living peer answers within PeerDelay.
Tick ==
  /\ state = "connected"
  /\ roundAge < RoundMax
  /\ pongIn => pongInAge < ReadLag
  /\ dataIn => dataAge < ReadLag
  /\ up /\ owed => flight < PeerDelay
  /\ roundAge' = roundAge + 1
  /\ pingAge' = pingAge + 1
  /\ pongAge' = IF waiting THEN pongAge + 1 ELSE pongAge
  /\ deadFor' = IF up THEN deadFor ELSE deadFor + 1
  /\ flight' = IF up /\ owed THEN flight + 1 ELSE flight
  /\ pongInAge' = IF pongIn THEN pongInAge + 1 ELSE pongInAge
  /\ dataAge' = IF dataIn THEN dataAge + 1 ELSE dataAge
  /\ UNCHANGED <<state, waiting, up, owed, pongIn, dataIn>>

\* A new client is calloc'ed: its ping_tick_ms is 0, so that its first round
\* sends a PING.
Init ==
  /\ state = "connected"
  /\ pingAge = PingInterval + 1
  /\ waiting = FALSE /\ pongAge = 0 /\ roundAge = 0
  /\ up = TRUE /\ deadFor = 0
  /\ owed = FALSE /\ flight = 0
  /\ pongIn = FALSE /\ pongInAge = 0
  /\ dataIn = FALSE /\ dataAge = 0

\* ha_client_run has made a new client, which has connected.
Reconnect ==
  /\ state = "lost"
  /\ state' = "connected"
  /\ pingAge' = PingInterval + 1
  /\ waiting' = FALSE /\ pongAge' = 0 /\ roundAge' = 0
  /\ up' = TRUE /\ deadFor' = 0
  /\ owed' = FALSE /\ flight' = 0
  /\ pongIn' = FALSE /\ pongInAge' = 0
  /\ dataIn' = FALSE /\ dataAge' = 0

Next == Iterate \/ PeerAnswers \/ DataArrives \/ LinkDies \/ Tick \/ Reconnect

Spec == Init /\ [][Next]_vars

----------------------------------------------------------------------------
\* The ages stay within what the loop lets them run to, the flags are flags.
TypeOK ==
  /\ state \in {"connected", "lost"}
  /\ pingAge \in 0..(PingInterval + RoundMax + 1)
  /\ pongAge \in 0..(PongTimeout + RoundMax)
  /\ roundAge \in 0..RoundMax
  /\ waiting \in BOOLEAN /\ up \in BOOLEAN /\ owed \in BOOLEAN
  /\ pongIn \in BOOLEAN /\ dataIn \in BOOLEAN
  /\ deadFor \in Nat
  /\ flight \in 0..PeerDelay
  /\ pongInAge \in 0..ReadLag /\ dataAge \in 0..ReadLag

LossMax == ReadLag + PingInterval + PongTimeout + 2 * RoundMax

\* A silent loss is reported within a bounded time, even when it happens in
\* the middle of a burst or with a PONG still to be read.
LossNoticed == state = "connected" /\ ~up => deadFor <= LossMax

\* A connection whose peer answers its PINGs is never given up, however long
\* it lives and however its PINGs, PONGs and data interleave.
AliveKept == state = "lost" => ~up
=============================================================================
