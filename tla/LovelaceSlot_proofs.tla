------------------------- MODULE LovelaceSlot_proofs -------------------------
(***************************************************************************)
(* What is proved about LovelaceSlot, for every bound on ids and sessions, *)
(* every set of views, every fault and every user: if no call of the UI    *)
(* task runs through the two messages after auth_ok ("greeting" is not in  *)
(* Overlaps), the state is well-typed, HA only gets ids that rise, and a   *)
(* slot of this session is only filled by its own answer. If no request    *)
(* runs through the handling of an answer either (Overlaps is empty),      *)
(* LovelaceSlot implements ViewService.                                    *)
(*                                                                         *)
(* SlotInv is inductive. UiAt and WsAt list the places of the two calls    *)
(* with what is known of the ids there; Transit says that what is on its   *)
(* way has an id that was given out and, unless the slot is of an earlier  *)
(* session, that only a lovelace message has the id of the slot. ServeInv  *)
(* is inductive next to it: outside of a request, a slot of this session   *)
(* names the view selected last, and a slot of an earlier one is only      *)
(* taken for an answer without views.                                      *)
(***************************************************************************)
EXTENDS LovelaceSlot, TLAPS

ui == todo["ui"]
ws == todo["ws"]

----------------------------------------------------------------------------
(* What is left of a call after each of its steps                          *)

L1 == <<"lovelace">>
L2 == <<"bump", "lovelace">>
L3 == <<"take", "bump", "lovelace">>
A1 == <<"slotId", "take", "bump", "lovelace">>
A0 == RequestAll
V3 == <<"setPath", "take", "bump", "lovelace">>
V2 == <<"tearPath", "setPath", "take", "bump", "lovelace">>
V1 == <<"slotId", "tearPath", "setPath", "take", "bump", "lovelace">>
V0 == RequestView
C1 == <<"call">>
C2 == <<"bump", "call">>
C3 == CallService
S1 == <<"states">>
S2 == <<"bump", "states">>
S3 == <<"take", "bump", "states">>
S4 == GetStates
W1 == <<"tellConnected">>
W2 == <<"subscribe", "tellConnected">>
W3 == <<"bump", "subscribe", "tellConnected">>
W4 == <<"take", "bump", "subscribe", "tellConnected">>
W5 == <<"states", "take", "bump", "subscribe", "tellConnected">>
W6 == <<"bump", "states", "take", "bump", "subscribe", "tellConnected">>
W7 == <<"take", "bump", "states", "take", "bump", "subscribe", "tellConnected">>
W8 == AfterAuth
T1 == <<"applyStates">>
T2 == TakeStates
R1 == <<"freeId">>
R2 == <<"freeKind", "freeId">>
R3 == <<"fill", "freeKind", "freeId">>
R4 == TakeResult

\* A rest r with its first step and what comes after it.
Rest(r, first, next) == r # <<>> /\ Head(r) = first /\ Tail(r) = next

\* The calls of the UI task.
LEMMA UiRests ==
  /\ Rest(A0, "wantViews", A1) /\ Rest(A1, "slotId", L3)
  /\ Rest(V0, "wantEntities", V1) /\ Rest(V1, "slotId", V2)
  /\ Rest(V2, "tearPath", V3) /\ Rest(V3, "setPath", L3)
  /\ Rest(L3, "take", L2) /\ Rest(L2, "bump", L1) /\ Rest(L1, "lovelace", <<>>)
  /\ Rest(C3, "take", C2) /\ Rest(C2, "bump", C1) /\ Rest(C1, "call", <<>>)
  /\ Rest(S4, "statesId", S3) /\ Rest(S3, "take", S2) /\ Rest(S2, "bump", S1)
  /\ Rest(S1, "states", <<>>)
BY DEF Rest, A0, A1, V0, V1, V2, V3, L1, L2, L3, C1, C2, C3, S1, S2, S3, S4,
       RequestAll, RequestView, CallService, GetStates, Steps, Sends

\* The calls of the websocket task.
LEMMA WsRests ==
  /\ Rest(W8, "statesId", W7) /\ Rest(W7, "take", W6) /\ Rest(W6, "bump", W5)
  /\ Rest(W5, "states", W4) /\ Rest(W4, "take", W3) /\ Rest(W3, "bump", W2)
  /\ Rest(W2, "subscribe", W1) /\ Rest(W1, "tellConnected", <<>>)
  /\ Rest(T2, "forgetId", T1) /\ Rest(T1, "applyStates", <<>>)
  /\ Rest(R4, "parse", R3) /\ Rest(R3, "fill", R2) /\ Rest(R2, "freeKind", R1)
  /\ Rest(R1, "freeId", <<>>)
BY DEF Rest, W1, W2, W3, W4, W5, W6, W7, W8, T1, T2, R1, R2, R3, R4,
       AfterAuth, TakeStates, TakeResult, Steps, Sends

\* All of them are lists of steps.
LEMMA UiTypes ==
  /\ A0 \in Seq(Steps) /\ V0 \in Seq(Steps) /\ C3 \in Seq(Steps)
  /\ S4 \in Seq(Steps) /\ <<>> \in Seq(Steps)
BY DEF A0, V0, C3, S4, RequestAll, RequestView, CallService, GetStates, Steps, Sends

LEMMA WsTypes ==
  W8 \in Seq(Steps) /\ T2 \in Seq(Steps) /\ R4 \in Seq(Steps) /\ <<>> \in Seq(Steps)
BY DEF W8, T2, R4, AfterAuth, TakeStates, TakeResult, Steps, Sends

----------------------------------------------------------------------------
(* The inductive invariant                                                 *)

\* The id in the slot, if it is one of this session, is below n.
Older(n) == stale \/ pid < n

\* The task has given its message a number, above all that HA got.
Counted(t) ==
  reg[t] + 1 = msgId /\ reg[t] >= 1 /\ (link = "on" => haId < reg[t])

\* Where the UI task is, and what that says of the slot and of its number.
UiAt ==
  \/ ui = <<>> /\ Older(msgId)
  \/ ui \in {A0, A1, V0, V1}
  \/ ui \in {V2, V3, L3} /\ ~stale /\ pid \in {NoId, msgId}
  \/ ui = L2 /\ ~stale /\ reg["ui"] = msgId /\ pid \in {NoId, msgId}
  \/ ui = L1 /\ ~stale /\ Counted("ui") /\ pid \in {NoId, reg["ui"]}
  \/ ui \in {S4, S3, C3} /\ Older(msgId)
  \/ ui \in {S2, C2} /\ reg["ui"] = msgId /\ Older(msgId)
  \/ ui \in {S1, C1} /\ Counted("ui") /\ Older(reg["ui"])

\* Where the websocket task is: after auth_ok it numbers two messages, and
\* the UI task rests.
WsAt ==
  \/ ws = <<>> \/ ws \in {T1, T2} \/ ws \in {R1, R2, R3, R4}
  \/ /\ ui = <<>> /\ frame.what = "auth_ok"
     /\ \/ ws \in {W8, W7, W4, W1}
        \/ ws \in {W6, W3} /\ reg["ws"] = msgId
        \/ ws \in {W5, W2} /\ Counted("ws") /\ Older(reg["ws"])

\* What the state of the link says.
LinkInv ==
  /\ link # "on" => wire = <<>> /\ asked = {}
  /\ link = "on" => haId < msgId
  /\ link \in {"none", "connecting"} => ws = <<>>

\* An id in transit has been given out, and that of the slot stands for a
\* lovelace request, if the slot is of this session.
Transit ==
  /\ pid # 0
  /\ \A i \in DOMAIN wire : wire[i].id < msgId
  /\ \A i \in DOMAIN wire : wire[i].id = pid /\ ~stale => wire[i].what = "lovelace"
  /\ \A r \in asked : r.id < msgId
  /\ \A r \in asked : r.id = pid /\ ~stale => r.what = "lovelace"

SlotInv == TypeOK /\ ~reused /\ UiAt /\ WsAt /\ LinkInv /\ Transit

----------------------------------------------------------------------------
(* The steps                                                               *)

\* A step of one task leaves the other where it is.
LEMMA Moves ==
  ASSUME TypeOK, NEW s \in Seq(Steps)
  PROVE  /\ todo' = [todo EXCEPT !["ui"] = s] =>
              ui' = s /\ ws' = ws /\ todo' \in [Tasks -> Seq(Steps)]
         /\ todo' = [todo EXCEPT !["ws"] = s] =>
              ws' = s /\ ui' = ui /\ todo' \in [Tasks -> Seq(Steps)]
BY DEF TypeOK, Tasks, ui, ws

\* Where the UI task is when the next step of its call has a given kind.
LEMMA UiPlaces ==
  ASSUME UiAt
  PROVE  /\ ui # <<>> => Head(ui) \in {"wantViews", "wantEntities", "slotId",
              "tearPath", "setPath", "statesId", "take", "bump", "lovelace",
              "call", "states"}
         /\ At("ui", "wantViews") => ui = A0
         /\ At("ui", "wantEntities") => ui = V0
         /\ At("ui", "slotId") => ui \in {A1, V1}
         /\ At("ui", "tearPath") => ui = V2
         /\ At("ui", "setPath") => ui = V3
         /\ At("ui", "statesId") => ui = S4
         /\ At("ui", "take") => ui \in {L3, C3, S3}
         /\ At("ui", "bump") => ui \in {L2, C2, S2}
         /\ At("ui", "lovelace") => ui = L1
         /\ At("ui", "call") => ui = C1
         /\ At("ui", "states") => ui = S1
BY UiRests DEF UiAt, Rest, At, ui

\* Where the websocket task is.
LEMMA WsPlaces ==
  ASSUME WsAt
  PROVE  /\ ws # <<>> => Head(ws) \notin {"wantViews", "wantEntities",
              "slotId", "tearPath", "setPath", "lovelace", "call"}
         /\ At("ws", "statesId") => ws = W8
         /\ At("ws", "take") => ws \in {W7, W4}
         /\ At("ws", "bump") => ws \in {W6, W3}
         /\ At("ws", "states") => ws = W5
         /\ At("ws", "subscribe") => ws = W2
         /\ At("ws", "tellConnected") => ws = W1
         /\ At("ws", "forgetId") => ws = T2
         /\ At("ws", "applyStates") => ws = T1
         /\ At("ws", "parse") => ws = R4
         /\ At("ws", "fill") => ws = R3
         /\ At("ws", "freeKind") => ws = R2
         /\ At("ws", "freeId") => ws = R1
<1>1. ws \in {<<>>, W1, W2, W3, W4, W5, W6, W7, W8, T1, T2, R1, R2, R3, R4}
  BY DEF WsAt
<1>2. QED
  BY <1>1, WsRests DEF Rest, At, ws

\* Where nothing is known of the ids.
Blank == {<<>>, A0, A1, V0, V1}
\* The places of UiAt with the same knowledge differ from the others.
LEMMA UiGroups ==
  /\ V2 \notin Blank \cup {L2, L1, S4, S3, C3, S2, C2, S1, C1}
  /\ V3 \notin Blank \cup {L2, L1, S4, S3, C3, S2, C2, S1, C1}
  /\ L3 \notin Blank \cup {L2, L1, S4, S3, C3, S2, C2, S1, C1}
  /\ L2 \notin Blank \cup {L1, S4, S3, C3, S2, C2, S1, C1}
  /\ L1 \notin Blank \cup {S4, S3, C3, S2, C2, S1, C1}
  /\ S4 \notin Blank \cup {S2, C2, S1, C1}
  /\ S3 \notin Blank \cup {S2, C2, S1, C1}
  /\ C3 \notin Blank \cup {S2, C2, S1, C1}
  /\ S2 \notin Blank \cup {S1, C1} /\ C2 \notin Blank \cup {S1, C1}
  /\ S1 \notin Blank /\ C1 \notin Blank
  /\ <<>> \notin {A0, A1, V0, V1}
<1>1. L1 # C1 /\ L1 # S1
  BY UiRests DEF Rest
<1>2. L2 # C2 /\ L2 # S2
  BY <1>1, UiRests DEF Rest
<1>3. L3 # C3 /\ L3 # S3
  BY <1>2, UiRests DEF Rest
<1>4. V2 \notin Blank \cup {L2, L1, S4, S3, C3, S2, C2, S1, C1}
  BY UiRests DEF Rest, Blank
<1>5. V3 \notin Blank \cup {L2, L1, S4, S3, C3, S2, C2, S1, C1}
  BY UiRests DEF Rest, Blank
<1>6. L3 \notin Blank \cup {L2, L1, S4, S3, C3, S2, C2, S1, C1}
  BY <1>3, UiRests DEF Rest, Blank
<1>7. L2 \notin Blank \cup {L1, S4, S3, C3, S2, C2, S1, C1}
  BY <1>2, UiRests DEF Rest, Blank
<1>8. L1 \notin Blank \cup {S4, S3, C3, S2, C2, S1, C1}
  BY <1>1, UiRests DEF Rest, Blank
<1>9. S4 \notin Blank \cup {S2, C2, S1, C1}
  BY UiRests DEF Rest, Blank
<1>10. S3 \notin Blank \cup {S2, C2, S1, C1}
  BY UiRests DEF Rest, Blank
<1>11. C3 \notin Blank \cup {S2, C2, S1, C1}
  BY UiRests DEF Rest, Blank
<1>12. S2 \notin Blank \cup {S1, C1} /\ C2 \notin Blank \cup {S1, C1}
  BY UiRests DEF Rest, Blank
<1>13. S1 \notin Blank /\ C1 \notin Blank
  BY UiRests DEF Rest, Blank
<1>14. <<>> \notin {A0, A1, V0, V1}
  BY UiRests DEF Rest
<1>15. QED
  BY <1>4, <1>5, <1>6, <1>7, <1>8, <1>9, <1>10, <1>11, <1>12, <1>13, <1>14

\* What UiAt says at each place.
LEMMA UiKnows ==
  ASSUME UiAt
  PROVE  /\ ui = <<>> => Older(msgId)
         /\ ui \in {V2, V3, L3, L2, L1} => ~stale
         /\ ui \in {V2, V3, L3, L2} => pid \in {NoId, msgId}
         /\ ui \in {L2, S2, C2} => reg["ui"] = msgId
         /\ ui = L1 => pid \in {NoId, reg["ui"]}
         /\ ui \in {S4, S3, C3, S2, C2} => Older(msgId)
         /\ ui \in {S1, C1} => Older(reg["ui"])
         /\ ui \in {L1, S1, C1} => Counted("ui")
BY UiGroups DEF UiAt, Blank

\* The places of WsAt all differ.
LEMMA WsGroups ==
  /\ W1 \notin {<<>>, W2, W3, W4, W5, W6, W7, W8, T1, T2, R1, R2, R3, R4}
  /\ W2 \notin {<<>>, W3, W4, W5, W6, W7, W8, T1, T2, R1, R2, R3, R4}
  /\ W3 \notin {<<>>, W4, W5, W6, W7, W8, T1, T2, R1, R2, R3, R4}
  /\ W4 \notin {<<>>, W5, W6, W7, W8, T1, T2, R1, R2, R3, R4}
  /\ W5 \notin {<<>>, W6, W7, W8, T1, T2, R1, R2, R3, R4}
  /\ W6 \notin {<<>>, W7, W8, T1, T2, R1, R2, R3, R4}
  /\ W7 \notin {<<>>, W8, T1, T2, R1, R2, R3, R4}
  /\ W8 \notin {<<>>, T1, T2, R1, R2, R3, R4}
  /\ R1 \notin {<<>>, T1, T2, R3, R4} /\ R2 \notin {<<>>, T1, T2, R3, R4}
  /\ R3 \notin {<<>>, T1, T2} /\ R4 \notin {<<>>, T1, T2}
<1>1. W3 # W6
  BY WsRests DEF Rest
<1>2. W4 # W7
  BY <1>1, WsRests DEF Rest
<1>3. W1 \notin {<<>>, W2, W3, W4, W5, W6, W7, W8, T1, T2, R1, R2, R3, R4}
  BY WsRests DEF Rest
<1>4. W2 \notin {<<>>, W3, W4, W5, W6, W7, W8, T1, T2, R1, R2, R3, R4}
  BY WsRests DEF Rest
<1>5. W3 \notin {<<>>, W4, W5, W6, W7, W8, T1, T2, R1, R2, R3, R4}
  BY <1>1, WsRests DEF Rest
<1>6. W4 \notin {<<>>, W5, W6, W7, W8, T1, T2, R1, R2, R3, R4}
  BY <1>2, WsRests DEF Rest
<1>7. W5 \notin {<<>>, W6, W7, W8, T1, T2, R1, R2, R3, R4}
  BY WsRests DEF Rest
<1>8. W6 \notin {<<>>, W7, W8, T1, T2, R1, R2, R3, R4}
  BY WsRests DEF Rest
<1>9. W7 \notin {<<>>, W8, T1, T2, R1, R2, R3, R4}
  BY WsRests DEF Rest
<1>10. W8 \notin {<<>>, T1, T2, R1, R2, R3, R4}
  BY WsRests DEF Rest
<1>11. R1 \notin {<<>>, T1, T2, R3, R4} /\ R2 \notin {<<>>, T1, T2, R3, R4}
  BY WsRests DEF Rest
<1>12. R3 \notin {<<>>, T1, T2} /\ R4 \notin {<<>>, T1, T2}
  BY WsRests DEF Rest
<1>13. QED
  BY <1>3, <1>4, <1>5, <1>6, <1>7, <1>8, <1>9, <1>10, <1>11, <1>12

\* What WsAt says at each place.
LEMMA WsKnows ==
  ASSUME WsAt
  PROVE  /\ ws \in {W1, W2, W3, W4, W5, W6, W7, W8} => ui = <<>> /\ frame.what = "auth_ok"
         /\ ws \in {W6, W3} => reg["ws"] = msgId
         /\ ws \in {W5, W2} => Counted("ws") /\ Older(reg["ws"])
BY WsGroups DEF WsAt

\* What is in transit has a number.
LEMMA TransitTypes ==
  ASSUME TypeOK
  PROVE  /\ \A i \in DOMAIN wire : wire[i] \in Frames /\ wire[i].id \in Nat
         /\ \A r \in asked : r.id \in Nat
<1>1. /\ \A f \in Frames : f.id \in Nat
      /\ \A r \in [what : {"lovelace", "call"}, id : Nat] : r.id \in Nat
  BY DEF Frames
<1>2. /\ wire \in Seq(Frames)
      /\ asked \subseteq [what : {"lovelace", "call"}, id : Nat]
  BY DEF TypeOK
<1>3. \A i \in DOMAIN wire : wire[i] \in Frames
  BY <1>2
<1>4. QED
  BY <1>1, <1>2, <1>3

\* HA accepts a number that rises, and what is in transit stays in order.
LEMMA Accepted ==
  ASSUME SlotInv, NEW what \in Sends, NEW id \in Nat, Receive(what, id),
         haId < id, id < msgId, id = pid /\ ~stale => what = "lovelace",
         UNCHANGED <<pid, msgId, stale>>
  PROVE  /\ haId' = id /\ reused' = reused
         /\ wire' \in Seq(Frames)
         /\ asked' \subseteq [what : {"lovelace", "call"}, id : Nat]
         /\ Transit'
<1> DEFINE new == [what |-> what, id |-> id, good |-> TRUE]
<1>1. /\ wire \in Seq(Frames) /\ asked \subseteq [what : {"lovelace", "call"}, id : Nat]
      /\ haId' = id /\ reused' = reused
  BY DEF SlotInv, TypeOK, Receive
<1>2. CASE what \in {"states", "subscribe"}
  <2>1. wire' = Append(wire, new) /\ asked' = asked /\ new \in Frames
    BY <1>2 DEF Receive, Frames
  <2>2. /\ wire' \in Seq(Frames)
        /\ \A i \in DOMAIN wire' : (i \in DOMAIN wire /\ wire'[i] = wire[i]) \/ wire'[i] = new
    BY <1>1, <2>1
  <2>3. QED
    BY <1>1, <1>2, <2>1, <2>2 DEF SlotInv, Transit
<1>3. CASE what \in {"lovelace", "call"}
  <2>1. wire' = wire /\ asked' = asked \cup {[what |-> what, id |-> id]}
    BY <1>3 DEF Receive
  <2>2. QED
    BY <1>1, <1>3, <2>1 DEF SlotInv, Transit
<1>4. QED
  BY <1>2, <1>3 DEF Sends

\* One step of a call of the UI task. The websocket task is not in the one
\* that follows auth_ok.
LEMMA UiCalls ==
  ASSUME SlotInv, Shared("ui")
  PROVE  SlotInv'
<1> USE DEF SlotInv
<1> DEFINE rest == Tail(ui)
<1>1. /\ ui # <<>> /\ rest \in Seq(Steps)
      /\ ws \in {<<>>, T1, T2, R1, R2, R3, R4}
  <2>1. ui # <<>>
    BY DEF Shared, WriteKind, WriteSlotId, WritePath, WriteStatesId, TakeId, BumpId,
           SendJson, At, ui
  <2>2. rest \in Seq(Steps)
    BY <2>1 DEF TypeOK, Tasks, ui
  <2>3. QED
    BY <2>1, <2>2 DEF WsAt
<1>2. reg["ui"] \in Nat /\ msgId \in Nat \ {0} /\ pid \in Int /\ NoId = -1
  BY DEF TypeOK, Tasks, NoId
<1>3. Advance("ui") => ui' = rest /\ ws' = ws /\ todo' \in [Tasks -> Seq(Steps)]
  BY <1>1, Moves DEF Advance, ui
<1>12. ws' = ws => WsAt'
  BY <1>1 DEF WsAt
<1>4. CASE WriteKind("ui")
  <2>1. ui' \in {A1, V1} /\ ws' = ws /\ todo' \in [Tasks -> Seq(Steps)]
    BY <1>3, <1>4, UiPlaces, UiRests DEF WriteKind, Rest
  <2>2. kind' \in {"views", "entities"} /\ logged' \subseteq {"lovelace", "states"}
    BY <1>4 DEF WriteKind, TypeOK
  <2>3. TypeOK'
    BY <1>4, <2>1, <2>2 DEF WriteKind, TypeOK, store, uiSide, haSide
  <2>4. UiAt'
    BY <2>1 DEF UiAt
  <2>5. (~reused)' /\ LinkInv' /\ Transit'
    BY <1>4, <2>1 DEF WriteKind, LinkInv, Transit, haSide
  <2>6. QED
    BY <1>12, <2>1, <2>3, <2>4, <2>5
<1>5. CASE WriteSlotId("ui")
  <2>1. ui' \in {L3, V2} /\ ws' = ws /\ todo' \in [Tasks -> Seq(Steps)]
    BY <1>3, <1>5, UiPlaces, UiRests DEF WriteSlotId, Rest
  <2>2. pid' = msgId /\ stale' = FALSE /\ UNCHANGED <<msgId, wire, asked, haId, reused, link>>
    BY <1>5 DEF WriteSlotId, haSide
  <2>8. pid' \in Nat \cup {NoId} /\ stale' \in BOOLEAN
    BY <1>2, <2>2
  <2>3. TypeOK'
    BY <1>5, <2>1, <2>8 DEF WriteSlotId, TypeOK, store, uiSide, haSide
  <2>4. UiAt'
    BY <2>1, <2>2 DEF UiAt
  <2>5. (~reused)' /\ LinkInv'
    BY <2>1, <2>2 DEF LinkInv
  <2>6. Transit'
    BY <1>2, <2>2, TransitTypes DEF Transit
  <2>7. QED
    BY <1>12, <2>1, <2>3, <2>4, <2>5, <2>6
<1>6. CASE WritePath("ui")
  <2>1. /\ ui \in {V2, V3} /\ ui' \in {V3, L3}
        /\ ws' = ws /\ todo' \in [Tasks -> Seq(Steps)]
    BY <1>3, <1>6, UiPlaces, UiRests DEF WritePath, Rest
  <2>2. TypeOK'
    BY <1>6, <2>1 DEF WritePath, TypeOK, store, uiSide, haSide
  <2>3. UiAt'
    BY <1>6, <2>1, UiKnows DEF UiAt, WritePath
  <2>4. (~reused)' /\ LinkInv' /\ Transit'
    BY <1>6, <2>1 DEF WritePath, LinkInv, Transit, haSide
  <2>5. QED
    BY <1>12, <2>1, <2>2, <2>3, <2>4
<1>7. CASE WriteStatesId("ui")
  <2>1. ui = S4 /\ ui' = S3 /\ ws' = ws /\ todo' \in [Tasks -> Seq(Steps)]
    BY <1>3, <1>7, UiPlaces, UiRests DEF WriteStatesId, Rest
  <2>2. logged' \subseteq {"lovelace", "states"}
    BY <1>7 DEF WriteStatesId, TypeOK
  <2>3. TypeOK'
    BY <1>7, <2>1, <2>2 DEF WriteStatesId, TypeOK, slot, store, uiSide, haSide
  <2>4. UiAt'
    BY <1>7, <2>1, UiKnows DEF UiAt, WriteStatesId, slot, Older
  <2>5. (~reused)' /\ LinkInv' /\ Transit'
    BY <1>7, <2>1 DEF WriteStatesId, LinkInv, Transit, slot, haSide
  <2>6. QED
    BY <1>12, <2>1, <2>3, <2>4, <2>5
<1>8. CASE TakeId("ui")
  <2>1. ui \in {L3, C3, S3} /\ ws' = ws /\ todo' \in [Tasks -> Seq(Steps)]
    BY <1>3, <1>8, UiPlaces DEF TakeId
  <2>2. /\ ui = L3 => ui' = L2
        /\ ui = C3 => ui' = C2
        /\ ui = S3 => ui' = S2
    BY <1>3, <1>8, UiRests DEF TakeId, Rest
  <2>3. reg' \in [Tasks -> Nat] /\ reg'["ui"] = msgId
    BY <1>8 DEF TakeId, TypeOK, Tasks
  <2>4. TypeOK'
    BY <1>8, <2>1, <2>3 DEF TakeId, TypeOK, slot, store, uiSide, haSide
  <2>5. UNCHANGED <<msgId, pid, stale>>
    BY <1>8 DEF TakeId, slot
  <2>6. UiAt'
    BY <2>1, <2>2, <2>3, <2>5, UiKnows DEF UiAt, Older
  <2>7. (~reused)' /\ LinkInv' /\ Transit'
    BY <1>8, <2>1 DEF TakeId, LinkInv, Transit, slot, haSide
  <2>8. QED
    BY <1>12, <2>1, <2>4, <2>6, <2>7
<1>9. CASE BumpId("ui")
  <2>1. ui \in {L2, C2, S2} /\ ws' = ws /\ todo' \in [Tasks -> Seq(Steps)]
    BY <1>3, <1>9, UiPlaces DEF BumpId
  <2>2. /\ ui = L2 => ui' = L1
        /\ ui = C2 => ui' = C1
        /\ ui = S2 => ui' = S1
    BY <1>3, <1>9, UiRests DEF BumpId, Rest
  <2>3. reg["ui"] = msgId /\ msgId' = msgId + 1
    BY <1>9, <2>1, UiKnows DEF BumpId
  <2>4. TypeOK'
    BY <1>9, <2>1, <2>3 DEF BumpId, TypeOK, slot, store, uiSide, haSide
  <2>5. UNCHANGED <<reg, pid, stale, link, haId, wire, asked, reused>>
    BY <1>9 DEF BumpId, slot, haSide
  <2>6. Counted("ui")'
    BY <1>2, <2>3, <2>5 DEF Counted, LinkInv
  <2>7. UiAt'
    <3>1. CASE ui = L2
      BY <2>2, <2>3, <2>5, <2>6, <3>1, UiKnows DEF UiAt
    <3>2. CASE ui \in {C2, S2}
      <4>1. Older(reg["ui"])'
        BY <2>3, <2>5, <3>2, UiKnows DEF Older
      <4>2. QED
        BY <2>2, <2>6, <3>2, <4>1 DEF UiAt
    <3>3. QED
      BY <2>1, <3>1, <3>2
  <2>8. (~reused)' /\ LinkInv'
    BY <2>1, <2>3, <2>5 DEF LinkInv, TypeOK
  <2>9. Transit'
    BY <1>2, <2>3, <2>5, TransitTypes DEF Transit
  <2>10. QED
    BY <1>12, <2>1, <2>4, <2>7, <2>8, <2>9
<1>10. CASE SendJson("ui")
  <2>1. /\ ui \in {L1, C1, S1} /\ ui' = <<>> /\ ws' = ws
        /\ todo' \in [Tasks -> Seq(Steps)]
    BY <1>3, <1>10, UiPlaces, UiRests DEF SendJson, Rest, Sends, At, ui
  <2>2. /\ Counted("ui") /\ Older(msgId)
        /\ ui = L1 \/ Older(reg["ui"])
    <3>1. Counted("ui") /\ (ui = L1 => pid \in {NoId, reg["ui"]})
          /\ (ui \in {S1, C1} => Older(reg["ui"]))
      BY <2>1, UiKnows
    <3>2. QED
      BY <1>2, <2>1, <3>1 DEF Counted, Older
  <2>3. /\ UNCHANGED <<msgId, pid, stale, frame, kind, path, statesId, listed, page, fresh,
                       shown, saved, setup, news, sessions>>
        /\ reg' \in [Tasks -> Nat] /\ logged' \subseteq {"lovelace", "states"}
    BY <1>10 DEF SendJson, LogFailure, slot, store, uiSide, TypeOK, Tasks
  <2>4. UiAt'
    BY <2>1, <2>2, <2>3 DEF UiAt, Older
  <2>5. CASE haSide' = haSide
    <3>1. link' \in {link, "lost"} /\ (link' # link => link = "connecting")
      BY <1>10, <2>2, <2>5 DEF SendJson, Receive, haSide, Counted
    <3>2. TypeOK'
      BY <2>1, <2>3, <2>5, <3>1 DEF TypeOK, haSide
    <3>3. (~reused)' /\ LinkInv' /\ Transit'
      BY <2>1, <2>3, <2>5, <3>1 DEF LinkInv, Transit, haSide
    <3>4. QED
      BY <1>12, <2>1, <2>4, <3>2, <3>3
  <2>6. CASE haSide' # haSide
    <3>1. /\ link = "on" /\ link' = link
          /\ Receive(Head(ui), reg["ui"])
      BY <1>10, <2>6 DEF SendJson, haSide, ui
    <3>2. Head(ui) \in Sends /\ (reg["ui"] = pid /\ ~stale => Head(ui) = "lovelace")
      <4>1. Head(ui) \in Sends /\ (ui = L1 => Head(ui) = "lovelace")
        BY <2>1, UiRests DEF Rest, Sends
      <4>2. QED
        BY <1>2, <2>2, <4>1 DEF Older
    <3>3. haId < reg["ui"] /\ reg["ui"] < msgId
      BY <1>2, <2>2, <3>1 DEF Counted
    <3>4. /\ haId' = reg["ui"] /\ reused' = reused /\ wire' \in Seq(Frames)
          /\ asked' \subseteq [what : {"lovelace", "call"}, id : Nat]
          /\ Transit'
      BY <1>2, <2>3, <3>1, <3>2, <3>3, Accepted
    <3>5. TypeOK'
      <4>1. haId' \in Nat /\ reused' \in BOOLEAN /\ link' = link
        BY <1>2, <3>1, <3>4 DEF TypeOK
      <4>2. QED
        BY <2>1, <2>3, <3>4, <4>1 DEF TypeOK
    <3>6. (~reused)' /\ LinkInv'
      BY <2>1, <2>3, <3>1, <3>3, <3>4 DEF LinkInv
    <3>7. QED
      BY <1>12, <2>1, <2>4, <3>4, <3>5, <3>6
  <2>7. QED
    BY <2>5, <2>6
<1>11. QED
  BY <1>4, <1>5, <1>6, <1>7, <1>8, <1>9, <1>10 DEF Shared

\* One step of the call that follows auth_ok, in the websocket task, while
\* the UI task rests.
LEMMA WsCalls ==
  ASSUME SlotInv, Shared("ws")
  PROVE  SlotInv'
<1> USE DEF SlotInv
<1> DEFINE rest == Tail(ws)
<1>1. /\ ws \in {W2, W3, W4, W5, W6, W7, W8}
      /\ WriteStatesId("ws") \/ TakeId("ws") \/ BumpId("ws") \/ SendJson("ws")
  <2>1. ws # <<>>
    BY DEF Shared, WriteKind, WriteSlotId, WritePath, WriteStatesId, TakeId, BumpId,
           SendJson, At, ws
  <2>2. /\ ~WriteKind("ws") /\ ~WriteSlotId("ws") /\ ~WritePath("ws")
        /\ SendJson("ws") => At("ws", "states") \/ At("ws", "subscribe")
    BY <2>1, WsPlaces DEF WriteKind, WriteSlotId, WritePath, SendJson, Sends, At, ws
  <2>3. WriteStatesId("ws") \/ TakeId("ws") \/ BumpId("ws") \/ SendJson("ws")
    BY <2>2 DEF Shared
  <2>4. QED
    BY <2>2, <2>3, WsPlaces DEF WriteStatesId, TakeId, BumpId
<1>2. /\ ui = <<>> /\ frame.what = "auth_ok" /\ ws # <<>>
      /\ link # "none" /\ link # "connecting" /\ Older(msgId)
  <2>1. ws # <<>> /\ ui = <<>> /\ frame.what = "auth_ok"
    BY <1>1, WsKnows, WsGroups
  <2>2. QED
    BY <2>1, UiKnows DEF LinkInv
<1>3. Advance("ws") => ws' = rest /\ ui' = ui /\ todo' \in [Tasks -> Seq(Steps)]
  <2>1. rest \in Seq(Steps)
    BY <1>2 DEF TypeOK, Tasks, ws
  <2>2. QED
    BY <2>1, Moves DEF Advance, ws
<1>4. reg["ws"] \in Nat /\ msgId \in Nat \ {0} /\ pid \in Int /\ NoId = -1
  BY DEF TypeOK, Tasks, NoId
<1>5. CASE WriteStatesId("ws")
  <2>1. ws = W8 /\ ws' = W7 /\ ui' = ui /\ todo' \in [Tasks -> Seq(Steps)]
    BY <1>3, <1>5, WsPlaces, WsRests DEF WriteStatesId, Rest
  <2>2. logged' \subseteq {"lovelace", "states"}
    BY <1>5 DEF WriteStatesId, TypeOK
  <2>3. TypeOK'
    BY <1>5, <2>1, <2>2 DEF WriteStatesId, TypeOK, slot, store, uiSide, haSide
  <2>4. UiAt' /\ WsAt'
    BY <1>2, <1>5, <2>1 DEF UiAt, WsAt, WriteStatesId, slot, Older
  <2>5. (~reused)' /\ LinkInv' /\ Transit'
    BY <1>2, <1>5, <2>1 DEF WriteStatesId, LinkInv, Transit, slot, haSide
  <2>6. QED
    BY <2>3, <2>4, <2>5
<1>6. CASE TakeId("ws")
  <2>1. /\ ws \in {W7, W4} /\ (ws = W7 => ws' = W6) /\ (ws = W4 => ws' = W3)
        /\ ui' = ui /\ todo' \in [Tasks -> Seq(Steps)]
    BY <1>3, <1>6, WsPlaces, WsRests DEF TakeId, Rest
  <2>2. reg' \in [Tasks -> Nat] /\ reg'["ws"] = msgId
    BY <1>6 DEF TakeId, TypeOK, Tasks
  <2>3. TypeOK'
    BY <1>6, <2>1, <2>2 DEF TakeId, TypeOK, slot, store, uiSide, haSide
  <2>4. UiAt' /\ WsAt'
    BY <1>2, <1>6, <2>1, <2>2 DEF UiAt, WsAt, TakeId, slot, Older
  <2>5. (~reused)' /\ LinkInv' /\ Transit'
    BY <1>2, <1>6, <2>1 DEF TakeId, LinkInv, Transit, slot, haSide
  <2>6. QED
    BY <2>3, <2>4, <2>5
<1>7. CASE BumpId("ws")
  <2>1. /\ ws \in {W6, W3} /\ (ws = W6 => ws' = W5) /\ (ws = W3 => ws' = W2)
        /\ ui' = ui /\ todo' \in [Tasks -> Seq(Steps)]
    BY <1>3, <1>7, WsPlaces, WsRests DEF BumpId, Rest
  <2>2. reg["ws"] = msgId /\ msgId' = msgId + 1
    BY <1>7, <2>1, WsKnows DEF BumpId
  <2>3. TypeOK'
    BY <1>7, <2>1, <2>2 DEF BumpId, TypeOK, slot, store, uiSide, haSide
  <2>4. UNCHANGED <<reg, pid, stale, link, haId, wire, asked, reused, frame>>
    BY <1>7 DEF BumpId, slot, haSide
  <2>5. Counted("ws")' /\ Older(reg["ws"])' /\ Older(msgId)'
    BY <1>2, <1>4, <2>2, <2>4 DEF Counted, LinkInv, Older
  <2>6. UiAt' /\ WsAt'
    BY <1>2, <2>1, <2>4, <2>5 DEF UiAt, WsAt
  <2>7. (~reused)' /\ LinkInv'
    BY <1>2, <2>1, <2>2, <2>4 DEF LinkInv, TypeOK
  <2>8. Transit'
    BY <1>4, <2>2, <2>4, TransitTypes DEF Transit
  <2>9. QED
    BY <2>3, <2>6, <2>7, <2>8
<1>8. CASE SendJson("ws")
  <2>1. /\ ws \in {W5, W2} /\ (ws = W5 => ws' = W4) /\ (ws = W2 => ws' = W1)
        /\ ui' = ui /\ todo' \in [Tasks -> Seq(Steps)]
        /\ Head(ws) \in {"states", "subscribe"}
    BY <1>1, <1>3, <1>8, WsPlaces, WsRests DEF SendJson, Rest, Sends, At, ws
  <2>2. Counted("ws") /\ Older(reg["ws"])
    BY <2>1, WsKnows
  <2>3. /\ UNCHANGED <<msgId, pid, stale, frame, kind, path, statesId, listed, page, fresh,
                       shown, saved, setup, news, sessions>>
        /\ reg' \in [Tasks -> Nat] /\ logged' \subseteq {"lovelace", "states"}
    BY <1>8 DEF SendJson, LogFailure, slot, store, uiSide, TypeOK, Tasks
  <2>4. UiAt' /\ WsAt'
    BY <1>2, <2>1, <2>3 DEF UiAt, WsAt, Older
  <2>5. CASE haSide' = haSide
    <3>1. link' = link
      BY <1>2, <1>8, <2>2, <2>5 DEF SendJson, Receive, haSide, Counted
    <3>2. TypeOK'
      BY <2>1, <2>3, <2>5, <3>1 DEF TypeOK, haSide
    <3>3. (~reused)' /\ LinkInv' /\ Transit'
      BY <1>2, <2>1, <2>3, <2>5, <3>1 DEF LinkInv, Transit, haSide
    <3>4. QED
      BY <2>4, <3>2, <3>3
  <2>6. CASE haSide' # haSide
    <3>1. link = "on" /\ link' = link /\ Receive(Head(ws), reg["ws"])
      BY <1>8, <2>6 DEF SendJson, haSide, ws
    <3>2. Head(ws) \in Sends /\ (reg["ws"] = pid /\ ~stale => Head(ws) = "lovelace")
      BY <1>4, <2>1, <2>2 DEF Sends, Older
    <3>3. haId < reg["ws"] /\ reg["ws"] < msgId
      BY <1>4, <2>2, <3>1 DEF Counted
    <3>4. /\ haId' = reg["ws"] /\ reused' = reused /\ wire' \in Seq(Frames)
          /\ asked' \subseteq [what : {"lovelace", "call"}, id : Nat]
          /\ Transit'
      BY <1>4, <2>3, <3>1, <3>2, <3>3, Accepted
    <3>5. TypeOK'
      <4>1. haId' \in Nat /\ reused' \in BOOLEAN /\ link' = link
        BY <1>4, <3>1, <3>4 DEF TypeOK
      <4>2. QED
        BY <2>1, <2>3, <3>4, <4>1 DEF TypeOK
    <3>6. (~reused)' /\ LinkInv'
      BY <1>2, <2>3, <3>1, <3>3, <3>4 DEF LinkInv
    <3>7. QED
      BY <2>4, <3>4, <3>5, <3>6
  <2>7. QED
    BY <2>5, <2>6
<1>9. QED
  BY <1>1, <1>5, <1>6, <1>7, <1>8

\* The places of that call, and that it asks for no views.
LEMMA WsSends ==
  ASSUME SlotInv, Shared("ws")
  PROVE  /\ ws' \in {W1, W2, W3, W4, W5, W6, W7} /\ ui' = ui
         /\ WriteStatesId("ws") \/ TakeId("ws") \/ BumpId("ws") \/ SendJson("ws")
         /\ SendJson("ws") => Head(ws) # "lovelace"
<1>1. ws # <<>> /\ WsAt /\ todo \in [Tasks -> Seq(Steps)]
  BY DEF SlotInv, TypeOK, Shared, WriteKind, WriteSlotId, WritePath, WriteStatesId, TakeId,
         BumpId, SendJson, At, ws
<1>2. Head(ws) \notin {"wantViews", "wantEntities", "slotId", "tearPath", "setPath",
                       "lovelace", "call"}
  BY <1>1, WsPlaces
<1>3. WriteStatesId("ws") \/ TakeId("ws") \/ BumpId("ws") \/ SendJson("ws")
  BY <1>2 DEF Shared, WriteKind, WriteSlotId, WritePath, At, ws
<1>4. ws \in {W2, W3, W4, W5, W6, W7, W8}
  <2>1. SendJson("ws") => At("ws", "states") \/ At("ws", "subscribe")
    BY <1>1, <1>2 DEF SendJson, Sends, At, ws
  <2>2. QED
    BY <1>1, <1>3, <2>1, WsPlaces DEF WriteStatesId, TakeId, BumpId
<1>5. Advance("ws")
  BY <1>3 DEF WriteStatesId, TakeId, BumpId, SendJson
<1>6. ws' = Tail(ws) /\ ui' = ui
  BY <1>1, <1>5 DEF Advance, Tasks, ui, ws
<1>7. ws' \in {W1, W2, W3, W4, W5, W6, W7}
  BY <1>4, <1>6, WsRests DEF Rest
<1>8. QED
  BY <1>2, <1>3, <1>6, <1>7

\* What a new call of the UI task is, after an event or a tap.
LEMMA UiBeginning ==
  ASSUME TypeOK, HandleConnected \/ HandleEntitiesLoaded \/ UserTap
  PROVE  /\ ui = <<>> /\ ws' = ws
         /\ ui' \in {<<>>, A0, V0, C3, S4}
         /\ ui' # <<>> => MayCall /\ link # "none"
         /\ ui' \in {A0, V0} => MayRequest
         /\ todo' \in [Tasks -> Seq(Steps)]
         /\ UNCHANGED <<reg, msgId, slot, statesId, frame, store, link, sessions, haSide,
                        stale, logged>>
<1>1. /\ A0 \in Seq(Steps) /\ V0 \in Seq(Steps) /\ C3 \in Seq(Steps)
      /\ S4 \in Seq(Steps) /\ <<>> \in Seq(Steps)
  BY UiTypes
<1>2. \A r \in {A0, V0, C3, S4, <<>>} :
        UiCall(r) => ui' = r /\ ws' = ws /\ todo' \in [Tasks -> Seq(Steps)]
  BY <1>1, Moves DEF UiCall
<1>3. todo' = todo => ui' = ui /\ ws' = ws /\ todo' \in [Tasks -> Seq(Steps)]
  BY DEF TypeOK, ui, ws
<1>4. ui = <<>>
  BY DEF HandleConnected, HandleEntitiesLoaded, UserTap, TapRefresh, TapCommand, TapView,
         OpenSetup, ExitSetup, MayRequest, MayCall, Idle, ui
<1>5. /\ A0 \notin {<<>>, S4, C3} /\ V0 \notin {<<>>, S4, C3} /\ S4 # <<>> /\ C3 # <<>>
  BY UiGroups, UiRests DEF Rest, Blank
<1>6. UNCHANGED <<reg, msgId, slot, statesId, frame, store, link, sessions, haSide,
                  stale, logged>>
  BY DEF HandleConnected, HandleEntitiesLoaded, UserTap, TapRefresh, TapCommand, TapView,
         OpenSetup, ExitSetup
<1>7. CASE HandleConnected
  <2>1. \/ UNCHANGED todo
        \/ MayRequest /\ UiCall(IF link = "none" THEN <<>> ELSE A0)
        \/ MayRequest /\ UiCall(IF link = "none" THEN <<>> ELSE V0)
    BY <1>7 DEF HandleConnected, A0, V0
  <2>2. MayRequest => MayCall
    BY DEF MayRequest
  <2>3. QED
    BY <1>2, <1>3, <1>4, <1>5, <1>6, <2>1, <2>2
<1>8. CASE HandleEntitiesLoaded
  <2>1. \/ UNCHANGED todo
        \/ MayCall /\ UiCall(IF link = "none" THEN <<>> ELSE S4)
    BY <1>8 DEF HandleEntitiesLoaded, S4
  <2>2. QED
    BY <1>2, <1>3, <1>4, <1>5, <1>6, <2>1
<1>9. CASE UserTap
  <2>1. \/ UNCHANGED todo
        \/ MayRequest /\ UiCall(IF link = "none" THEN <<>> ELSE V0)
        \/ MayRequest /\ link # "none" /\ UiCall(A0)
        \/ MayCall /\ link # "none" /\ UiCall(C3)
    BY <1>9 DEF UserTap, TapRefresh, TapCommand, TapView, OpenSetup, ExitSetup, A0, V0, C3
  <2>2. MayRequest => MayCall
    BY DEF MayRequest
  <2>3. QED
    BY <1>2, <1>3, <1>4, <1>5, <1>6, <2>1, <2>2
<1>10. QED
  BY <1>7, <1>8, <1>9

\* It does not run through the two messages after auth_ok.
LEMMA UiBegins ==
  ASSUME SlotInv, "greeting" \notin Overlaps, HandleConnected \/ HandleEntitiesLoaded \/ UserTap
  PROVE  SlotInv'
<1> USE DEF SlotInv
<1>1. /\ ui = <<>> /\ ws' = ws /\ Older(msgId)
      /\ ui' \in {<<>>, A0, V0, C3, S4}
      /\ ui' # <<>> => MayCall /\ link # "none"
      /\ todo' \in [Tasks -> Seq(Steps)]
      /\ UNCHANGED <<reg, msgId, slot, statesId, frame, store, link, sessions, haSide,
                     stale, logged>>
  BY UiBeginning, UiKnows
<1>2. ui' = <<>> \/ ws \in {<<>>, T1, T2, R1, R2, R3, R4}
  <2>1. MayCall => ws = <<>> \/ frame.what # "auth_ok"
    BY DEF MayCall, Idle, ws
  <2>2. QED
    BY <1>1, <2>1 DEF WsAt
<1>3. TypeOK'
  <2>1. news' \in Seq({"CONNECTED", "ENTITIES_LOADED"})
    <3>1. news' = news \/ (news # <<>> /\ news' = Tail(news))
      BY DEF HandleConnected, HandleEntitiesLoaded, UserTap, TapRefresh, TapCommand, TapView,
             OpenSetup, ExitSetup
    <3>2. news \in Seq({"CONNECTED", "ENTITIES_LOADED"})
      BY DEF TypeOK
    <3>3. QED
      BY <3>1, <3>2
  <2>2. saved' \in Views \cup {NoView}
    <3>1. saved' = saved \/ saved' \in Views
      BY DEF HandleConnected, HandleEntitiesLoaded, UserTap, TapRefresh, TapCommand, TapView,
             OpenSetup, ExitSetup, uiSide
    <3>2. QED
      BY <3>1 DEF TypeOK
  <2>3. setup' \in BOOLEAN
    <3>1. setup' = setup \/ setup' = TRUE \/ setup' = FALSE
      BY DEF HandleConnected, HandleEntitiesLoaded, UserTap, TapRefresh, TapCommand, TapView,
             OpenSetup, ExitSetup, uiSide
    <3>2. QED
      BY <3>1 DEF TypeOK
  <2>4. shown' \in BOOLEAN
    <3>1. shown' = shown \/ shown' = TRUE
      BY DEF HandleConnected, HandleEntitiesLoaded, UserTap, TapRefresh, TapCommand, TapView,
             OpenSetup, ExitSetup, uiSide
    <3>2. QED
      BY <3>1 DEF TypeOK
  <2>5. QED
    BY <1>1, <2>1, <2>2, <2>3, <2>4 DEF TypeOK, slot, store, haSide
<1>4. UiAt'
  BY <1>1 DEF UiAt, Older, slot
<1>5. WsAt'
  <2>1. CASE ui' = <<>>
    BY <1>1, <2>1 DEF WsAt, Older, Counted, slot, haSide
  <2>2. CASE ws \in {<<>>, T1, T2, R1, R2, R3, R4}
    BY <1>1, <2>2 DEF WsAt
  <2>3. QED
    BY <1>2, <2>1, <2>2
<1>6. (~reused)' /\ LinkInv' /\ Transit'
  BY <1>1 DEF LinkInv, Transit, slot, haSide
<1>7. QED
  BY <1>3, <1>4, <1>5, <1>6

\* The websocket task takes the next message.
LEMMA WsTaking ==
  ASSUME SlotInv, Dispatch
  PROVE  /\ ws = <<>> /\ wire # <<>> /\ link = "on" /\ ui' = ui
         /\ frame' = wire[1] /\ 1 \in DOMAIN wire /\ wire[1] \in Frames
         /\ wire' \in Seq(Frames) /\ todo' \in [Tasks -> Seq(Steps)]
         /\ \A i \in DOMAIN wire' : i + 1 \in DOMAIN wire /\ wire'[i] = wire[i + 1]
         /\ \/ ws' = W8 /\ frame'.what = "auth_ok"
               /\ ("greeting" \in Overlaps \/ ui = <<>>)
            \/ ws' \in {T2, <<>>}
            \/ ws' = R4 /\ frame'.id = pid
               /\ ("answer" \in Overlaps \/ ~Requesting)
         /\ UNCHANGED <<reg, msgId, slot, statesId, store, uiSide, news, link,
                        sessions, asked, haId, reused, stale>>
         /\ logged' \subseteq {"lovelace", "states"}
<1> DEFINE f == Head(wire)
<1>1. /\ ws = <<>> /\ wire # <<>> /\ wire \in Seq(Frames) /\ link = "on"
      /\ frame' = f /\ wire' = Tail(wire)
      /\ UNCHANGED <<reg, msgId, slot, statesId, store, uiSide, news, link,
                     sessions, asked, haId, reused, stale>>
  BY DEF Dispatch, Idle, ws, SlotInv, TypeOK, LinkInv
<1>2. /\ f \in Frames /\ f = wire[1] /\ 1 \in DOMAIN wire /\ wire' \in Seq(Frames)
      /\ \A i \in DOMAIN wire' : i + 1 \in DOMAIN wire /\ wire'[i] = wire[i + 1]
  BY <1>1
<1>3. \A r \in {W8, T2, R4, <<>>} :
        WsTakes(r) => ws' = r /\ ui' = ui /\ todo' \in [Tasks -> Seq(Steps)]
  BY WsTypes, Moves DEF WsTakes, SlotInv
<1>4. /\ WsTakes(Branch(f))
      /\ f.what = "auth_ok" => "greeting" \in Overlaps \/ ui = <<>>
      /\ Branch(f) = R4 => "answer" \in Overlaps \/ ~Requesting
  BY DEF Dispatch, Idle, ui, R4
<1>5. logged' \subseteq {"lovelace", "states"}
  BY DEF Dispatch, LogFailure, SlotInv, TypeOK
<1>6. \/ Branch(f) = W8 /\ f.what = "auth_ok"
      \/ Branch(f) \in {T2, <<>>}
      \/ Branch(f) = R4 /\ f.id = pid
  BY DEF Branch, W8, T2, R4
<1>7. QED
  BY <1>1, <1>2, <1>3, <1>4, <1>5, <1>6

LEMMA WsDispatches ==
  ASSUME SlotInv, "greeting" \notin Overlaps, Dispatch
  PROVE  SlotInv'
<1> USE DEF SlotInv
<1>1. /\ ui' = ui /\ link = "on"
      /\ frame' = wire[1] /\ 1 \in DOMAIN wire /\ wire[1] \in Frames
      /\ wire' \in Seq(Frames) /\ todo' \in [Tasks -> Seq(Steps)]
      /\ logged' \subseteq {"lovelace", "states"}
  BY WsTaking
<1>2. \A i \in DOMAIN wire' : i + 1 \in DOMAIN wire /\ wire'[i] = wire[i + 1]
  BY WsTaking
<1>3. \/ ws' = W8 /\ frame'.what = "auth_ok" /\ ui = <<>>
      \/ ws' \in {T2, <<>>, R4}
  BY WsTaking
<1>4. UNCHANGED <<reg, msgId, slot, statesId, store, uiSide, news, link,
                  sessions, asked, haId, reused, stale>>
  BY WsTaking
<1>5. TypeOK'
  BY <1>1, <1>4 DEF TypeOK, slot, store, uiSide
<1>6. UiAt'
  BY <1>1, <1>4 DEF UiAt, Older, Counted, slot
<1>7. WsAt'
  BY <1>1, <1>3 DEF WsAt
<1>8. (~reused)' /\ LinkInv'
  BY <1>1, <1>4 DEF LinkInv
<1>9. Transit'
  BY <1>2, <1>4 DEF Transit, slot
<1>10. QED
  BY <1>5, <1>6, <1>7, <1>8, <1>9

\* The other steps of the websocket task.
LEMMA WsHandling ==
  ASSUME SlotInv, TellConnected \/ ForgetStatesId \/ ApplyStates \/ Parse \/ Fill \/ FreeSlot
  PROVE  /\ ui' = ui /\ todo' \in [Tasks -> Seq(Steps)] /\ link \notin {"none", "connecting"}
         /\ TellConnected => ws = W1 /\ ws' = <<>>
         /\ ForgetStatesId => ws = T2 /\ ws' = T1
         /\ ApplyStates => ws = T1 /\ ws' = <<>>
         /\ Parse => ws = R4 /\ ws' \in {<<>>, R3}
         /\ Fill => ws = R3 /\ ws' = R2
         /\ FreeSlot => \/ ws = R2 /\ ws' = R1 /\ kind' = None /\ pid' = pid
                        \/ ws = R1 /\ ws' = <<>> /\ kind' = kind /\ pid' = NoId
<1> USE DEF SlotInv
<1> DEFINE rest == Tail(ws)
<1>1. ws # <<>> /\ rest \in Seq(Steps)
  <2>1. ws # <<>>
    BY DEF TellConnected, ForgetStatesId, ApplyStates, Parse, Fill, FreeSlot, At, ws
  <2>2. QED
    BY <2>1 DEF TypeOK, Tasks, ws
<1>2. Advance("ws") => ws' = rest /\ ui' = ui /\ todo' \in [Tasks -> Seq(Steps)]
  BY <1>1, Moves DEF Advance, ws
<1>3. WsTakes(<<>>) => ws' = <<>> /\ ui' = ui /\ todo' \in [Tasks -> Seq(Steps)]
  BY WsTypes, Moves DEF WsTakes
<1>4. /\ TellConnected => ws = W1 /\ Advance("ws")
      /\ ForgetStatesId => ws = T2 /\ Advance("ws")
      /\ ApplyStates => ws = T1 /\ Advance("ws")
      /\ Parse => ws = R4 /\ (Advance("ws") \/ WsTakes(<<>>))
      /\ Fill => ws = R3 /\ Advance("ws")
      /\ FreeSlot => \/ ws = R2 /\ Advance("ws") /\ kind' = None /\ pid' = pid
                     \/ ws = R1 /\ Advance("ws") /\ kind' = kind /\ pid' = NoId
  BY WsPlaces DEF TellConnected, ForgetStatesId, ApplyStates, Parse, Fill, FreeSlot
<1>5. /\ ws = W1 => rest = <<>>
      /\ ws = T2 => rest = T1
      /\ ws = T1 => rest = <<>>
      /\ ws = R4 => rest = R3
      /\ ws = R3 => rest = R2
      /\ ws = R2 => rest = R1
      /\ ws = R1 => rest = <<>>
  BY WsRests DEF Rest
<1>6. link \notin {"none", "connecting"}
  BY <1>1 DEF LinkInv
<1> HIDE DEF rest
<1>7. QED
  BY <1>2, <1>3, <1>4, <1>5, <1>6

LEMMA WsHandles ==
  ASSUME SlotInv, TellConnected \/ ForgetStatesId \/ ApplyStates \/ Parse \/ Fill \/ FreeSlot
  PROVE  SlotInv'
<1> USE DEF SlotInv
<1>1. ui' = ui /\ todo' \in [Tasks -> Seq(Steps)] /\ link \notin {"none", "connecting"}
  BY WsHandling
<1>2. ws' \in {<<>>, T1, R3, R2, R1}
  BY WsHandling
<1>3. /\ UNCHANGED <<reg, msgId, path, frame, uiSide, link, sessions, haSide, stale>>
         \/ (Fill /\ UNCHANGED <<reg, msgId, path, frame, saved, setup, link, sessions,
                                 haSide, stale>>)
      /\ pid' \in {pid, NoId}
      /\ kind' \in {kind, None}
      /\ statesId' \in {statesId, NoId}
  BY DEF TellConnected, ForgetStatesId, ApplyStates, Parse, Fill, FreeSlot, slot, uiSide
<1>4. UNCHANGED <<reg, msgId, path, frame, saved, setup, link, sessions, haSide, stale>>
  BY <1>3 DEF uiSide
<1>5. TypeOK'
  <2>1. news' \in Seq({"CONNECTED", "ENTITIES_LOADED"})
    <3>1. \/ news' = news \/ news' = Append(news, "ENTITIES_LOADED")
          \/ news' = Append(news, "CONNECTED")
      BY DEF TellConnected, ForgetStatesId, ApplyStates, Parse, Fill, FreeSlot
    <3>2. news \in Seq({"CONNECTED", "ENTITIES_LOADED"})
      BY DEF TypeOK
    <3>3. QED
      BY <3>1, <3>2
  <2>2. page' \in Views \cup {NoView}
    <3>1. page' = page \/ page' \in Matches
      BY DEF TellConnected, ForgetStatesId, ApplyStates, Parse, Fill, FreeSlot, store
    <3>2. Matches \subseteq Views \cup {NoView}
      BY SlotAssumption DEF Matches, TypeOK
    <3>3. QED
      BY <3>1, <3>2 DEF TypeOK
  <2>3. listed' \in BOOLEAN
    <3>1. listed' = listed \/ listed' \in BOOLEAN \/ listed' \in {FALSE}
      BY DEF TellConnected, ForgetStatesId, ApplyStates, Parse, Fill, FreeSlot, store
    <3>2. QED
      BY <3>1 DEF TypeOK
  <2>4. fresh' \in BOOLEAN
    <3>1. \/ fresh' = fresh \/ fresh' = FALSE
          \/ fresh' = (page # NoView /\ (fresh \/ frame.what = "states"))
      BY DEF TellConnected, ForgetStatesId, ApplyStates, Parse, Fill, FreeSlot, store
    <3>2. QED
      BY <3>1 DEF TypeOK
  <2>5. shown' \in BOOLEAN
    <3>1. shown' = shown \/ shown' = FALSE
      BY DEF TellConnected, ForgetStatesId, ApplyStates, Parse, Fill, FreeSlot, uiSide
    <3>2. QED
      BY <3>1 DEF TypeOK
  <2>6. logged' \subseteq {"lovelace", "states"}
    BY DEF TellConnected, ForgetStatesId, ApplyStates, Parse, Fill, FreeSlot, LogFailure, TypeOK
  <2>7. /\ pid' \in Nat \cup {NoId} /\ kind' \in {None, "views", "entities"}
        /\ statesId' \in Nat \cup {NoId}
    BY <1>3 DEF TypeOK
  <2>8. QED
    BY <1>1, <1>4, <2>1, <2>2, <2>3, <2>4, <2>5, <2>6, <2>7 DEF TypeOK, haSide
<1>6. UiAt'
  <2>1. CASE pid' = pid
    BY <1>1, <1>4, <2>1 DEF UiAt, Older, Counted, haSide
  <2>2. CASE pid' = NoId
    <3>1. NoId < msgId /\ NoId < reg["ui"]
      BY DEF TypeOK, Tasks, NoId
    <3>2. QED
      BY <1>1, <1>4, <2>2, <3>1 DEF UiAt, Older, Counted, haSide
  <2>3. QED
    BY <1>3, <2>1, <2>2
<1>7. WsAt'
  BY <1>2 DEF WsAt
<1>8. (~reused)' /\ LinkInv'
  BY <1>1, <1>4 DEF LinkInv, haSide
<1>9. Transit'
  BY <1>3, <1>4, TransitTypes DEF Transit, haSide, NoId
<1>10. QED
  BY <1>5, <1>6, <1>7, <1>8, <1>9

\* HA, and the life of the session.
LEMMA LinkSteps ==
  ASSUME SlotInv, HaAnswers \/ AuthOk \/ LinkLost \/ DestroyClient \/ Connect
  PROVE  SlotInv'
<1> USE DEF SlotInv
<1>1. CASE HaAnswers
  <2>1. PICK r \in asked : /\ asked' = asked \ {r}
                           /\ wire' = Append(wire, [what |-> r.what, id |-> r.id, good |-> TRUE])
    BY <1>1 DEF HaAnswers
  <2> DEFINE new == [what |-> r.what, id |-> r.id, good |-> TRUE]
  <2>2. /\ link = "on" /\ UNCHANGED <<todo, reg, msgId, slot, statesId, frame, store,
                              uiSide, news, link, sessions, haId, reused, stale, logged>>
        /\ ui' = ui /\ ws' = ws
    BY <1>1 DEF HaAnswers, ui, ws
  <2>3. /\ r \in [what : {"lovelace", "call"}, id : Nat] /\ wire \in Seq(Frames)
        /\ asked' \subseteq [what : {"lovelace", "call"}, id : Nat]
    BY <2>1 DEF TypeOK
  <2>4. new \in Frames /\ new.id = r.id /\ new.what = r.what
    BY <2>3 DEF Frames
  <2>5. /\ wire' \in Seq(Frames)
        /\ \A i \in DOMAIN wire' : (i \in DOMAIN wire /\ wire'[i] = wire[i]) \/ wire'[i] = new
    BY <2>1, <2>3, <2>4
  <2>6. TypeOK'
    BY <2>2, <2>3, <2>5 DEF TypeOK, slot, store, uiSide
  <2>7. UiAt' /\ WsAt'
    BY <2>2 DEF UiAt, WsAt, Older, Counted, slot
  <2>8. (~reused)' /\ LinkInv'
    BY <2>2 DEF LinkInv
  <2>9. Transit'
    BY <2>1, <2>2, <2>4, <2>5 DEF Transit, slot
  <2>10. QED
    BY <2>6, <2>7, <2>8, <2>9
<1>2. CASE AuthOk
  <2>1. /\ link = "connecting" /\ link' = "on" /\ haId' = 0 /\ wire' = <<NoFrame>>
        /\ UNCHANGED <<todo, reg, msgId, slot, statesId, frame, store, uiSide, news,
                       sessions, asked, reused, stale, logged>>
        /\ ui' = ui /\ ws' = ws
    BY <1>2 DEF AuthOk, ui, ws
  <2>2. ws = <<>> /\ asked = {}
    BY <2>1 DEF LinkInv
  <2>3. NoFrame \in Frames /\ NoFrame.id = 0
    BY DEF NoFrame, Frames
  <2>4. msgId \in Nat \ {0} /\ reg["ui"] \in Nat /\ link' \in {"none", "connecting", "on", "lost"}
    BY <2>1 DEF TypeOK, Tasks
  <2>5. TypeOK'
    BY <2>1, <2>3, <2>4 DEF TypeOK, slot, store, uiSide
  <2>6. Counted("ui") => Counted("ui")'
    BY <2>1, <2>4 DEF Counted
  <2>7. UiAt' /\ WsAt'
    BY <2>1, <2>2, <2>6 DEF UiAt, WsAt, Older, slot
  <2>8. (~reused)' /\ LinkInv'
    BY <2>1, <2>2, <2>4 DEF LinkInv
  <2>9. Transit'
    <3>1. wire' \in Seq(Frames) /\ \A i \in DOMAIN wire' : wire'[i] = NoFrame
      BY <2>1, <2>3
    <3>2. QED
      BY <2>1, <2>2, <2>3, <2>4, <3>1 DEF Transit, slot
  <2>10. QED
    BY <2>5, <2>7, <2>8, <2>9
<1>3. CASE LinkLost \/ DestroyClient
  <2>1. /\ link' \in {"lost", "none"} /\ wire' = <<>> /\ asked' = {}
        /\ link' = "none" => ws = <<>>
        /\ UNCHANGED <<todo, reg, msgId, slot, statesId, frame, store, uiSide, news,
                       sessions, haId, reused, stale, logged>>
        /\ ui' = ui /\ ws' = ws
    BY <1>3 DEF LinkLost, DestroyClient, Idle, ui, ws
  <2>2. TypeOK'
    BY <2>1 DEF TypeOK, slot, store, uiSide
  <2>3. UiAt' /\ WsAt'
    BY <2>1 DEF UiAt, WsAt, Older, Counted, slot
  <2>4. (~reused)' /\ LinkInv' /\ Transit'
    BY <2>1 DEF LinkInv, Transit, slot
  <2>5. QED
    BY <2>2, <2>3, <2>4
<1>4. CASE Connect
  <2>1. /\ link = "none" /\ ui = <<>> /\ sessions' = sessions + 1
        /\ link' = "connecting" /\ msgId' = 1 /\ stale' = TRUE
        /\ UNCHANGED <<todo, reg, slot, statesId, frame, store, uiSide, news, haSide, logged>>
        /\ ui' = ui /\ ws' = ws
    BY <1>4 DEF Connect, Idle, ui, ws
  <2>2. ws = <<>> /\ wire = <<>> /\ asked = {}
    BY <2>1 DEF LinkInv
  <2>3. TypeOK'
    <3>1. sessions' \in Nat /\ msgId' \in Nat \ {0} /\ stale' \in BOOLEAN
      BY <2>1 DEF TypeOK
    <3>2. QED
      BY <2>1, <3>1 DEF TypeOK, slot, store, uiSide, haSide
  <2>4. UiAt' /\ WsAt'
    BY <2>1, <2>2 DEF UiAt, WsAt, Older
  <2>5. (~reused)' /\ LinkInv' /\ Transit'
    BY <2>1, <2>2 DEF LinkInv, Transit, slot, haSide
  <2>6. QED
    BY <2>3, <2>4, <2>5
<1>5. QED
  BY <1>1, <1>2, <1>3, <1>4

\* SlotInv is inductive.
LEMMA SlotInvStarts == Init => SlotInv
<1> SUFFICES ASSUME Init
             PROVE  SlotInv
  OBVIOUS
<1>1. ui = <<>> /\ ws = <<>> /\ todo \in [Tasks -> Seq(Steps)] /\ reg \in [Tasks -> Nat]
  BY UiTypes DEF Init, ui, ws, Tasks
<1>2. NoFrame \in Frames
  BY DEF NoFrame, Frames
<1>3. TypeOK
  <2>1. /\ listed \in BOOLEAN /\ fresh \in BOOLEAN /\ shown \in BOOLEAN
        /\ setup \in BOOLEAN /\ reused \in BOOLEAN /\ stale \in BOOLEAN
    BY DEF Init
  <2>2. QED
    BY <1>1, <1>2, <2>1 DEF Init, TypeOK, NoId
<1>4. UiAt /\ WsAt /\ LinkInv /\ Transit /\ ~reused
  BY <1>1 DEF Init, UiAt, WsAt, LinkInv, Transit, Older, NoId
<1>5. QED
  BY <1>3, <1>4 DEF SlotInv

LEMMA SlotInvStays ==
  ASSUME "greeting" \notin Overlaps, SlotInv, [Next]_vars
  PROVE  SlotInv'
<1>1. CASE UNCHANGED vars
  BY <1>1 DEF vars, slot, store, uiSide, haSide, SlotInv, TypeOK, UiAt, WsAt, LinkInv,
              Transit, Older, Counted, ui, ws
<1>2. CASE Next
  BY <1>2, UiCalls, WsCalls, UiBegins, WsDispatches, WsHandles, LinkSteps
     DEF Next, UiTask, WsTask, HaTask
<1>3. QED
  BY <1>1, <1>2

LEMMA SlotInvHolds ==
  ASSUME "greeting" \notin Overlaps
  PROVE  Spec => []SlotInv
<1>1. SlotInv /\ [Next]_vars => SlotInv'
  BY SlotInvStays
<1>2. QED
  BY <1>1, SlotInvStarts, PTL DEF Spec

----------------------------------------------------------------------------
(* The answer that is taken, and the page that is served                   *)

\* The calls that write the slot, and what takes an answer for it.
Requests == {A0, A1, V0, V1, V2, V3, L3, L2, L1}
Results  == {R1, R2, R3, R4}

\* The last steps of the calls tell them from the others.
LEMMA Lasts ==
  /\ \A r \in Requests : r # <<>> /\ r[Len(r)] = "lovelace"
  /\ \A r \in {S4, S3, S2, S1} : r = <<>> \/ r[Len(r)] # "lovelace"
  /\ \A r \in {C3, C2, C1} : r = <<>> \/ r[Len(r)] # "lovelace"
  /\ \A r \in Results : r # <<>> /\ r[Len(r)] = "freeId"
  /\ \A r \in {T2, T1} : r = <<>> \/ r[Len(r)] # "freeId"
  /\ \A r \in {W1, W2, W3, W4, W5, W6, W7, W8} : r = <<>> \/ r[Len(r)] # "freeId"
<1>1. /\ A0[Len(A0)] = "lovelace" /\ A1[Len(A1)] = "lovelace" /\ A0 # <<>> /\ A1 # <<>>
      /\ L3[Len(L3)] = "lovelace" /\ L2[Len(L2)] = "lovelace" /\ L1[Len(L1)] = "lovelace"
      /\ L1 # <<>> /\ L2 # <<>> /\ L3 # <<>>
  BY DEF A0, A1, L3, L2, L1, RequestAll
<1>2. /\ V0[Len(V0)] = "lovelace" /\ V1[Len(V1)] = "lovelace" /\ V0 # <<>> /\ V1 # <<>>
      /\ V2[Len(V2)] = "lovelace" /\ V3[Len(V3)] = "lovelace" /\ V2 # <<>> /\ V3 # <<>>
  BY DEF V0, V1, V2, V3, RequestView
<1>3. /\ S4[Len(S4)] = "states" /\ S3[Len(S3)] = "states"
      /\ S2[Len(S2)] = "states" /\ S1[Len(S1)] = "states"
      /\ C3[Len(C3)] = "call" /\ C2[Len(C2)] = "call" /\ C1[Len(C1)] = "call"
  BY DEF S4, S3, S2, S1, C3, C2, C1, GetStates, CallService
<1>4. /\ R4[Len(R4)] = "freeId" /\ R3[Len(R3)] = "freeId" /\ R4 # <<>> /\ R3 # <<>>
      /\ R2[Len(R2)] = "freeId" /\ R1[Len(R1)] = "freeId" /\ R2 # <<>> /\ R1 # <<>>
      /\ T2[Len(T2)] = "applyStates" /\ T1[Len(T1)] = "applyStates"
  BY DEF R4, R3, R2, R1, T2, T1, TakeResult, TakeStates
<1>5. /\ W8[Len(W8)] = "tellConnected" /\ W7[Len(W7)] = "tellConnected"
      /\ W6[Len(W6)] = "tellConnected" /\ W5[Len(W5)] = "tellConnected"
      /\ W4[Len(W4)] = "tellConnected" /\ W3[Len(W3)] = "tellConnected"
      /\ W2[Len(W2)] = "tellConnected" /\ W1[Len(W1)] = "tellConnected"
  BY DEF W8, W7, W6, W5, W4, W3, W2, W1, AfterAuth
<1>6. QED
  BY <1>1, <1>2, <1>3, <1>4, <1>5 DEF Requests, Results

LEMMA Calls ==
  /\ UiAt => (Requesting <=> ui \in Requests)
  /\ WsAt => (Filling <=> ws \in Results)
<1>1. ASSUME UiAt PROVE Requesting <=> ui \in Requests
  <2>1. ui = <<>> \/ ui \in Requests \/ ui \in {S4, S3, S2, S1} \/ ui \in {C3, C2, C1}
    BY <1>1 DEF UiAt, Requests
  <2>2. Requesting <=> ui # <<>> /\ ui[Len(ui)] = "lovelace"
    BY DEF Requesting, ui
  <2>3. ui \in Requests => ui # <<>> /\ ui[Len(ui)] = "lovelace"
    BY Lasts
  <2>4. ui \in {S4, S3, S2, S1} \/ ui \in {C3, C2, C1} =>
          /\ ui = <<>> \/ ui[Len(ui)] # "lovelace"
          /\ ui \notin Requests
    BY Lasts
  <2>5. <<>> \notin Requests
    BY Lasts
  <2>6. QED
    BY <2>1, <2>2, <2>3, <2>4, <2>5
<1>2. ASSUME WsAt PROVE Filling <=> ws \in Results
  <2>1. \/ ws = <<>> \/ ws \in Results \/ ws \in {T2, T1}
        \/ ws \in {W1, W2, W3, W4, W5, W6, W7, W8}
    BY <1>2 DEF WsAt, Results
  <2>2. Filling <=> ws # <<>> /\ ws[Len(ws)] = "freeId"
    BY DEF Filling, ws
  <2>3. ws \in Results => ws # <<>> /\ ws[Len(ws)] = "freeId"
    BY Lasts
  <2>4. ws \in {T2, T1} \/ ws \in {W1, W2, W3, W4, W5, W6, W7, W8} =>
          /\ ws = <<>> \/ ws[Len(ws)] # "freeId"
          /\ ws \notin Results
    BY Lasts
  <2>5. <<>> \notin Results
    BY Lasts
  <2>6. QED
    BY <2>1, <2>2, <2>3, <2>4, <2>5
<1>3. QED
  BY <1>1, <1>2

\* The same of the next state.
LEMMA CallsNext == ASSUME WsAt' PROVE Filling' <=> ws' \in Results
<1>1. \/ ws' = <<>> \/ ws' \in Results \/ ws' \in {T2, T1}
      \/ ws' \in {W1, W2, W3, W4, W5, W6, W7, W8}
  BY DEF WsAt, Results
<1>2. Filling' <=> ws' # <<>> /\ ws'[Len(ws')] = "freeId"
  BY DEF Filling, ws
<1>3. ws' \in Results => ws' # <<>> /\ ws'[Len(ws')] = "freeId"
  BY Lasts
<1>4. ws' \in {T2, T1} \/ ws' \in {W1, W2, W3, W4, W5, W6, W7, W8} =>
        /\ ws' = <<>> \/ ws'[Len(ws')] # "freeId"
        /\ ws' \notin Results
  BY Lasts
<1>5. <<>> \notin Results
  BY Lasts
<1>6. QED
  BY <1>1, <1>2, <1>3, <1>4, <1>5

\* The places of a request, one from the other and from all the others.
LEMMA RequestPlaces ==
  /\ <<>> \notin Requests /\ S4 \notin Requests /\ S3 \notin Requests /\ S2 \notin Requests
  /\ S1 \notin Requests /\ C3 \notin Requests /\ C2 \notin Requests /\ C1 \notin Requests
  /\ A0 \notin {A1, V0, V1, V2, V3, L3, L2, L1}
  /\ A1 \notin {V0, V1, V2, V3, L3, L2, L1}
  /\ V0 \notin {V1, V2, V3, L3, L2, L1} /\ V1 \notin {V2, V3, L3, L2, L1}
  /\ V2 \notin {V3, L3, L2, L1} /\ V3 \notin {L3, L2, L1}
<1>1. /\ <<>> \notin Requests /\ S4 \notin Requests /\ S3 \notin Requests /\ S2 \notin Requests
      /\ S1 \notin Requests /\ C3 \notin Requests /\ C2 \notin Requests /\ C1 \notin Requests
  BY UiGroups, UiRests DEF Requests, Blank, Rest
<1>2. V2 # L3
  BY UiRests DEF Rest
<1>3. A0 \notin {A1, V0, V1, V2, V3, L3, L2, L1} /\ A1 \notin {V0, V1, V2, V3, L3, L2, L1}
  BY <1>2, UiRests DEF Rest
<1>4. V0 \notin {V1, V2, V3, L3, L2, L1} /\ V1 \notin {V2, V3, L3, L2, L1}
  BY UiRests DEF Rest
<1>5. V2 \notin {V3, L3, L2, L1} /\ V3 \notin {L3, L2, L1}
  BY UiRests DEF Rest
<1>6. QED
  BY <1>1, <1>3, <1>4, <1>5

\* The places of an answer to the slot.
LEMMA ResultPlaces ==
  /\ <<>> \notin Results /\ T1 \notin Results /\ T2 \notin Results
  /\ \A w \in {W1, W2, W3, W4, W5, W6, W7, W8} : w \notin Results
  /\ R1 \notin {R2, R3, R4} /\ R2 \notin {R3, R4} /\ R3 # R4
<1>1. R1 \notin {R2, R3, R4} /\ R2 \notin {R3, R4} /\ R3 # R4
  BY WsRests DEF Rest
<1>2. QED
  BY <1>1, WsGroups DEF Results

\* The websocket task only begins to fill the slot when it takes a message,
\* and that has the id of the slot.
LEMMA FillBegins ==
  ASSUME SlotInv, [Next]_vars, ws \notin Results, ws' \in Results
  PROVE  Dispatch /\ ws' = R4 /\ frame'.id = pid
<1>1. ws' # ws
  OBVIOUS
<1>2. ~UNCHANGED vars
  BY <1>1 DEF vars, ws
<1>3. ~Shared("ui")
  <2>1. ASSUME Shared("ui") PROVE FALSE
    <3>1. Advance("ui") /\ todo \in [Tasks -> Seq(Steps)]
      BY <2>1 DEF Shared, WriteKind, WriteSlotId, WritePath, WriteStatesId, TakeId, BumpId,
             SendJson, SlotInv, TypeOK
    <3>2. ws' = ws
      BY <3>1 DEF Advance, Tasks, ws
    <3>3. QED
      BY <1>1, <3>2
  <2>2. QED
    BY <2>1
<1>4. ~(HandleConnected \/ HandleEntitiesLoaded \/ UserTap)
  BY <1>1, UiBeginning DEF SlotInv
<1>5. ~Shared("ws")
  <2>1. ASSUME Shared("ws") PROVE FALSE
    <3>1. ws' \in {W1, W2, W3, W4, W5, W6, W7}
      BY <2>1, WsSends
    <3>2. QED
      BY <3>1, ResultPlaces
  <2>2. QED
    BY <2>1
<1>6. ~(TellConnected \/ ForgetStatesId \/ ApplyStates \/ Parse \/ Fill \/ FreeSlot)
  <2>1. ASSUME TellConnected \/ ForgetStatesId \/ ApplyStates \/ Parse \/ Fill \/ FreeSlot
        PROVE  FALSE
    <3>1. ws \in Results \/ ws' \in {<<>>, T1}
      BY <2>1, WsHandling DEF Results
    <3>2. QED
      BY <3>1, ResultPlaces
  <2>2. QED
    BY <2>1
<1>7. ~(HaAnswers \/ AuthOk \/ LinkLost \/ DestroyClient \/ Connect)
  BY <1>1 DEF HaAnswers, AuthOk, LinkLost, DestroyClient, Connect, ws
<1>8. Dispatch
  BY <1>2, <1>3, <1>4, <1>5, <1>6, <1>7 DEF Next, UiTask, WsTask, HaTask
<1>9. QED
  BY <1>8, WsTaking, ResultPlaces

\* What the slot names is what the user selected last.
Right == path = saved /\ saved \in Views

\* Where the calls and the answers are, and what that says of the slot.
ServeInv ==
  /\ ui \in Requests => ws \notin Results
  /\ ui = A1 => kind = "views"
  /\ ui \in {V1, V2, V3} => kind = "entities"
  /\ ui \in {V0, V1, V2, V3} => saved \in Views
  /\ ui \in {L3, L2, L1} => (kind = "entities" => Right)
  /\ ui \notin Requests /\ kind = "entities" /\ ~stale /\ link # "none" => Right
  /\ stale => /\ \A i \in DOMAIN wire : wire[i].what # "lovelace"
              /\ \A r \in asked : r.what # "lovelace"
  /\ ws = R4 /\ stale => frame.what # "lovelace"
  /\ ws = R3 /\ stale => ~listed

\* No lovelace request or answer is in transit.
Quiet ==
  /\ \A i \in DOMAIN wire : wire[i].what # "lovelace"
  /\ \A r \in asked : r.what # "lovelace"

\* That stays so when HA gets a message of another kind.
LEMMA QuietStays ==
  ASSUME SlotInv, Quiet, NEW what \in Sends, what # "lovelace", NEW id,
         UNCHANGED <<wire, asked>> \/ Receive(what, id)
  PROVE  Quiet'
<1>1. CASE UNCHANGED <<wire, asked>>
  BY <1>1 DEF Quiet
<1>2. ASSUME NEW f, f.what = what, wire' = Append(wire, f), asked' = asked
      PROVE  Quiet'
  <2>1. wire \in Seq(Frames)
    BY DEF SlotInv, TypeOK
  <2>2. \A i \in DOMAIN wire' : (i \in DOMAIN wire /\ wire'[i] = wire[i]) \/ wire'[i] = f
    BY <1>2, <2>1
  <2>3. QED
    BY <1>2, <2>2 DEF Quiet
<1>3. ASSUME NEW r, r.what = what, wire' = wire, asked' = asked \cup {r}
      PROVE  Quiet'
  BY <1>3 DEF Quiet
<1>4. CASE Receive(what, id)
  <2>1. \/ /\ asked' = asked
           /\ \/ wire' = Append(wire, [what |-> what, id |-> id, good |-> TRUE])
              \/ wire' = Append(wire, [what |-> what, id |-> id, good |-> FALSE])
        \/ wire' = wire /\ asked' = asked \cup {[what |-> what, id |-> id]}
    BY <1>4 DEF Receive
  <2>2. QED
    BY <1>2, <1>3, <2>1
<1>5. QED
  BY <1>1, <1>4

\* A step of a call of the UI task.
LEMMA ServeUi ==
  ASSUME SlotInv, ServeInv, Shared("ui")
  PROVE  ServeInv' /\ UNCHANGED <<saved, page>>
<1>1. ui # <<>> /\ UiAt /\ todo \in [Tasks -> Seq(Steps)]
  BY DEF SlotInv, TypeOK, Shared, WriteKind, WriteSlotId, WritePath, WriteStatesId, TakeId,
         BumpId, SendJson, At, ui
<1>2. Advance("ui") => ui' = Tail(ui) /\ ws' = ws
  BY <1>1 DEF Advance, Tasks, ui, ws
<1>3. CASE WriteKind("ui")
  <2>1. \/ ui = A0 /\ ui' = A1 /\ kind' = "views"
        \/ ui = V0 /\ ui' = V1 /\ kind' = "entities"
    BY <1>1, <1>2, <1>3, UiPlaces, UiRests DEF WriteKind, Rest
  <2>2. /\ ws' = ws
        /\ UNCHANGED <<path, listed, saved, page, wire, asked, frame, stale, link>>
    BY <1>2, <1>3 DEF WriteKind, haSide, store, uiSide
  <2>3. QED
    BY <2>1, <2>2, RequestPlaces DEF ServeInv, Requests
<1>4. CASE WriteSlotId("ui")
  <2>1. \/ ui = A1 /\ ui' = L3
        \/ ui = V1 /\ ui' = V2
    BY <1>1, <1>2, <1>4, UiPlaces, UiRests DEF WriteSlotId, Rest
  <2>2. /\ ws' = ws /\ stale' = FALSE
        /\ UNCHANGED <<kind, path, listed, saved, page, wire, asked, frame, link>>
    BY <1>2, <1>4 DEF WriteSlotId, haSide, store, uiSide
  <2>3. QED
    BY <2>1, <2>2, RequestPlaces DEF ServeInv, Requests
<1>5. CASE WritePath("ui")
  <2>1. \/ ui = V2 /\ ui' = V3
        \/ ui = V3 /\ ui' = L3 /\ path' = saved
    BY <1>1, <1>2, <1>5, UiPlaces, UiRests DEF WritePath, Rest
  <2>2. /\ ws' = ws
        /\ UNCHANGED <<kind, listed, saved, page, wire, asked, frame, stale, link>>
    BY <1>2, <1>5 DEF WritePath, haSide, store, uiSide
  <2>3. QED
    BY <2>1, <2>2, RequestPlaces DEF ServeInv, Requests, Right
<1>6. CASE WriteStatesId("ui") \/ TakeId("ui") \/ BumpId("ui")
  <2>1. \/ ui \in {S4, C3, S3, S2, C2} /\ ui' \in {S3, C2, S2, S1, C1}
        \/ ui \in {L3, L2} /\ ui' \in {L2, L1}
    <3>1. WriteStatesId("ui") => ui = S4 /\ ui' = S3
      BY <1>1, <1>2, UiPlaces, UiRests DEF WriteStatesId, Rest
    <3>2. TakeId("ui") => \/ ui = L3 /\ ui' = L2
                          \/ ui \in {C3, S3} /\ ui' \in {C2, S2}
      BY <1>1, <1>2, UiPlaces, UiRests DEF TakeId, Rest
    <3>3. BumpId("ui") => \/ ui = L2 /\ ui' = L1
                          \/ ui \in {C2, S2} /\ ui' \in {C1, S1}
      BY <1>1, <1>2, UiPlaces, UiRests DEF BumpId, Rest
    <3>4. QED
      BY <1>6, <3>1, <3>2, <3>3
  <2>2. /\ ws' = ws
        /\ UNCHANGED <<kind, path, listed, saved, page, wire, asked, frame, stale, link>>
    BY <1>2, <1>6 DEF WriteStatesId, TakeId, BumpId, haSide, store, uiSide, slot
  <2>3. QED
    BY <2>1, <2>2, RequestPlaces DEF ServeInv, Requests, Right
<1>7. CASE SendJson("ui")
  <2>1. /\ ui \in {L1, C1, S1} /\ ui' = <<>>
        /\ Head(ui) = "lovelace" => ui = L1
    BY <1>1, <1>2, <1>7, UiPlaces, UiRests DEF SendJson, Rest, Sends, At, ui
  <2>2. /\ ws' = ws /\ UNCHANGED <<kind, path, listed, saved, page, frame, stale>>
        /\ link = "none" => link' = "none"
    BY <1>2, <1>7 DEF SendJson, store, uiSide, slot
  <2>3. stale' => Quiet'
    <3>1. SUFFICES ASSUME stale
                   PROVE  Quiet'
      BY <2>2
    <3>2. Head(ui) \in Sends /\ Head(ui) # "lovelace"
      BY <1>1, <1>7, <2>1, <3>1, UiKnows DEF SendJson, ui
    <3>3. UNCHANGED <<wire, asked>> \/ Receive(Head(ui), reg["ui"])
      BY <1>7 DEF SendJson, haSide, ui
    <3>4. QED
      BY <3>1, <3>2, <3>3, QuietStays DEF ServeInv, Quiet
  <2>4. ui' \notin Requests
    BY <2>1, RequestPlaces
  <2>5. kind = "entities" /\ ~stale /\ link' # "none" => Right
    <3>1. CASE ui = L1
      BY <3>1 DEF ServeInv
    <3>2. CASE ui \in {C1, S1}
      BY <2>2, <3>2, RequestPlaces DEF ServeInv
    <3>3. QED
      BY <2>1, <3>1, <3>2
  <2>6. ui' \notin {A1, V0, V1, V2, V3, L3, L2, L1}
    BY <2>4 DEF Requests
  <2>7. QED
    BY <2>2, <2>3, <2>4, <2>5, <2>6 DEF ServeInv, Right, Quiet
<1>8. QED
  BY <1>3, <1>4, <1>5, <1>6, <1>7 DEF Shared

\* A step of the call after auth_ok, while the UI task rests.
LEMMA ServeGreeting ==
  ASSUME SlotInv, ServeInv, Shared("ws")
  PROVE  ServeInv' /\ UNCHANGED <<saved, page>>
<1>1. /\ ws' \in {W1, W2, W3, W4, W5, W6, W7} /\ ui' = ui
      /\ WriteStatesId("ws") \/ TakeId("ws") \/ BumpId("ws") \/ SendJson("ws")
      /\ SendJson("ws") => Head(ws) # "lovelace"
  BY WsSends
<1>2. /\ UNCHANGED <<kind, path, listed, saved, page, stale, frame>>
      /\ link = "none" => link' = "none"
  BY <1>1 DEF WriteStatesId, TakeId, BumpId, SendJson, slot, store, uiSide
<1>3. stale' => Quiet'
  <2>1. SUFFICES ASSUME stale
                 PROVE  Quiet'
    BY <1>2
  <2>2. UNCHANGED <<wire, asked>> \/ (SendJson("ws") /\ Receive(Head(ws), reg["ws"]))
    BY <1>1 DEF WriteStatesId, TakeId, BumpId, SendJson, haSide, ws
  <2>3. CASE UNCHANGED <<wire, asked>>
    BY <2>1, <2>3 DEF ServeInv, Quiet
  <2>4. CASE SendJson("ws") /\ Receive(Head(ws), reg["ws"])
    <3>1. Head(ws) \in Sends /\ Head(ws) # "lovelace"
      BY <1>1, <2>4 DEF SendJson, ws
    <3>2. QED
      BY <2>1, <2>4, <3>1, QuietStays DEF ServeInv, Quiet
  <2>5. QED
    BY <2>2, <2>3, <2>4
<1>4. ws' \notin Results /\ ws' \notin {R3, R4}
  BY <1>1, ResultPlaces DEF Results
<1>5. Right' = Right
  BY <1>2 DEF Right
<1>6. kind' = "entities" /\ ~stale' /\ ui' \notin Requests /\ link' # "none" => Right
  BY <1>1, <1>2 DEF ServeInv
<1>7. ServeInv'
  BY <1>1, <1>2, <1>3, <1>4, <1>5, <1>6 DEF ServeInv, Quiet
<1>8. QED
  BY <1>2, <1>7

\* The UI task takes an event, or the user taps.
LEMMA ServeBegins ==
  ASSUME Overlaps = {}, SlotInv, ServeInv,
         HandleConnected \/ HandleEntitiesLoaded \/ UserTap
  PROVE  ServeInv' /\ (Service!Next \/ UNCHANGED <<saved, page>>)
<1>1. /\ ui = <<>> /\ ws' = ws /\ ui' \in {<<>>, A0, V0, C3, S4}
      /\ UNCHANGED <<kind, path, frame, listed, page, link, wire, asked, stale>>
      /\ ui' \in {A0, V0} => MayRequest
  BY UiBeginning DEF SlotInv, slot, store, haSide
<1>2. ui' \in {A0, V0} => ws \notin Results
  BY <1>1, Calls DEF MayRequest, SlotInv
<1>3. \/ saved' = saved /\ ui' # V0
      \/ saved' \in Views /\ ui' = V0
      \/ saved' \in Views /\ link = "none" /\ ui' = <<>>
  <2>1. todo \in [Tasks -> Seq(Steps)]
    BY DEF SlotInv, TypeOK
  <2>2. \A r : UiCall(r) => ui' = r
    BY <2>1 DEF UiCall, Tasks, ui
  <2>3. V0 \notin {<<>>, A0, C3, S4}
    BY RequestPlaces DEF Requests
  <2>4. CASE HandleConnected
    <3>1. \/ todo' = todo /\ saved' = saved
          \/ saved' = saved /\ UiCall(IF link = "none" THEN <<>> ELSE A0)
          \/ saved' \in Views /\ UiCall(IF link = "none" THEN <<>> ELSE V0)
      BY <2>4 DEF HandleConnected, A0, V0
    <3>2. todo' = todo => ui' = <<>>
      BY <1>1 DEF ui
    <3>3. QED
      BY <2>2, <2>3, <3>1, <3>2
  <2>5. CASE HandleEntitiesLoaded
    <3>1. saved' = saved /\ (todo' = todo \/ UiCall(IF link = "none" THEN <<>> ELSE S4))
      BY <2>5 DEF HandleEntitiesLoaded, S4
    <3>2. todo' = todo => ui' = <<>>
      BY <1>1 DEF ui
    <3>3. QED
      BY <2>2, <2>3, <3>1, <3>2
  <2>6. CASE UserTap
    <3>1. \/ todo' = todo /\ saved' = saved
          \/ saved' \in Views /\ UiCall(IF link = "none" THEN <<>> ELSE V0)
          \/ saved' = saved /\ (UiCall(A0) \/ UiCall(C3))
      BY <2>6 DEF UserTap, TapRefresh, TapCommand, TapView, OpenSetup, ExitSetup, uiSide,
                  A0, V0, C3
    <3>2. todo' = todo => ui' = <<>>
      BY <1>1 DEF ui
    <3>3. QED
      BY <2>2, <2>3, <3>1, <3>2
  <2>7. QED
    BY <2>4, <2>5, <2>6
<1>4. ui \notin Requests /\ (ui' \in Requests => ui' \in {A0, V0})
  BY <1>1, RequestPlaces
<1>5. ui' \notin {A1, V1, V2, V3, L3, L2, L1} /\ A0 \in Requests /\ V0 \in Requests
  BY <1>1, RequestPlaces DEF Requests
<1>6. ui' = A0 => ui' # V0
  BY RequestPlaces
<1>7. ServeInv'
  BY <1>1, <1>2, <1>3, <1>4, <1>5, <1>6 DEF ServeInv, Right
<1>8. UNCHANGED <<saved, page>> \/ Service!Next
  BY <1>1, <1>3 DEF Service!Next, Service!Select
<1>9. QED
  BY <1>7, <1>8

\* An answer is not taken while the UI task requests another.
LEMMA ServeDispatch ==
  ASSUME Overlaps = {}, SlotInv, ServeInv, Dispatch
  PROVE  ServeInv' /\ UNCHANGED <<saved, page>>
<1>1. /\ ui' = ui /\ frame' = wire[1] /\ 1 \in DOMAIN wire
      /\ UNCHANGED <<kind, path, listed, saved, page, link, asked, stale>>
  BY WsTaking DEF slot, store, uiSide
<1>2. \A i \in DOMAIN wire' : i + 1 \in DOMAIN wire /\ wire'[i] = wire[i + 1]
  BY WsTaking
<1>3. \/ ws' = R4 /\ ui \notin Requests
      \/ ws' \notin Results
  BY WsTaking, Calls, ResultPlaces DEF SlotInv
<1>4. stale' => \A i \in DOMAIN wire' : wire'[i].what # "lovelace"
  BY <1>1, <1>2 DEF ServeInv
<1>5. stale' => frame'.what # "lovelace"
  BY <1>1 DEF ServeInv
<1>6. R4 # R3 /\ R4 \in Results /\ R3 \in Results
  BY ResultPlaces DEF Results
<1>7. QED
  BY <1>1, <1>3, <1>4, <1>5, <1>6 DEF ServeInv, Right

\* The handler of the websocket task goes on.
LEMMA ServeHandles ==
  ASSUME SlotInv, ServeInv,
         TellConnected \/ ForgetStatesId \/ ApplyStates \/ Parse \/ Fill \/ FreeSlot
  PROVE  ServeInv' /\ (Service!Next \/ UNCHANGED <<saved, page>>)
<1>1. ui' = ui /\ link \notin {"none", "connecting"}
  BY WsHandling
<1>2. UNCHANGED <<path, saved, frame, link, wire, asked, stale>>
  BY DEF TellConnected, ForgetStatesId, ApplyStates, Parse, Fill, FreeSlot, slot, uiSide,
         haSide
<1>3. CASE TellConnected \/ ForgetStatesId \/ ApplyStates
  <2>1. ws' \notin Results
    BY <1>3, WsHandling, ResultPlaces
  <2>2. UNCHANGED <<kind, listed, page>>
    BY <1>3 DEF TellConnected, ForgetStatesId, ApplyStates, slot, store
  <2>3. QED
    BY <1>1, <1>2, <2>1, <2>2 DEF ServeInv, Right, Results
<1>4. CASE Parse
  <2>1. ws = R4 /\ ws' \in {<<>>, R3} /\ UNCHANGED <<kind, page>>
    BY <1>4, WsHandling DEF Parse, slot
  <2>2. ws' = R3 => listed' = FALSE \/ frame.what = "lovelace"
    <3>1. \/ WsTakes(<<>>)
          \/ listed' \in (IF frame.what = "lovelace" THEN BOOLEAN ELSE {FALSE})
      BY <1>4 DEF Parse
    <3>2. WsTakes(<<>>) => ws' = <<>>
      BY DEF WsTakes, ws, SlotInv, TypeOK, Tasks
    <3>3. R3 # <<>>
      BY ResultPlaces DEF Results
    <3>4. QED
      BY <3>1, <3>2, <3>3
  <2>3. /\ ws \in Results /\ R4 # R3 /\ R4 # <<>>
        /\ ws' # R4
    BY <2>1, ResultPlaces DEF Results
  <2>4. QED
    BY <1>1, <1>2, <2>1, <2>2, <2>3 DEF ServeInv, Right
<1>5. CASE Fill
  <2>1. ws = R3 /\ ws' = R2 /\ ui \notin Requests /\ R2 \notin {R3, R4}
    BY <1>5, WsHandling, ResultPlaces DEF ServeInv, Results
  <2>2. UNCHANGED <<kind, listed>>
    BY <1>5 DEF Fill, slot
  <2>3. ServeInv'
    BY <1>1, <1>2, <2>1, <2>2 DEF ServeInv, Right
  <2>4. CASE kind = "entities"
    <3>1. page' \in Matches
      BY <1>5, <2>4 DEF Fill
    <3>2. CASE ~listed
      <4>1. page' = NoView /\ saved' = saved
        BY <1>2, <3>1, <3>2 DEF Matches
      <4>2. Service!Next
        BY <4>1 DEF Service!Next, Service!Serve
      <4>3. QED
        BY <2>3, <4>2
    <3>3. CASE listed
      <4>1. path = saved /\ saved \in Views
        BY <1>1, <2>1, <2>4, <3>3 DEF ServeInv, Right
      <4>2. path \notin {NoView, Torn}
        BY <4>1, SlotAssumption
      <4>3. Matches = {saved, NoView}
        BY <3>3, <4>1, <4>2 DEF Matches
      <4>4. page' \in {saved, NoView} /\ saved' = saved
        BY <1>2, <3>1, <4>3
      <4>5. Service!Next
        BY <4>4 DEF Service!Next, Service!Serve
      <4>6. QED
        BY <2>3, <4>5
    <3>4. QED
      BY <2>3, <3>2, <3>3
  <2>5. CASE kind # "entities"
    BY <1>2, <1>5, <2>3, <2>5 DEF Fill
  <2>6. QED
    BY <2>3, <2>4, <2>5
<1>6. CASE FreeSlot
  <2>1. UNCHANGED <<listed, page>>
    BY <1>6 DEF FreeSlot, store
  <2>2. /\ ws \in Results /\ ws' \in {R1, <<>>} /\ kind' \in {kind, None}
        /\ ws' \notin {R3, R4}
    BY <1>6, WsHandling, ResultPlaces DEF Results
  <2>3. ui \notin Requests
    BY <2>2 DEF ServeInv
  <2>4. ui \notin {A1, V0, V1, V2, V3, L3, L2, L1}
    BY <2>3 DEF Requests
  <2>5. ServeInv'
    BY <1>1, <1>2, <2>1, <2>2, <2>3, <2>4 DEF ServeInv, Right, None
  <2>6. QED
    BY <1>2, <2>1, <2>5
<1>7. QED
  BY <1>3, <1>4, <1>5, <1>6

\* HA answers, and sessions come and go.
LEMMA ServeLinks ==
  ASSUME SlotInv, ServeInv, HaAnswers \/ AuthOk \/ LinkLost \/ DestroyClient \/ Connect
  PROVE  ServeInv' /\ UNCHANGED <<saved, page>>
<1>1. /\ UNCHANGED <<kind, path, listed, saved, page, frame>> /\ ui' = ui /\ ws' = ws
  BY DEF HaAnswers, AuthOk, LinkLost, DestroyClient, Connect, slot, store, uiSide, ui, ws
<1>2. CASE HaAnswers
  <2>1. PICK r \in asked :
          /\ asked' = asked \ {r}
          /\ wire' = Append(wire, [what |-> r.what, id |-> r.id, good |-> TRUE])
    BY <1>2 DEF HaAnswers
  <2>2. wire \in Seq(Frames) /\ UNCHANGED <<link, stale>>
    BY <1>2 DEF SlotInv, TypeOK, HaAnswers
  <2>3. stale' => /\ \A i \in DOMAIN wire' : wire'[i].what # "lovelace"
                  /\ \A q \in asked' : q.what # "lovelace"
    BY <2>1, <2>2 DEF ServeInv
  <2>4. QED
    BY <1>1, <2>2, <2>3 DEF ServeInv, Right
<1>3. CASE AuthOk
  <2>1. wire' = <<NoFrame>> /\ asked' = {} /\ stale' = stale /\ link # "none"
    BY <1>3 DEF AuthOk, SlotInv, LinkInv
  <2>2. \A i \in DOMAIN wire' : wire'[i].what # "lovelace"
    BY <2>1 DEF NoFrame
  <2>3. QED
    BY <1>1, <2>1, <2>2 DEF ServeInv, Right
<1>4. CASE LinkLost \/ DestroyClient
  <2>1. wire' = <<>> /\ asked' = {} /\ stale' = stale /\ link # "none"
    BY <1>4 DEF LinkLost, DestroyClient
  <2>2. QED
    BY <1>1, <2>1 DEF ServeInv, Right
<1>5. CASE Connect
  <2>1. link = "none" /\ stale' = TRUE /\ UNCHANGED <<wire, asked>>
    BY <1>5 DEF Connect, haSide
  <2>2. ws = <<>> /\ wire = <<>> /\ asked = {}
    BY <2>1 DEF SlotInv, LinkInv
  <2>3. ws' \notin {R3, R4}
    BY <1>1, <2>2, ResultPlaces DEF Results
  <2>4. QED
    BY <1>1, <2>1, <2>2, <2>3 DEF ServeInv, Right
<1>6. QED
  BY <1>2, <1>3, <1>4, <1>5

\* Every step keeps ServeInv, and is one of the service or invisible to it.
LEMMA ServeStays ==
  ASSUME Overlaps = {}, SlotInv, ServeInv, [Next]_vars
  PROVE  ServeInv' /\ [Service!Next]_<<saved, page>>
<1>1. CASE UNCHANGED vars
  <2>1. ui' = ui /\ ws' = ws
    BY <1>1 DEF vars, ui, ws
  <2>2. UNCHANGED <<kind, path, listed, saved, page, frame, link, wire, asked, stale>>
    BY <1>1 DEF vars, slot, store, uiSide, haSide
  <2>3. QED
    BY <2>1, <2>2 DEF ServeInv, Right
<1>2. CASE Next
  BY <1>2, ServeUi, ServeGreeting, ServeBegins, ServeDispatch, ServeHandles, ServeLinks
     DEF Next, UiTask, WsTask, HaTask
<1>3. QED
  BY <1>1, <1>2

\* The service begins where LovelaceSlot does.
LEMMA ServeStarts == Init => ServeInv /\ Service!Init
<1> SUFFICES ASSUME Init
             PROVE  ServeInv /\ Service!Init
  OBVIOUS
<1>1. ui = <<>> /\ ws = <<>>
  BY DEF Init, ui, ws, Tasks
<1>2. ServeInv
  <2>1. ui \notin Requests /\ ws # R3 /\ ws # R4
    BY <1>1, RequestPlaces, ResultPlaces DEF Results
  <2>2. /\ ui # A1 /\ ui \notin {V1, V2, V3} /\ ui \notin {V0, V1, V2, V3}
        /\ ui \notin {L3, L2, L1}
    BY <2>1 DEF Requests
  <2>3. kind # "entities" /\ stale = FALSE
    BY DEF Init, None
  <2>4. QED
    BY <2>1, <2>2, <2>3 DEF ServeInv
<1>3. QED
  BY <1>2 DEF Init, Service!Init

----------------------------------------------------------------------------
(* The theorems                                                            *)

\* The state stays well-typed, and s_msg_id never gets back to 0.
THEOREM SlotTypes ==
  ASSUME "greeting" \notin Overlaps
  PROVE  Spec => []TypeOK
<1>1. SlotInv => TypeOK
  BY DEF SlotInv
<1>2. QED
  BY <1>1, SlotInvHolds, PTL

\* technisch_ontwerp.md:379: HA only ever gets an id above the last one of the
\* session, if the UI task begins no call while the websocket task sends the
\* two messages after auth_ok, and is in none when auth_ok comes. The code
\* does not see to that: s_msg_id has no guard, and a tap before CONNECTED is
\* the one way in which an id can be used twice.
THEOREM IdsAreUnique ==
  ASSUME "greeting" \notin Overlaps
  PROVE  Spec => []IdsRise
<1>1. SlotInv => IdsRise
  BY DEF SlotInv, IdsRise
<1>2. QED
  BY <1>1, SlotInvHolds, PTL

\* A slot that was written in this session is only ever filled by the answer
\* of a lovelace request, whatever the UI task does in the meantime, and
\* whether or not it asked for the views when CONNECTED came.
THEOREM AnswersAreOwn ==
  ASSUME "greeting" \notin Overlaps
  PROVE  Spec => OwnAnswer
<1>1. ASSUME SlotInv, SlotInv', [Next]_vars
      PROVE  [~Filling /\ Filling' => frame'.what = "lovelace" \/ stale]_vars
  <2>1. SUFFICES ASSUME ~Filling, Filling', ~stale
                 PROVE  frame'.what = "lovelace"
    OBVIOUS
  <2>2. ws \notin Results /\ ws' \in Results
    BY <1>1, <2>1, Calls, CallsNext DEF SlotInv
  <2>3. Dispatch /\ frame'.id = pid
    BY <1>1, <2>2, FillBegins
  <2>4. frame' = wire[1] /\ 1 \in DOMAIN wire
    BY <1>1, <2>3, WsTaking
  <2>5. QED
    BY <1>1, <2>1, <2>3, <2>4 DEF SlotInv, Transit
<1>2. QED
  BY <1>1, SlotInvHolds, PTL DEF Spec, OwnAnswer

\* LovelaceSlot implements ViewService for every user, if no call of the UI
\* task runs through the greeting and none of its requests through the
\* handling of an answer: a page is only ever loaded for the view that was
\* selected last, or emptied, whatever answer comes in whichever session, also
\* for a slot that outlived its session.
THEOREM PageIsSelected ==
  ASSUME Overlaps = {}
  PROVE  Spec => ServesSelected
<1>1. Init => ServeInv /\ Service!Init
  BY ServeStarts
<1>2. SlotInv /\ ServeInv /\ [Next]_vars => ServeInv' /\ [Service!Next]_<<saved, page>>
  BY ServeStays
<1>3. Spec => []SlotInv
  BY SlotInvHolds
<1>4. QED
  BY <1>1, <1>2, <1>3, PTL DEF Spec, ServesSelected, Service!Spec, Service!vars

=============================================================================
