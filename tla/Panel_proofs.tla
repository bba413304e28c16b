---------------------------- MODULE Panel_proofs ----------------------------
(***************************************************************************)
(* Proofs about Panel, for every set of brightness values, widgets and     *)
(* timeouts and every number of commands and states in transit.            *)
(***************************************************************************)
EXTENDS Panel, TLAPS

\* What is in transit.
Commands == [service : {"toggle", "other"}] \cup [service : {"level"}, level : Levels]
Transit  == toHa \in Seq(Commands) /\ toPanel \in Seq(Light)

\* The types, with the Boolean variables on their own.
Flags ==
  /\ lit \in BOOLEAN /\ setup \in BOOLEAN /\ read \in BOOLEAN
  /\ swallow \in BOOLEAN /\ waiting \in BOOLEAN /\ popup \in BOOLEAN
  /\ shown \in BOOLEAN /\ locked \in BOOLEAN
Places ==
  /\ idle \in 0..MaxIdle /\ timeout \in Timeouts
  /\ finger \in Widgets \cup {"up", "option", "overlay", "blank", "timeout", "setup"}
  /\ touch \in {"free", "void", "woke", "broken"}
  /\ held \in Widgets \cup {"none", "option", "overlay", "blank", "timeout", "setup"}
  /\ page \in {0, 1}
  /\ knob \in Levels /\ lamp \in Light
InTransit == Transit /\ Len(toHa) <= MaxSent /\ Len(toPanel) <= MaxSent
Lights == model \in [on : BOOLEAN, level : Levels]

Types == TypeOK /\ Transit

LEMMA TypesSplit == Types <=> Flags /\ Places /\ InTransit /\ Lights
BY DEF Types, TypeOK, Flags, Places, InTransit, Lights, Transit

LEMMA MaxIdleNat == MaxIdle \in Timeouts /\ MaxIdle \in Nat
BY PanelAssumption, Zenon DEF MaxIdle

\* What the next command and the next state are.
LEMMA NextCommand ==
  ASSUME Transit, toHa # <<>>
  PROVE  /\ Head(toHa) \in Commands /\ Tail(toHa) \in Seq(Commands)
         /\ Len(Tail(toHa)) = Len(toHa) - 1
         /\ Head(toHa).service = "level" => Head(toHa).level \in Levels
<1>1. Head(toHa) \in Commands /\ Tail(toHa) \in Seq(Commands)
      /\ Len(Tail(toHa)) = Len(toHa) - 1
  BY DEF Transit
<1>2. ASSUME NEW c \in Commands, c.service = "level" PROVE c.level \in Levels
  BY <1>2 DEF Commands
<1> QED BY <1>1, <1>2

LEMMA NextState ==
  ASSUME Transit, toPanel # <<>>
  PROVE  /\ Head(toPanel) \in Light /\ Tail(toPanel) \in Seq(Light)
         /\ Len(Tail(toPanel)) = Len(toPanel) - 1
         /\ Head(toPanel) # Off => Head(toPanel) \in Levels
BY DEF Transit, Light

\* Where a finger or a press can be.
LEMMA TargetType == ASSUME NEW t \in Targets
  PROVE t \in Widgets \cup {"option", "overlay", "blank", "timeout", "setup"}
BY DEF Targets

\* The light stays a light.
LEMMA BecomesType ==
  ASSUME Transit, Len(toPanel) <= MaxSent, NEW state \in Light, Becomes(state)
  PROVE  lamp' \in Light /\ toPanel' \in Seq(Light) /\ Len(toPanel') <= MaxSent
BY PanelAssumption DEF Transit, Becomes

----------------------------------------------------------------------------
(* Types                                                                   *)

\* What a release makes of the Boolean variables.
LEMMA ReleasedFlags ==
  Flags /\ Released =>
    /\ read' \in BOOLEAN /\ waiting' \in BOOLEAN /\ shown' \in BOOLEAN
    /\ locked' \in BOOLEAN /\ popup' \in BOOLEAN /\ setup' \in BOOLEAN
BY Zenon DEF Flags, rowVars, screenVars, Released, PressLost, Clicked, SwitchClicked,
       SliderReleased, ButtonClicked,
       ModeClicked, OptionClicked, OverlayClicked, OtherClicked, Send

\* Each step leaves the flags Boolean.
LEMMA FlagsInductive ==
  Flags /\ Lights /\ [Next]_vars => Flags'
<1> SUFFICES ASSUME Flags /\ Lights, [Next]_vars PROVE Flags'
  OBVIOUS
<1> USE DEF Flags, powerVars, fingerVars, touchVars, screenVars, rowVars, haVars, Pressed, Becomes
<1>1. CASE ReadNothing
  BY <1>1, ReleasedFlags, Zenon DEF ReadNothing
<1>2. CASE ReadFails
  BY <1>2, ReleasedFlags, Zenon DEF ReadFails
<1>3. CASE ReadWake
  BY <1>3, ReleasedFlags, Zenon DEF ReadWake
<1>4. CASE ReadTouch
  BY <1>4, ReleasedFlags, Zenon DEF ReadTouch
<1>5. CASE Drag
  BY <1>5, ReleasedFlags, Zenon DEF Drag
<1>6. CASE Gesture
  BY <1>6, ReleasedFlags, Zenon DEF Gesture
<1>7. CASE ScreenTimer
  BY <1>7, ReleasedFlags, Zenon DEF ScreenTimer
<1>8. CASE RestoreButton
  BY <1>8, ReleasedFlags, Zenon DEF RestoreButton
<1>9. CASE HandleState
  BY <1>9, ReleasedFlags, Zenon DEF HandleState
<1>10. CASE Redraw
  <2>1. model.on \in BOOLEAN
    BY DEF Lights
  <2> QED BY <1>10, <2>1, Zenon DEF Redraw
<1>11. CASE FingerUp
  BY <1>11, ReleasedFlags, Zenon DEF FingerUp
<1>12. CASE Execute
  BY <1>12, ReleasedFlags, Zenon DEF Execute
<1>13. CASE LampChanges
  BY <1>13, ReleasedFlags, Zenon DEF LampChanges
<1>14. ASSUME NEW t \in Targets, FingerDown(t) PROVE Flags'
  BY <1>14, ReleasedFlags, Zenon DEF FingerDown
<1>15. CASE UNCHANGED vars
  BY <1>15, ReleasedFlags, Zenon DEF vars
<1> QED BY <1>1, <1>2, <1>3, <1>4, <1>5, <1>6, <1>7, <1>8,
            <1>9, <1>10, <1>11, <1>12, <1>13, <1>14, <1>15 DEF Next, Ui, World, Read

\* What a release makes of the places.
LEMMA ReleasedPlaces ==
  Places /\ Lights /\ Released =>
    /\ timeout' \in Timeouts /\ held' = "none" /\ page' \in {0, 1} /\ knob' \in Levels
BY DEF Places, Lights, rowVars, screenVars, Released, PressLost, Clicked,
       SwitchClicked, SliderReleased, ButtonClicked,
       ModeClicked, OptionClicked, OverlayClicked, OtherClicked, Send

\* Each step keeps the places.
LEMMA PlacesInductive ==
  Flags /\ Places /\ Lights /\ InTransit /\ [Next]_vars => Places'
<1> SUFFICES ASSUME Flags /\ Places /\ Lights /\ InTransit, [Next]_vars PROVE Places'
  OBVIOUS
<1> USE PanelAssumption, MaxIdleNat
    DEF Flags, Places, Lights, powerVars, fingerVars, touchVars, screenVars, rowVars,
           haVars, Pressed
<1>1. CASE ReadNothing
  BY <1>1, ReleasedPlaces DEF ReadNothing
<1>2. CASE ReadFails
  BY <1>2, ReleasedPlaces DEF ReadFails
<1>3. CASE ReadWake
  BY <1>3, ReleasedPlaces DEF ReadWake
<1>4. CASE ReadTouch
  <2>1. Under \in Widgets \cup {"none", "option", "overlay", "blank", "timeout", "setup"}
    BY <1>4 DEF ReadTouch, Under
  <2>2. knob' \in Levels
    BY <1>4 DEF ReadTouch
  <2> QED BY <1>4, <2>1, <2>2 DEF ReadTouch
<1>5. CASE Drag
  BY <1>5, ReleasedPlaces DEF Drag
<1>6. CASE Gesture
  <2>1. page' \in {0, 1}
    BY <1>6 DEF Gesture, SwipeTo
  <2>2. touch' \in {"free", "void", "woke", "broken"}
    BY <1>6 DEF Gesture
  <2> QED BY <1>6, <2>1, <2>2 DEF Gesture
<1>7. CASE ScreenTimer
  <2>1. idle' \in 0..MaxIdle
    BY <1>7 DEF ScreenTimer
  <2> QED BY <1>7, <2>1 DEF ScreenTimer
<1>8. CASE RestoreButton
  BY <1>8, ReleasedPlaces DEF RestoreButton
<1>9. CASE HandleState
  <2>1. knob' \in Levels
    BY <1>9, NextState DEF HandleState, InTransit
  <2> QED BY <1>9, <2>1 DEF HandleState
<1>10. CASE Redraw
  BY <1>10, ReleasedPlaces DEF Redraw
<1>11. CASE FingerUp
  BY <1>11, ReleasedPlaces DEF FingerUp
<1>12. CASE Execute
  <2>1. \/ \E state \in Light : Becomes(state)
        \/ UNCHANGED haVars
    BY <1>12, NextCommand DEF Execute, InTransit, Light
  <2>2. lamp' \in Light
    BY <2>1, BecomesType DEF InTransit
  <2> QED BY <1>12, <2>2 DEF Execute
<1>13. CASE LampChanges
  <2>1. lamp' \in Light
    BY <1>13, BecomesType DEF LampChanges, InTransit
  <2> QED BY <1>13, <2>1 DEF LampChanges
<1>14. ASSUME NEW t \in Targets, FingerDown(t) PROVE Places'
  BY <1>14, TargetType DEF FingerDown
<1>15. CASE UNCHANGED vars
  BY <1>15, ReleasedPlaces DEF vars
<1> QED BY <1>1, <1>2, <1>3, <1>4, <1>5, <1>6, <1>7, <1>8,
            <1>9, <1>10, <1>11, <1>12, <1>13, <1>14, <1>15 DEF Next, Ui, World, Read

\* What a release sends.
LEMMA ReleasedSends ==
  ASSUME Places, InTransit, Released
  PROVE  toHa' \in Seq(Commands) /\ Len(toHa') <= MaxSent
<1>1. [service |-> "toggle"] \in Commands /\ [service |-> "other"] \in Commands
      /\ [service |-> "level", level |-> knob] \in Commands
  BY DEF Commands, Places
<1>2. ASSUME NEW c \in Commands, Send(c)
      PROVE  toHa' \in Seq(Commands) /\ Len(toHa') <= MaxSent
  BY <1>2, PanelAssumption DEF Send, InTransit, Transit
<1>3. CASE \E c \in Commands : Send(c)
  BY <1>2, <1>3
<1>4. CASE toHa' = toHa
  BY <1>4 DEF InTransit, Transit
<1> QED BY <1>1, <1>3, <1>4 DEF Released, PressLost, Clicked, SwitchClicked,
       SliderReleased, ButtonClicked, ModeClicked, OptionClicked,
       OverlayClicked, OtherClicked

\* Each step keeps the types of what is in transit.
LEMMA TransitInductive ==
  Flags /\ Places /\ Lights /\ InTransit /\ [Next]_vars => InTransit'
<1> SUFFICES ASSUME Flags /\ Places /\ Lights /\ InTransit, [Next]_vars PROVE InTransit'
  OBVIOUS
<1> USE PanelAssumption
    DEF powerVars, fingerVars, touchVars, screenVars, rowVars, haVars, Pressed
<1>1. CASE ReadNothing
  BY <1>1, ReleasedSends DEF InTransit, Transit, ReadNothing
<1>2. CASE ReadFails
  BY <1>2, ReleasedSends DEF InTransit, Transit, ReadFails
<1>3. CASE ReadWake
  BY <1>3, ReleasedSends DEF InTransit, Transit, ReadWake
<1>4. CASE ReadTouch
  BY <1>4, ReleasedSends DEF InTransit, Transit, ReadTouch
<1>5. CASE Drag
  BY <1>5, ReleasedSends DEF InTransit, Transit, Drag
<1>6. CASE Gesture
  BY <1>6, ReleasedSends DEF InTransit, Transit, Gesture
<1>7. CASE ScreenTimer
  BY <1>7, ReleasedSends DEF InTransit, Transit, ScreenTimer
<1>8. CASE RestoreButton
  BY <1>8, ReleasedSends DEF InTransit, Transit, RestoreButton
<1>9. CASE HandleState
  BY <1>9, NextState DEF HandleState, InTransit, Transit
<1>10. CASE Redraw
  BY <1>10, ReleasedSends DEF InTransit, Transit, Redraw
<1>11. CASE FingerUp
  BY <1>11, ReleasedSends DEF InTransit, Transit, FingerUp
<1>12. CASE Execute
  <2>1. \/ \E state \in Light : Becomes(state)
        \/ UNCHANGED haVars
    BY <1>12, NextCommand DEF Execute, InTransit, Light
  <2>2. toPanel' \in Seq(Light) /\ Len(toPanel') <= MaxSent
    BY <2>1, BecomesType DEF InTransit, Transit
  <2>3. toHa' \in Seq(Commands) /\ Len(toHa') <= MaxSent
    BY <1>12, NextCommand DEF Execute, InTransit, Transit
  <2> QED BY <2>2, <2>3 DEF InTransit, Transit
<1>13. CASE LampChanges
  <2>1. toPanel' \in Seq(Light) /\ Len(toPanel') <= MaxSent
    BY <1>13, BecomesType DEF LampChanges, InTransit
  <2> QED BY <1>13, <2>1 DEF LampChanges, InTransit, Transit
<1>14. ASSUME NEW t \in Targets, FingerDown(t) PROVE InTransit'
  BY <1>14, ReleasedSends DEF InTransit, Transit, FingerDown
<1>15. CASE UNCHANGED vars
  BY <1>15, ReleasedSends DEF InTransit, Transit, vars
<1> QED BY <1>1, <1>2, <1>3, <1>4, <1>5, <1>6, <1>7, <1>8,
            <1>9, <1>10, <1>11, <1>12, <1>13, <1>14, <1>15 DEF Next, Ui, World, Read

\* Each step leaves the entity of the light a light.
LEMMA LightsInductive ==
  Flags /\ Places /\ Lights /\ InTransit /\ [Next]_vars => Lights'
<1> SUFFICES ASSUME Flags /\ Places /\ Lights /\ InTransit, [Next]_vars PROVE Lights'
  OBVIOUS
<1> USE DEF powerVars, fingerVars, touchVars, screenVars, rowVars, haVars, Pressed
<1>1. CASE ReadNothing
  BY <1>1 DEF Lights, ReadNothing
<1>2. CASE ReadFails
  BY <1>2 DEF Lights, ReadFails
<1>3. CASE ReadWake
  BY <1>3 DEF Lights, ReadWake
<1>4. CASE ReadTouch
  BY <1>4 DEF Lights, ReadTouch
<1>5. CASE Drag
  BY <1>5 DEF Lights, Drag
<1>6. CASE Gesture
  BY <1>6 DEF Lights, Gesture
<1>7. CASE ScreenTimer
  BY <1>7 DEF Lights, ScreenTimer
<1>8. CASE RestoreButton
  BY <1>8 DEF Lights, RestoreButton
<1>9. CASE HandleState
  <2>1. toPanel # <<>> /\ model' = [on |-> Head(toPanel) # Off,
          level |-> IF Head(toPanel) = Off THEN model.level ELSE Head(toPanel)]
    BY <1>9, Zenon DEF HandleState
  <2>2. (Head(toPanel) # Off) \in BOOLEAN
    OBVIOUS
  <2>3. (IF Head(toPanel) = Off THEN model.level ELSE Head(toPanel)) \in Levels
    BY <2>1, NextState DEF InTransit, Lights
  <2> QED BY <2>1, <2>2, <2>3, Zenon DEF Lights
<1>10. CASE Redraw
  BY <1>10 DEF Lights, Redraw
<1>11. CASE FingerUp
  BY <1>11 DEF Lights, FingerUp
<1>12. CASE Execute
  BY <1>12 DEF Lights, Execute
<1>13. CASE LampChanges
  BY <1>13 DEF Lights, LampChanges
<1>14. ASSUME NEW t \in Targets, FingerDown(t) PROVE Lights'
  BY <1>14 DEF Lights, FingerDown
<1>15. CASE UNCHANGED vars
  BY <1>15 DEF Lights, vars
<1> QED BY <1>1, <1>2, <1>3, <1>4, <1>5, <1>6, <1>7, <1>8,
            <1>9, <1>10, <1>11, <1>12, <1>13, <1>14, <1>15 DEF Next, Ui, World, Read

LEMMA TypesInitial == Init => Types
<1> SUFFICES ASSUME Init PROVE Types
  OBVIOUS
<1>1. Flags
  <2>1. model.on \in BOOLEAN
    BY DEF Init
  <2> QED BY <2>1, Zenon DEF Init, Flags
<1>2. Places
  <2>1. model.level \in Levels
    BY DEF Init, Light
  <2> QED BY <2>1, MaxIdleNat DEF Init, Places
<1>3. InTransit
  BY PanelAssumption DEF Init, InTransit, Transit
<1>4. Lights
  <2>1. PICK level \in Levels : model = [on |-> lamp # Off, level |-> level]
    BY DEF Init, Light
  <2>2. (lamp # Off) \in BOOLEAN
    OBVIOUS
  <2> QED BY <2>1, <2>2, Zenon DEF Lights
<1> QED BY <1>1, <1>2, <1>3, <1>4, TypesSplit

LEMMA TypesInductive == Types /\ [Next]_vars => Types'
<1> SUFFICES ASSUME Types, [Next]_vars PROVE Types'
  OBVIOUS
<1>1. Flags /\ Places /\ Lights /\ InTransit
  BY TypesSplit
<1>2. Flags' /\ Places' /\ Lights' /\ InTransit'
  BY <1>1, FlagsInductive, PlacesInductive, LightsInductive, TransitInductive
<1> QED BY <1>2 DEF Types, TypeOK, Transit, Flags, Places, Lights, InTransit

\* The panel stays well-typed: among others no swipe leaves the pages there
\* are, and the inactivity time the screen timer compares ends at the longest
\* timeout, for every set of timeouts, levels and widgets.
THEOREM PanelTypes == Spec => []TypeOK
<1>1. Types => TypeOK
  BY DEF Types
<1> QED BY <1>1, TypesInitial, TypesInductive, PTL DEF Spec

----------------------------------------------------------------------------
(* A touch that is void                                                    *)

\* An object is held only on a screen that is lit and was touched a moment
\* ago; a swallowed touch holds none; a dark screen is one the timer darkened.
HeldInv ==
  /\ held # "none" => lit /\ idle <= 1 /\ (read => idle = 0)
  /\ swallow => held = "none"
  /\ ~lit => ~setup /\ timeout # 0

\* What keeps a void touch from the widgets: LVGL waits for its release, or
\* it holds nothing and will be swallowed.
VoidInv ==
  touch = "void" => waiting \/ (held = "none" /\ (finger = "up" \/ swallow \/ ~lit))

TouchInv == HeldInv /\ VoidInv

LEMMA ReleasedQuiet ==
  Released => /\ held' = "none" /\ waiting' = FALSE /\ read' = TRUE
              /\ held = "none" \/ waiting => UNCHANGED <<timeout, setup, toHa>>
BY Zenon DEF Released, PressLost, rowVars, screenVars

\* Each step keeps a void touch void.
LEMMA TouchInductive ==
  Types /\ TouchInv /\ [Next]_vars => TouchInv'
<1> SUFFICES ASSUME Types /\ TouchInv, [Next]_vars PROVE TouchInv'
  OBVIOUS
<1> USE PanelAssumption, MaxIdleNat, TypesSplit, ReleasedQuiet
    DEF TouchInv, HeldInv, VoidInv, Flags, Places, powerVars, fingerVars, touchVars,
           screenVars, rowVars, haVars, Pressed
<1>1. CASE ReadNothing
  BY <1>1 DEF ReadNothing
<1>2. CASE ReadFails
  BY <1>2 DEF ReadFails
<1>3. CASE ReadWake
  BY <1>3 DEF ReadWake
<1>4. CASE ReadTouch
  BY <1>4 DEF ReadTouch
<1>5. CASE Drag
  BY <1>5 DEF Drag
<1>6. CASE Gesture
  <2>1. waiting'
    BY <1>6, Zenon DEF Gesture
  <2> QED BY <1>6, <2>1 DEF Gesture
<1>7. CASE ScreenTimer
  <2>1. read /\ ~read'
    BY <1>7, Zenon DEF ScreenTimer
  <2>2. lit' <=> timeout = 0 \/ setup \/ (lit /\ idle' < timeout)
    BY <1>7, Zenon DEF ScreenTimer
  <2>3. idle \in Nat /\ idle' \in Nat /\ idle' <= idle + 1
    BY <1>7 DEF ScreenTimer
  <2>4. UNCHANGED <<timeout, setup, fingerVars, swallow, held, waiting>>
    BY <1>7 DEF ScreenTimer
  <2>5. timeout \in Nat /\ timeout # 1
    BY DEF Types, TypeOK
  <2>6. held # "none" => idle' <= 1 /\ (lit /\ (timeout = 0 \/ idle' < timeout))
    BY <2>1, <2>3, <2>5
  <2>7. held # "none" => lit'
    BY <2>2, <2>6
  <2>8. HeldInv'
    BY <2>1, <2>2, <2>4, <2>6, <2>7
  <2>9. VoidInv'
    BY <2>2, <2>4
  <2> QED BY <2>8, <2>9
<1>8. CASE RestoreButton
  BY <1>8 DEF RestoreButton
<1>9. CASE HandleState
  BY <1>9 DEF HandleState
<1>10. CASE Redraw
  BY <1>10 DEF Redraw
<1>11. CASE FingerUp
  BY <1>11 DEF FingerUp
<1>12. CASE Execute
  BY <1>12 DEF Execute
<1>13. CASE LampChanges
  BY <1>13 DEF LampChanges
<1>14. ASSUME NEW t \in Targets, FingerDown(t) PROVE TouchInv'
  BY <1>14 DEF FingerDown
<1>15. CASE UNCHANGED vars
  BY <1>15 DEF vars
<1> QED BY <1>1, <1>2, <1>3, <1>4, <1>5, <1>6, <1>7, <1>8,
            <1>9, <1>10, <1>11, <1>12, <1>13, <1>14, <1>15 DEF Next, Ui, World, Read

\* A touch that woke the screen, or has swiped, sends no command: US-013 and
\* US-016, for every timeout, every set of widgets and every order of finger,
\* reads, timer and states; a touch with a failed read is excepted.
THEOREM TouchesAreDeliberate == Spec => Deliberate
<1>1. Init => TouchInv
  BY Zenon DEF Init, TouchInv, HeldInv, VoidInv
<1>2. Types /\ TouchInv /\ [Next]_vars => [Len(toHa') > Len(toHa) => touch # "void"]_vars
  <2> SUFFICES ASSUME Types, TouchInv, Next, touch = "void"
               PROVE  ~(Len(toHa') > Len(toHa))
    OBVIOUS
  <2>1. toHa \in Seq(Commands)
    BY DEF Types, Transit
  <2>2. CASE ReadNothing \/ ReadFails \/ ReadWake
    <3>1. held = "none" \/ waiting
      BY DEF TouchInv, VoidInv
    <3>2. Released
      BY <2>2 DEF ReadNothing, ReadFails, ReadWake
    <3>3. toHa' = toHa
      BY <3>1, <3>2, ReleasedQuiet
    <3> QED BY <2>1, <3>3
  <2>3. CASE Execute
    <3>1. Len(toHa') = Len(toHa) - 1
      BY <2>3, NextCommand DEF Execute, Types
    <3> QED BY <2>1, <3>1
  <2>4. CASE ~(ReadNothing \/ ReadFails \/ ReadWake \/ Execute)
    <3>1. toHa' = toHa
      BY <2>4 DEF Next, Ui, World, Read, ReadTouch, Pressed, Drag, Gesture, ScreenTimer,
         RestoreButton, HandleState, Redraw, FingerDown, FingerUp, LampChanges
    <3> QED BY <2>1, <3>1
  <2> QED BY <2>2, <2>3, <2>4
<1> QED BY <1>1, <1>2, TypesInitial, TypesInductive, TouchInductive, PTL
        DEF Spec, Deliberate

----------------------------------------------------------------------------
(* The row of the light                                                    *)

Level(l)       == [service |-> "level", level |-> l]
HasToggle(q)   == \E i \in 1..Len(q) : q[i].service = "toggle"
HasLevel(q, l) == \E i \in 1..Len(q) : q[i] = Level(l)

\* With no state on its way the entity is what the light is, the switch shows
\* it unless a toggle is on its way, and so does the slider unless it is held
\* or the value it shows is on its way.
RowInv ==
  /\ toPanel # <<>> => toPanel[Len(toPanel)] = lamp
  /\ toPanel = <<>> =>
       /\ model.on <=> lamp # Off
       /\ lamp # Off => model.level = lamp
       /\ (shown <=> model.on) \/ HasToggle(toHa)
       /\ held = "slider" \/ knob = model.level \/ HasLevel(toHa, knob)

LEMMA HasAppend ==
  ASSUME NEW q \in Seq(Commands), NEW c \in Commands, NEW l
  PROVE  /\ HasToggle(q) \/ c.service = "toggle" => HasToggle(Append(q, c))
         /\ HasLevel(q, l) \/ c = Level(l) => HasLevel(Append(q, c), l)
<1>1. Len(q) \in Nat /\ Len(Append(q, c)) = Len(q) + 1
      /\ Append(q, c)[Len(q) + 1] = c
      /\ \A i \in 1..Len(q) : Append(q, c)[i] = q[i]
  OBVIOUS
<1>2. Len(q) + 1 \in 1..(Len(q) + 1) /\ \A i \in 1..Len(q) : i \in 1..(Len(q) + 1)
  BY <1>1
<1> QED BY <1>1, <1>2, Zenon DEF HasToggle, HasLevel

LEMMA HasTail ==
  ASSUME NEW q \in Seq(Commands), q # <<>>, NEW l
  PROVE  /\ HasToggle(q) => HasToggle(Tail(q)) \/ Head(q).service = "toggle"
         /\ HasLevel(q, l) => HasLevel(Tail(q), l) \/ Head(q) = Level(l)
<1>1. Len(q) \in Nat /\ Len(Tail(q)) = Len(q) - 1 /\ Head(q) = q[1]
      /\ \A i \in 1..(Len(q) - 1) : Tail(q)[i] = q[i + 1]
  OBVIOUS
<1>2. \A i \in 1..Len(q) : i = 1 \/ (i - 1 \in 1..(Len(q) - 1) /\ Tail(q)[i - 1] = q[i])
  BY <1>1
<1> QED BY <1>1, <1>2, Zenon DEF HasToggle, HasLevel

\* A state that is reported is the last one on its way.
LEMMA BecomesLast ==
  ASSUME Transit, NEW state \in Light, Becomes(state)
  PROVE  /\ lamp' = state
         /\ state = lamp => toPanel' = toPanel
         /\ state # lamp => toPanel' # <<>> /\ toPanel'[Len(toPanel')] = state
BY DEF Becomes, Transit

LEMMA TailLast ==
  ASSUME Transit, toPanel # <<>>
  PROVE  LET q == Tail(toPanel)
         IN  /\ q # <<>> => q[Len(q)] = toPanel[Len(toPanel)]
             /\ q = <<>> => Head(toPanel) = toPanel[Len(toPanel)]
<1>1. toPanel \in Seq(Light) /\ Len(toPanel) \in Nat \ {0}
  BY DEF Transit
<1>2. /\ Tail(toPanel) \in Seq(Light) /\ Len(Tail(toPanel)) = Len(toPanel) - 1
      /\ \A i \in 1..Len(Tail(toPanel)) : Tail(toPanel)[i] = toPanel[i + 1]
  BY <1>1
<1>3. CASE Tail(toPanel) = <<>>
  <2>1. Len(toPanel) = 1
    BY <1>1, <1>2, <1>3
  <2> QED BY <1>1, <1>3, <2>1
<1>4. CASE Tail(toPanel) # <<>>
  <2>1. Len(Tail(toPanel)) \in 1..Len(Tail(toPanel))
    BY <1>2, <1>4
  <2> QED BY <1>1, <1>2, <1>4, <2>1
<1> QED BY <1>3, <1>4

\* What a release does to the row: a switch that is turned over sends a toggle,
\* a slider that is let go sends its value or goes back.
LEMMA ReleasedRow ==
  ASSUME Types, RowInv, Released, UNCHANGED <<model, haVars>>
  PROVE  RowInv'
<1>1. /\ toHa \in Seq(Commands) /\ knob \in Levels
      /\ Level(knob) \in Commands /\ Level(knob).service = "level"
      /\ [service |-> "toggle"] \in Commands /\ [service |-> "other"] \in Commands
      /\ [service |-> "toggle"].service = "toggle"
  BY TypesSplit DEF Types, Transit, Commands, Level, Places
<1>2. CASE toHa' = toHa /\ shown' = shown /\ ((held # "slider" /\ knob' = knob) \/ knob' = model.level)
  BY <1>2 DEF RowInv, haVars
<1>3. CASE SwitchClicked
  <2>1. toHa' = Append(toHa, [service |-> "toggle"])
    BY <1>3 DEF SwitchClicked, Send
  <2>2. HasToggle(toHa') /\ (HasLevel(toHa, knob) => HasLevel(toHa', knob))
    BY <1>1, <2>1, HasAppend
  <2>3. held # "slider" /\ knob' = knob
    BY <1>3 DEF SwitchClicked
  <2> QED BY <2>2, <2>3 DEF RowInv, haVars
<1>4. CASE SliderReleased
  <2>1. toHa' = Append(toHa, Level(knob)) /\ knob' = knob /\ shown' = shown
    BY <1>4 DEF SliderReleased, Send, Level, rowVars
  <2>2. HasLevel(toHa', knob') /\ (HasToggle(toHa) => HasToggle(toHa'))
    BY <1>1, <2>1, HasAppend
  <2> QED BY <2>1, <2>2 DEF RowInv, haVars
<1>5. CASE toHa' = Append(toHa, [service |-> "other"]) /\ shown' = shown
           /\ held # "slider" /\ knob' = knob
  <2>1. /\ HasToggle(toHa) => HasToggle(toHa')
        /\ HasLevel(toHa, knob) => HasLevel(toHa', knob)
    BY <1>1, <1>5, HasAppend
  <2> QED BY <1>5, <2>1 DEF RowInv, haVars
<1>6. CASE ButtonClicked \/ OptionClicked
  BY <1>5, <1>6 DEF ButtonClicked, OptionClicked, Send, rowVars
<1>7. CASE ModeClicked \/ OverlayClicked \/ OtherClicked
  BY <1>2, <1>7 DEF ModeClicked, OverlayClicked, OtherClicked, rowVars
<1>8. CASE PressLost
  BY <1>2, <1>8 DEF PressLost
<1>9. CASE held = "none" /\ UNCHANGED <<rowVars, toHa>>
  BY <1>2, <1>9 DEF rowVars
<1> QED BY <1>3, <1>4, <1>6, <1>7, <1>8, <1>9 DEF Released, Clicked

\* Each step keeps the account of the row.
LEMMA RowInductive ==
  Types /\ RowInv /\ [Next]_vars => RowInv'
<1> SUFFICES ASSUME Types /\ RowInv, [Next]_vars PROVE RowInv'
  OBVIOUS
<1> USE DEF powerVars, fingerVars, touchVars, screenVars, rowVars, haVars
<1>1. CASE ReadNothing
  BY <1>1, ReleasedRow DEF ReadNothing
<1>2. CASE ReadFails
  BY <1>2, ReleasedRow DEF ReadFails
<1>3. CASE ReadWake
  BY <1>3, ReleasedRow DEF ReadWake
<1>4. CASE ReadTouch
  BY <1>4 DEF ReadTouch, Pressed, RowInv
<1>5. CASE Drag
  BY <1>5 DEF RowInv, Drag
<1>6. CASE Gesture
  BY <1>6 DEF RowInv, Gesture
<1>7. CASE ScreenTimer
  BY <1>7 DEF RowInv, ScreenTimer
<1>8. CASE RestoreButton
  BY <1>8 DEF RowInv, RestoreButton
<1>9. CASE HandleState
  <2>1. /\ toPanel # <<>> /\ toPanel' = Tail(toPanel)
        /\ knob' = (IF held = "slider" THEN knob ELSE model'.level)
        /\ shown' = model'.on /\ UNCHANGED <<held, lamp, toHa>>
        /\ model' = [on |-> Head(toPanel) # Off,
             level |-> IF Head(toPanel) = Off THEN model.level ELSE Head(toPanel)]
    BY <1>9, Zenon DEF HandleState
  <2>2. toPanel' # <<>> => toPanel'[Len(toPanel')] = lamp'
    BY <2>1, TailLast DEF Types, RowInv
  <2>3. toPanel' = <<>> => Head(toPanel) = lamp
    BY <2>1, TailLast DEF Types, RowInv
  <2>4. /\ model'.on <=> Head(toPanel) # Off
        /\ Head(toPanel) # Off => model'.level = Head(toPanel)
    BY <2>1
  <2>5. shown' <=> model'.on
    BY <2>1, Zenon
  <2>6. held' = "slider" \/ knob' = model'.level
    BY <2>1, Zenon
  <2> QED BY <2>1, <2>2, <2>3, <2>4, <2>5, <2>6 DEF RowInv
<1>10. CASE Redraw
  <2>1. shown' = model.on /\ knob' = model.level /\ UNCHANGED <<model, haVars, toHa>>
    BY <1>10, Zenon DEF Redraw
  <2> QED BY <2>1 DEF RowInv
<1>11. CASE FingerUp
  BY <1>11 DEF RowInv, FingerUp
<1>12. CASE Execute
  <2>1. /\ toHa # <<>> /\ toHa' = Tail(toHa) /\ toHa \in Seq(Commands)
        /\ UNCHANGED <<held, knob, shown, model>>
    BY <1>12 DEF Execute, Types, Transit
  <2>2. /\ HasToggle(toHa) => HasToggle(toHa') \/ Head(toHa).service = "toggle"
        /\ HasLevel(toHa, knob) => HasLevel(toHa', knob) \/ Head(toHa) = Level(knob)
    BY <2>1, HasTail
  <2>3. ASSUME NEW state \in Light, state # lamp, Becomes(state) PROVE RowInv'
    BY <2>3, BecomesLast DEF RowInv, Types
  <2>4. CASE Head(toHa).service = "toggle"
    <3>1. PICK state \in IF lamp = Off THEN Levels ELSE {Off} : Becomes(state)
      BY <1>12, <2>4 DEF Execute
    <3>2. state \in Light /\ state # lamp
      BY PanelAssumption DEF Light, Off
    <3> QED BY <2>3, <3>1, <3>2
  <2>5. CASE Head(toHa).service = "level"
    <3>1. Becomes(Head(toHa).level) /\ Head(toHa).level \in Levels
      BY <1>12, <2>5, NextCommand DEF Execute, Types
    <3>2. Head(toHa).level \in Light /\ Head(toHa).level # Off
      BY <3>1, PanelAssumption DEF Light, Off
    <3>3. CASE Head(toHa).level = lamp
      <4>1. lamp' = lamp /\ toPanel' = toPanel
        BY <3>1, <3>2, <3>3, BecomesLast DEF Types
      <4>2. Head(toHa) = Level(knob) => knob = lamp
        BY <3>3 DEF Level
      <4> QED BY <2>1, <2>2, <2>5, <3>2, <3>3, <4>1, <4>2 DEF RowInv
    <3> QED BY <2>3, <3>1, <3>2, <3>3
  <2>6. CASE Head(toHa).service \notin {"toggle", "level"}
    <3>1. UNCHANGED haVars
      BY <1>12, <2>6 DEF Execute
    <3>2. Head(toHa) # Level(knob)
      BY <2>6 DEF Level
    <3> QED BY <2>1, <2>2, <2>6, <3>1, <3>2 DEF RowInv
  <2> QED BY <2>4, <2>5, <2>6
<1>13. CASE LampChanges
  <2>1. PICK state \in Light \ {lamp} : Becomes(state)
    BY <1>13 DEF LampChanges
  <2> QED BY <2>1, BecomesLast DEF RowInv, Types
<1>14. ASSUME NEW t \in Targets, FingerDown(t) PROVE RowInv'
  BY <1>14 DEF RowInv, FingerDown
<1>15. CASE UNCHANGED vars
  BY <1>15 DEF RowInv, vars
<1> QED BY <1>1, <1>2, <1>3, <1>4, <1>5, <1>6, <1>7, <1>8,
            <1>9, <1>10, <1>11, <1>12, <1>13, <1>14, <1>15 DEF Next, Ui, World, Read

\* The row of the light ends up right: whatever was tapped, dragged, given up,
\* or reported in between, once all that was sent has arrived and the slider
\* is not held, switch and slider show what the light is; for every number of
\* commands and states on their way.
THEOREM RowIsTrue == Spec => []RowTrue
<1>1. Init => RowInv
  <2> SUFFICES ASSUME Init PROVE RowInv
    OBVIOUS
  <2>1. toPanel = <<>> /\ knob = model.level /\ shown = model.on
    BY Zenon DEF Init
  <2>2. PICK level \in IF lamp = Off THEN Levels ELSE {lamp} :
          model = [on |-> lamp # Off, level |-> level]
    BY DEF Init
  <2>3. (model.on <=> lamp # Off) /\ (lamp # Off => model.level = lamp)
    BY <2>2
  <2> QED BY <2>1, <2>3 DEF RowInv
<1>2. Types /\ RowInv => RowTrue
  <2> SUFFICES ASSUME Types, RowInv, toHa = <<>>, toPanel = <<>>, held # "slider"
               PROVE  /\ shown = (lamp # Off) /\ model.on = shown
                      /\ knob = IF lamp = Off THEN model.level ELSE lamp
    BY DEF RowTrue
  <2>1. ~HasToggle(toHa) /\ ~HasLevel(toHa, knob)
    BY DEF HasToggle, HasLevel
  <2>2. (shown <=> model.on) /\ (model.on <=> lamp # Off) /\ knob = model.level
        /\ (lamp # Off => model.level = lamp)
    BY <2>1 DEF RowInv
  <2>3. shown \in BOOLEAN /\ model.on \in BOOLEAN
    BY DEF Types, TypeOK
  <2>4. shown = (lamp # Off) /\ model.on = shown
    BY <2>2, <2>3, Zenon
  <2> QED BY <2>2, <2>4
<1> QED BY <1>1, <1>2, TypesInitial, TypesInductive, RowInductive, PTL DEF Spec
=============================================================================
