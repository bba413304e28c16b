-------------------------------- MODULE Panel --------------------------------
(***************************************************************************)
(* The panel under a finger: the touch driver that also wakes the screen   *)
(* (touch.c), the timer that darkens it (main.c), the gestures of the      *)
(* entity screen (ui_entities.c), and a page with one row of each kind     *)
(* (ui_widgets.c): a dimmable light with its switch and slider, an action  *)
(* button and a climate row whose mode button opens the popup. A second    *)
(* page is empty.                                                          *)
(*                                                                         *)
(* Everything runs in the UI task, one callback after the other: a finger  *)
(* moves and Home Assistant answers between any two of them. LVGL reads    *)
(* the touch driver and tells the widgets: its part is Pressed, Released   *)
(* and what happens to the object it holds as pressed. The connection is   *)
(* up: a command and a state change arrive, in their order.                *)
(***************************************************************************)
EXTENDS Naturals, Sequences

CONSTANTS
  Levels,   \* brightness values
  Widgets,  \* widgets on the first page
  Timeouts, \* settings of the screen timeout, in ticks; 0 for never
  Glitches, \* which reads of the touch controller can fail under a finger
  MaxSent   \* commands, and states, in transit

ASSUME PanelAssumption ==
  /\ Levels # {} /\ Levels \subseteq Nat \ {0}
  /\ Timeouts \subseteq Nat \ {1}  \* the shortest one is 15 ticks
  /\ \E longest \in Timeouts : \A t \in Timeouts : t <= longest
  /\ Widgets \subseteq {"switch", "slider", "button", "mode"}
  /\ Glitches \subseteq {"points", "position"}
  /\ MaxSent \in Nat \ {0}

VARIABLES
  lit,     \* s_backlight_on
  idle,    \* ticks since the last activity, as far as a timeout counts
  timeout, \* NVS screen_timeout
  setup,   \* ui_manager_setup_active
  finger,  \* "up", or what it is on
  touch,   \* history: "void" when the touch woke the screen or has swiped; when
           \* a read of it has failed, "woke" if it was being swallowed then and
           \* "broken" if not; "free" otherwise
  read,    \* LVGL has read the driver since the last tick: it does so 33 times
  swallow, \* wake_swallow of read_cb
  held,    \* the object LVGL holds as pressed
  waiting, \* lv_indev_wait_release has been called for this touch
  page,    \* s_cur_page
  popup,   \* s_popup
  knob,    \* the value the slider shows
  shown,   \* what the switch shows
  locked,  \* the action button is not clickable
  model,   \* the entity of the light
  lamp,    \* the light in Home Assistant: its brightness, or Off
  toHa,    \* commands in transit
  toPanel  \* states in transit

powerVars  == <<lit, idle, timeout, setup>>
fingerVars == <<finger, touch>>
touchVars  == <<read, swallow, held, waiting>>
screenVars == <<page, popup>>
rowVars    == <<knob, shown, locked>>
haVars     == <<lamp, toPanel>>
vars == <<powerVars, fingerVars, touchVars, screenVars, rowVars, model, haVars, toHa>>

MaxIdle == CHOOSE m \in Timeouts : \A t \in Timeouts : t <= m
Off     == 0
Light   == Levels \cup {Off}

----------------------------------------------------------------------------
(* Widgets                                                                 *)

\* ha_client_toggle and its like; a full socket is not modelled.
Send(cmd) == Len(toHa) < MaxSent /\ toHa' = Append(toHa, cmd)

\* toggle_event_cb: LVGL has turned the switch over before.
SwitchClicked ==
  /\ held = "switch"
  /\ shown' = ~shown
  /\ Send([service |-> "toggle"])
  /\ UNCHANGED <<knob, locked, screenVars>>

\* brightness_event_cb
SliderReleased ==
  /\ held = "slider"
  /\ Send([service |-> "level", level |-> knob])
  /\ UNCHANGED <<rowVars, screenVars>>

\* action_btn_event_cb locks the button until its timer has run off.
ButtonClicked ==
  /\ held = "button"
  /\ locked' = TRUE
  /\ Send([service |-> "other"])
  /\ UNCHANGED <<knob, shown, screenVars>>

\* hvac_mode_btn_cb and mode_popup_open
ModeClicked ==
  /\ held = "mode"
  /\ popup' = TRUE
  /\ UNCHANGED <<rowVars, page, toHa>>

\* popup_option_cb
OptionClicked ==
  /\ held = "option"
  /\ popup' = FALSE
  /\ Send([service |-> "other"])
  /\ UNCHANGED <<rowVars, page>>

\* popup_overlay_cb
OverlayClicked ==
  /\ held = "overlay"
  /\ popup' = FALSE
  /\ UNCHANGED <<rowVars, page, toHa>>

\* Other screens: timeout_dd_cb, the way to the setup screen and back.
OtherClicked ==
  /\ \/ held = "timeout" /\ timeout' \in Timeouts /\ UNCHANGED setup
     \/ held = "setup" /\ setup' = ~setup /\ UNCHANGED timeout
     \/ held = "blank" /\ UNCHANGED <<timeout, setup>>
  /\ UNCHANGED <<rowVars, screenVars, toHa>>

Clicked ==
  \/ /\ \/ SwitchClicked \/ SliderReleased \/ ButtonClicked \/ ModeClicked
        \/ OptionClicked \/ OverlayClicked
     /\ UNCHANGED <<timeout, setup>>
  \/ OtherClicked

\* Mutant of PressLost: the knob stays where the finger has put it.
PressLostAsIs == UNCHANGED <<rowVars, screenVars, timeout, setup, toHa>>

\* slider_press_lost_cb
PressLost ==
  /\ knob' = IF held = "slider" THEN model.level ELSE knob
  /\ UNCHANGED <<shown, locked, screenVars, timeout, setup, toHa>>

----------------------------------------------------------------------------
(* LVGL and the touch driver                                               *)

\* What is under the finger: a button that is locked lets a press through to
\* its row, and the slider is hidden while the light is off.
Under == IF \/ finger = "button" /\ locked
            \/ finger = "slider" /\ ~model.on
         THEN "blank" ELSE finger

\* LVGL gets PRESSED, which counts as activity. The slider jumps to the finger.
Pressed ==
  /\ read' = TRUE
  /\ idle' = 0
  /\ \/ /\ held = "none" /\ ~waiting
        /\ held' = Under
        /\ IF Under = "slider" THEN knob' \in Levels ELSE UNCHANGED knob
     \/ (held # "none" \/ waiting) /\ UNCHANGED <<held, knob>>
  /\ UNCHANGED <<lit, timeout, setup, swallow, waiting, screenVars, shown, locked, toHa>>

\* LVGL gets RELEASED.
Released ==
  /\ read' = TRUE
  /\ held' = "none" /\ waiting' = FALSE
  /\ \/ held = "none" /\ UNCHANGED <<rowVars, screenVars, timeout, setup, toHa>>
     \/ held # "none" /\ waiting /\ PressLost
     \/ held # "none" /\ ~waiting /\ Clicked

\* Mutant of ReadNothing: every read is activity.
ReadNothingActive ==
  /\ finger = "up" /\ touch' = "free"
  /\ swallow' = FALSE /\ idle' = 0
  /\ Released
  /\ UNCHANGED <<lit, finger, model, haVars>>

\* No finger.
ReadNothing ==
  /\ finger = "up" /\ touch' = "free"
  /\ swallow' = FALSE
  /\ Released
  /\ UNCHANGED <<lit, idle, finger, model, haVars>>

\* The number of points, or the position, cannot be read under a finger: once
\* in a touch. To the code the finger is gone.
ReadFails ==
  /\ finger # "up" /\ touch \in {"free", "void"}
  /\ touch' = IF swallow THEN "woke" ELSE "broken"
  /\ \/ "points" \in Glitches /\ swallow' = FALSE
     \/ "position" \in Glitches /\ lit /\ ~swallow /\ UNCHANGED swallow
  /\ Released
  /\ UNCHANGED <<lit, idle, finger, model, haVars>>

\* Mutant of ReadWake: only the read that wakes the screen is swallowed.
ReadWakeOnce ==
  /\ finger # "up" /\ (~lit \/ swallow)
  /\ IF lit THEN UNCHANGED <<lit, idle>> ELSE lit' = TRUE /\ idle' = 0
  /\ swallow' = FALSE
  /\ Released
  /\ UNCHANGED <<fingerVars, model, haVars>>

\* The touch that wakes the screen is swallowed until the finger is lifted.
ReadWake ==
  /\ finger # "up" /\ (~lit \/ swallow)
  /\ IF lit THEN UNCHANGED <<lit, idle>> ELSE lit' = TRUE /\ idle' = 0
  /\ swallow' = TRUE
  /\ Released
  /\ UNCHANGED <<fingerVars, model, haVars>>

ReadTouch ==
  /\ finger # "up" /\ lit /\ ~swallow
  /\ Pressed
  /\ UNCHANGED <<fingerVars, model, haVars>>

Read == ReadNothing \/ ReadWake \/ ReadTouch

\* brightness_drag_cb: the finger moves along the slider.
Drag ==
  /\ held = "slider" /\ finger # "up" /\ ~waiting
  /\ knob' \in Levels \ {knob}
  /\ UNCHANGED <<powerVars, fingerVars, touchVars, screenVars, shown, locked,
                 model, haVars, toHa>>

\* Mutant of SwipeTo: no stop.
SwipeOn == {page, page + 1}

\* The pages a swipe up or down leads to: show_page stops at the ends.
SwipeTo == {page} \cup ({page - 1, page + 1} \cap {0, 1})

\* gesture_cb, or popup_gesture_cb, which keeps the page: a vertical swipe.
Gesture ==
  /\ held # "none" /\ finger # "up" /\ ~waiting
  /\ waiting' = TRUE
  /\ touch' = IF touch \in {"woke", "broken"} THEN touch ELSE "void"
  /\ page' \in IF popup THEN {page} ELSE SwipeTo
  /\ UNCHANGED <<powerVars, finger, read, swallow, held, popup, rowVars, model,
                 haVars, toHa>>

----------------------------------------------------------------------------
(* The other callbacks of the UI task                                      *)

\* screen_timeout_cb, once a tick
ScreenTimer ==
  /\ read /\ read' = FALSE
  /\ idle' = IF idle < MaxIdle THEN idle + 1 ELSE idle
  /\ lit' = IF timeout = 0 \/ setup THEN TRUE ELSE lit /\ idle' < timeout
  /\ UNCHANGED <<timeout, setup, fingerVars, swallow, held, waiting, screenVars,
                 rowVars, model, haVars, toHa>>

\* action_btn_restore_cb
RestoreButton ==
  /\ locked
  /\ locked' = FALSE
  /\ UNCHANGED <<powerVars, fingerVars, touchVars, screenVars, knob, shown,
                 model, haVars, toHa>>

\* ui_entities_update and ui_widgets_update: a light that is off comes without
\* a brightness and keeps the one it had, a slider that is held stays.
HandleState ==
  /\ toPanel # <<>>
  /\ toPanel' = Tail(toPanel)
  /\ model' = [on    |-> Head(toPanel) # Off,
               level |-> IF Head(toPanel) = Off THEN model.level ELSE Head(toPanel)]
  /\ shown' = model'.on
  /\ knob' = IF held = "slider" THEN knob ELSE model'.level
  /\ UNCHANGED <<powerVars, fingerVars, touchVars, screenVars, locked, lamp, toHa>>

\* ui_manager_show_entities: everything new, and LVGL forgets the object it
\* held. The timer of a locked button would find it gone: see README.
Redraw ==
  /\ ~locked /\ ~setup
  /\ held' = "none"
  /\ page' = 0 /\ popup' = FALSE
  /\ knob' = model.level /\ shown' = model.on
  /\ UNCHANGED <<powerVars, fingerVars, read, swallow, waiting, locked, model, haVars, toHa>>

----------------------------------------------------------------------------
(* The user and Home Assistant                                             *)

Targets ==
  CASE setup             -> {"setup"}
    [] ~setup /\ popup   -> {"option", "overlay"}
    [] ~setup /\ ~popup  -> (IF page = 0 THEN Widgets ELSE {"blank"})
                              \cup {"timeout", "setup"}

FingerDown(t) ==
  /\ finger = "up" /\ held = "none"
  /\ finger' = t
  /\ touch' = IF lit THEN "free" ELSE "void"
  /\ UNCHANGED <<powerVars, touchVars, screenVars, rowVars, model, haVars, toHa>>

FingerUp ==
  /\ finger # "up"
  /\ finger' = "up"
  /\ UNCHANGED <<powerVars, touch, touchVars, screenVars, rowVars, model,
                 haVars, toHa>>

\* A state is reported when it is another one.
Becomes(state) ==
  /\ lamp' = state
  /\ IF state = lamp THEN UNCHANGED toPanel
     ELSE Len(toPanel) < MaxSent /\ toPanel' = Append(toPanel, state)

Execute ==
  /\ toHa # <<>>
  /\ toHa' = Tail(toHa)
  /\ LET cmd == Head(toHa)
     IN  CASE cmd.service = "toggle" -> \E state \in IF lamp = Off THEN Levels ELSE {Off} : Becomes(state)
           [] cmd.service = "level"  -> Becomes(cmd.level)
           [] OTHER                  -> UNCHANGED haVars
  /\ UNCHANGED <<powerVars, fingerVars, touchVars, screenVars, rowVars, model>>

\* Somebody else operates the light.
LampChanges ==
  /\ \E state \in Light \ {lamp} : Becomes(state)
  /\ UNCHANGED <<powerVars, fingerVars, touchVars, screenVars, rowVars, model, toHa>>

----------------------------------------------------------------------------
(* The specification                                                       *)

Init ==
  /\ lit = TRUE /\ idle = 0 /\ timeout \in Timeouts /\ setup = FALSE
  /\ finger = "up" /\ touch = "free"
  /\ read = FALSE /\ swallow = FALSE /\ held = "none" /\ waiting = FALSE
  /\ page = 0 /\ popup = FALSE
  /\ lamp \in Light
  /\ \E level \in IF lamp = Off THEN Levels ELSE {lamp} :
       model = [on |-> lamp # Off, level |-> level]
  /\ knob = model.level /\ shown = model.on /\ locked = FALSE
  /\ toHa = <<>> /\ toPanel = <<>>

Ui == Read \/ ReadFails \/ Drag \/ Gesture \/ ScreenTimer \/ RestoreButton
        \/ HandleState \/ Redraw

World == (\E t \in Targets : FingerDown(t)) \/ FingerUp \/ Execute \/ LampChanges

Next == Ui \/ World

Spec == Init /\ [][Next]_vars

\* The UI task goes on reading the touch driver, not all reads fail, it runs its
\* timer and takes its events; Home Assistant executes what it gets.
FairSpec == /\ Spec
            /\ WF_vars(Read) /\ WF_vars(ScreenTimer) /\ WF_vars(HandleState)
            /\ SF_vars(Execute)

----------------------------------------------------------------------------
(* Properties                                                              *)

\* The type invariant.
TypeOK ==
  /\ lit \in BOOLEAN /\ idle \in 0..MaxIdle /\ timeout \in Timeouts /\ setup \in BOOLEAN
  /\ finger \in Widgets \cup {"up", "option", "overlay", "blank", "timeout", "setup"}
  /\ touch \in {"free", "void", "woke", "broken"}
  /\ read \in BOOLEAN /\ swallow \in BOOLEAN /\ waiting \in BOOLEAN
  /\ held \in Widgets \cup {"none", "option", "overlay", "blank", "timeout", "setup"}
  /\ page \in {0, 1} /\ popup \in BOOLEAN
  /\ knob \in Levels /\ shown \in BOOLEAN /\ locked \in BOOLEAN
  /\ model \in [on : BOOLEAN, level : Levels] /\ lamp \in Light
  /\ Len(toHa) <= MaxSent /\ Len(toPanel) <= MaxSent

\* A touch that woke the screen operates no widget (US-013), nor does one that
\* has turned the page, whatever it began on (US-016): no command leaves. It
\* holds for a touch whose reads all succeed (see README: to the code the touch
\* ends with a failed read, and its rest is a new one).
Deliberate == [][Len(toHa') > Len(toHa) => touch # "void"]_vars

\* touch.c:26-27: a touch that wakes the screen is swallowed until the finger is
\* lifted, also when the number of points could not be read once.
SwallowsWholeTouch == [][Len(toHa') > Len(toHa) => touch # "woke"]_vars

\* When everything sent has arrived and the slider is not held, the light's
\* row shows what the light is: a command, a drag that was given up and states
\* that came in between leave nothing behind.
RowTrue ==
  toHa = <<>> /\ toPanel = <<>> /\ held # "slider" =>
    /\ shown = (lamp # Off) /\ model.on = shown
    /\ knob = IF lamp = Off THEN model.level ELSE lamp

\* Without a finger the screen goes dark, and stays dark.
GoesDark == <>[](finger = "up" /\ ~setup /\ timeout # 0) => <>[]~lit

=============================================================================
