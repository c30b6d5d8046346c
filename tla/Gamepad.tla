------------------------------- MODULE Gamepad -------------------------------
(***************************************************************************)
(* The controller extension (extensions/wcs-gamepad): the polling thread   *)
(* of ControllerManager, and ControllerGameplay with GameInput on the game *)
(* thread, which share the snapshot under mutex_.                          *)
(*                                                                         *)
(* A sample is what a poll reads: the action buttons that are down, the    *)
(* sticks that are deflected, whether the trigger that selects the layer   *)
(* is past its press threshold, whether some other button is down (they    *)
(* only act on their edge).  What is pressed and released at once (slots,  *)
(* keys, clicks, focus moves) holds nothing and is left out.  Nothing that *)
(* Dispatch calls comes back into the extension, so that Update's buttons  *)
(* are handled in one step.                                                *)
(***************************************************************************)
EXTENDS Integers, FiniteSets

CONSTANTS Buttons, Sticks,  \* action buttons; sticks that hold an input
          Slots             \* of the map: <<layer, button>>

Actions == {"none", "slot", "bonus", "JUMP", "UNKNOWN"}

ASSUME GamepadAssumption ==
  /\ IsFiniteSet(Buttons) /\ "jump" \notin Sticks
  /\ Slots = {0, 1} \X Buttons

Samples == [buttons : SUBSET Buttons, sticks : SUBSET Sticks,
            trigger : BOOLEAN, other : BOOLEAN]
Rest == [buttons |-> {}, sticks |-> {}, trigger |-> FALSE, other |-> FALSE]

VARIABLES
  polling,         \* the polling thread runs
  connected, current,  \* snapshot_: connected, state
  fresh,           \* snapshot_.generation, which counts changes, is not generation_
  active,          \* active_
  uiNavigation,    \* uiNavigation_
  waitForNeutral,  \* waitForNeutral_
  suppressEdges,   \* suppressEdges_
  wasForeground,   \* wasForeground_
  shifted,         \* leftTrigger_, which selects the layer
  actions,         \* actions_: the buttons Update has seen down
  captured,        \* capturedActions_
  jumpHolds,       \* jumpHolds_
  map,             \* actionMap_
  down,            \* the game's controls held down by the extension
  \* history, for the properties only
  polled,          \* current was read from a controller
  rest             \* whether a frame has found the controls at rest since the last
                   \* interruption: "seen", "presumed" of a state not polled, "unseen"

managervars == <<polling, connected, current, polled>>
modevars == <<active, uiNavigation, waitForNeutral, suppressEdges>>
framevars == <<wasForeground, fresh>>
heldvars == <<shifted, actions, captured, jumpHolds, down>>
gamepadvars == <<managervars, modevars, framevars, heldvars, map, rest>>

DefaultMap == [s \in Slots |-> "slot"]
Nothing == [b \in Buttons |-> "none"]

GamepadInit ==
  /\ polling = TRUE /\ connected = FALSE /\ current = Rest /\ fresh = TRUE
  /\ active = FALSE /\ uiNavigation = FALSE /\ waitForNeutral = FALSE /\ suppressEdges = TRUE
  /\ wasForeground = FALSE
  /\ shifted = FALSE /\ actions = {}
  /\ captured = Nothing /\ jumpHolds = 0 /\ map = DefaultMap
  /\ down = {} /\ polled = FALSE /\ rest = "unseen"

-----------------------------------------------------------------------------
(* The polling thread.                                                     *)

\* SelectBackend finds a controller.  The state is at rest until the first poll.
SelectBackend ==
  /\ polling /\ ~connected
  /\ connected' = TRUE /\ current' = Rest /\ fresh' = TRUE
  /\ polled' = FALSE /\ rest' = "unseen"
  /\ UNCHANGED <<polling, modevars, wasForeground, heldvars, map>>

Poll(s) ==
  /\ polling /\ connected
  /\ current' = s /\ polled' = TRUE
  /\ UNCHANGED <<polling, connected, modevars, framevars, heldvars, map, rest>>

\* Faulty: the generation counts controllers, not changes.
FaultyPublishDisconnected ==
  connected' = FALSE /\ current' = Rest /\ polled' = FALSE /\ rest' = "unseen" /\ UNCHANGED fresh

PublishDisconnected ==
  /\ connected' = FALSE /\ current' = Rest /\ polled' = FALSE
  /\ fresh' = (fresh \/ connected) /\ rest' = "unseen"

PollFails ==
  /\ polling /\ connected /\ PublishDisconnected
  /\ UNCHANGED <<polling, modevars, wasForeground, heldvars, map>>

\* Stop, on the game thread: the polling thread is asked to end, and awaited.
Stop ==
  /\ polling /\ polling' = FALSE /\ PublishDisconnected
  /\ UNCHANGED <<modevars, wasForeground, heldvars, map>>

-----------------------------------------------------------------------------
(* Letting go of what is held.                                             *)

Holding(c) == {b \in Buttons : c[b] = "JUMP"}

\* ReleaseCapturedActions dispatches one release for every captured action;
\* the one that brings jumpHolds_ to zero ends the jump.
JumpEnds == jumpHolds > 0 /\ jumpHolds <= Cardinality(Holding(captured))

\* Faulty: the actions are forgotten, their releases never dispatched.
FaultyReleaseCapturedActions(inputs) ==
  captured' = Nothing /\ jumpHolds' = 0 /\ down' = down \ inputs

\* ReleaseCapturedActions, with the inputs that are let go of besides.
ReleaseCapturedActions(inputs) ==
  /\ captured' = Nothing /\ jumpHolds' = 0
  /\ down' = (down \ inputs) \ (IF JumpEnds THEN {"jump"} ELSE {})

\* ReleaseCapturedActions and input_.ReleaseAll, which leaves the jump alone.
LetGo == ReleaseCapturedActions(Sticks) /\ shifted' = FALSE

Release == LetGo /\ actions' = {} /\ waitForNeutral' = TRUE

\* ResetSystemActions: what is captured is released; the map comes with
\* what the add-on then sets.
ResetSystemActions ==
  /\ ReleaseCapturedActions({})
  /\ UNCHANGED <<managervars, modevars, framevars, shifted, actions, rest>>

\* SetUINavigationActive.  Outside the world, and for the present mode, nothing.
SetUINavigationActive(on) ==
  /\ uiNavigation' = (on /\ active)
  /\ IF uiNavigation' = uiNavigation
     THEN UNCHANGED <<waitForNeutral, suppressEdges, heldvars, rest>>
     ELSE Release /\ suppressEdges' = TRUE /\ rest' = "unseen"

SetActive(on) ==
  /\ active # on /\ active' = on
  /\ Release /\ suppressEdges' = TRUE /\ rest' = "unseen"
  /\ uiNavigation' = (uiNavigation /\ on)
  /\ UNCHANGED <<managervars, framevars, map>>

OnWorldRenderEnd == SetActive(TRUE)

OnWorldLeave == SetActive(FALSE)

-----------------------------------------------------------------------------
(* Update, once per frame, with a copy of the snapshot.                    *)

Neutral(s) == s.buttons = {} /\ s.sticks = {} /\ ~s.trigger /\ ~s.other

\* What a frame that sees the controls finds.
RestNow == IF ~Neutral(current) THEN rest ELSE IF polled THEN "seen" ELSE "presumed"

Frame ==
  /\ active /\ fresh' = FALSE
  /\ UNCHANGED <<managervars, active, uiNavigation, map>>

\* The controller has gone, or another has come and gone.
FrameDisconnected ==
  /\ Frame /\ fresh /\ ~connected
  /\ Release /\ suppressEdges' = TRUE
  /\ UNCHANGED <<wasForeground, rest>>

\* The client is not in the foreground.
FrameBackground ==
  /\ Frame /\ connected
  /\ IF fresh \/ wasForeground THEN LetGo /\ waitForNeutral' = TRUE
     ELSE UNCHANGED <<captured, jumpHolds, down, shifted, waitForNeutral>>
  /\ actions' = current.buttons
  /\ wasForeground' = FALSE /\ suppressEdges' = FALSE /\ rest' = "unseen"

\* Faulty: what is held when the frame sees the controls is not waited for.
FaultyFrameWaiting ==
  /\ Frame /\ connected /\ (fresh \/ waitForNeutral)
  /\ IF fresh THEN LetGo ELSE UNCHANGED <<captured, jumpHolds, down, shifted>>
  /\ waitForNeutral' = FALSE
  /\ actions' = IF Neutral(current) THEN {} ELSE current.buttons
  /\ wasForeground' = TRUE /\ suppressEdges' = FALSE
  /\ rest' = RestNow

\* Nothing is acted on until the controls have been seen at rest.
FrameWaiting ==
  /\ Frame /\ connected /\ (fresh \/ waitForNeutral)
  /\ IF fresh THEN LetGo ELSE UNCHANGED <<captured, jumpHolds, down, shifted>>
  /\ waitForNeutral' = ~Neutral(current)
  /\ actions' = IF Neutral(current) THEN {}
                ELSE IF fresh \/ suppressEdges THEN current.buttons ELSE actions
  /\ wasForeground' = TRUE /\ suppressEdges' = FALSE
  /\ rest' = RestNow

Seen == Frame /\ connected /\ ~fresh /\ ~waitForNeutral /\ wasForeground' = TRUE

\* UpdateUINavigation: the buttons move the focus.
FrameNavigation ==
  /\ Seen /\ uiNavigation
  /\ UNCHANGED <<waitForNeutral, suppressEdges, heldvars, rest>>

Pressed == current.buttons \ actions
Released == actions \ current.buttons
Mapped(b) == map[<<IF shifted' THEN 1 ELSE 0, b>>]
Jumps == {b \in Pressed : Mapped(b) = "JUMP"}

Captured == [b \in Buttons |-> IF b \in Pressed THEN Mapped(b)
                                ELSE IF b \in Released THEN "none" ELSE captured[b]]

\* Faulty: a release is looked up in the map, as a press is.
FaultyButtonsChange ==
  LET let == {b \in Released : Mapped(b) = "JUMP"} IN
  /\ captured' = Captured /\ actions' = current.buttons
  /\ jumpHolds' = jumpHolds + Cardinality(Jumps) - Cardinality(let)
  /\ "jump" \in down' <=> (jumpHolds' > 0)

\* The action buttons: a press captures what the map says now, a release ends
\* what was captured.  The first jump begins one, which the game may refuse,
\* the end of the last ends it, in the order of the buttons.
ButtonsChange ==
  LET still == Holding(captured) \ Released IN
  /\ captured' = Captured /\ actions' = current.buttons
  /\ jumpHolds' = jumpHolds + Cardinality(Jumps) - Cardinality(Holding(captured) \cap Released)
  /\ still # {} => ("jump" \in down' <=> "jump" \in down)
  /\ still = {} /\ Jumps = {} => "jump" \notin down'

\* The sticks: a deflected one may be short of its threshold, or refused by
\* the game; one at rest lets go.  Start and Back leave the buttons to the
\* next frame.
FramePlay ==
  /\ Seen /\ ~uiNavigation
  /\ shifted' \in {current.trigger, current.trigger \/ shifted}
  /\ down' \in SUBSET (current.sticks \cup {"jump"})
  /\ \/ ButtonsChange
     \/ /\ current.other /\ ("jump" \in down' <=> "jump" \in down)
        /\ UNCHANGED <<actions, captured, jumpHolds>>
  /\ UNCHANGED <<waitForNeutral, suppressEdges, rest>>

Update ==
  \/ FrameDisconnected \/ FrameBackground \/ FrameWaiting \/ FrameNavigation \/ FramePlay
=============================================================================
