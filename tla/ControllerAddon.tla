--------------------------- MODULE ControllerAddon ---------------------------
(***************************************************************************)
(* The add-on's side of the controller (UINavigation.lua,                  *)
(* ControllerActions.lua, Core.lua) over the native side of Gamepad.tla,   *)
(* which it calls through the functions RegisterLua gives a Lua context.   *)
(* Both run on the game thread; a frame, a tick of the add-on and a game   *)
(* event are steps of their own.                                           *)
(***************************************************************************)
EXTENDS Gamepad

CONSTANTS Assignments,  \* saved assignments explored: Slots -> {"none", "JUMP", "UNKNOWN"}
          Assignable    \* bound: the slots that are assigned while the game runs

VARIABLES
  registered,   \* the functions are registered in the present Lua context
  navActive,    \* Navigation.active
  syncDirty,    \* Controller.syncDirty
  bonusSeen,    \* Controller.resolvedMain: the bonus bar was shown
  assignments,  \* WCSDB.controller.assignments
  panel,        \* the settings allow navigation, and a panel for it is shown
  combat,       \* InCombatLockdown
  diverged      \* history: the native mode changed, or the add-on restarted, untold

gamevars == <<panel, combat>>
syncvars == <<syncDirty, bonusSeen, assignments>>
addonvars == <<registered, navActive, diverged>>
vars == <<gamepadvars, gamevars, syncvars, addonvars>>

Init ==
  /\ GamepadInit
  /\ registered = FALSE /\ navActive = FALSE /\ syncDirty = TRUE /\ bonusSeen = FALSE
  /\ assignments \in Assignments
  /\ panel = FALSE /\ combat = FALSE /\ diverged = FALSE

-----------------------------------------------------------------------------
(* Navigation of the panels.                                               *)

ShouldActivate(shown, fighting) == shown /\ ~fighting /\ registered

\* Faulty: the mode is taken for granted.
FaultyNavigationSetActive(on) ==
  IF on = navActive
  THEN UNCHANGED <<gamepadvars, navActive, diverged>>
  ELSE /\ SetUINavigationActive(on)
       /\ navActive' = on /\ diverged' = FALSE
       /\ UNCHANGED <<managervars, framevars, map, active>>

\* Navigation:SetActive(on): the native side is told of a change only.
NavigationSetActive(on) ==
  IF on = navActive
  THEN UNCHANGED <<gamepadvars, navActive, diverged>>
  ELSE /\ SetUINavigationActive(on)
       /\ navActive' = (on /\ active) /\ diverged' = FALSE
       /\ UNCHANGED <<managervars, framevars, map, active>>

\* Navigation:Tick, which reconciles ten times a second.
NavigationTick ==
  /\ NavigationSetActive(ShouldActivate(panel, combat))
  /\ UNCHANGED <<gamevars, syncvars, registered>>

\* PLAYER_REGEN_DISABLED.
EnterCombat ==
  /\ ~combat /\ combat' = TRUE
  /\ NavigationSetActive(FALSE)
  /\ UNCHANGED <<panel, syncvars, registered>>

\* PLAYER_REGEN_ENABLED.
LeaveCombat ==
  /\ combat /\ combat' = FALSE
  /\ NavigationSetActive(ShouldActivate(panel, FALSE))
  /\ syncDirty' = TRUE
  /\ UNCHANGED <<panel, bonusSeen, assignments, registered>>

\* PLAYER_ENTERING_WORLD.
EnteringWorld ==
  /\ NavigationSetActive(ShouldActivate(panel, combat))
  /\ syncDirty' = TRUE
  /\ UNCHANGED <<gamevars, bonusSeen, assignments, registered>>

\* The settings' checks, which reconcile.
SetEnabled(on) ==
  /\ panel # on /\ panel' = on
  /\ NavigationSetActive(ShouldActivate(on, combat))
  /\ UNCHANGED <<combat, syncvars, registered>>

-----------------------------------------------------------------------------
(* The action map.                                                         *)

\* GetOverride, and the action of a slot without one.
Wanted(s) == IF assignments[s] # "none" THEN assignments[s]
             ELSE IF bonusSeen' /\ s[1] = 0 THEN "bonus" ELSE "slot"
Unknown == {s \in Slots : assignments[s] = "UNKNOWN"}

\* ResolveMainActions: the bar may have changed since.
ResolveMainActions == bonusSeen' \in BOOLEAN

\* SyncSystemActions.  An unknown action ends it: Native:SetSystemAction turns
\* the answer "not supported" into nil, "not available".
SyncSystemActions ==
  /\ ResetSystemActions
  /\ \/ /\ Unknown = {} /\ syncDirty' = FALSE
        /\ map' = [s \in Slots |-> Wanted(s)]
     \/ /\ syncDirty' = TRUE
        /\ \E u \in Unknown, done \in SUBSET (Slots \ Unknown) :
             map' = [s \in Slots |-> IF s = u THEN "UNKNOWN"
                                     ELSE IF s \in done THEN Wanted(s) ELSE "slot"]

\* Faulty: the bar that is shown is resolved, and the map is not synchronised.
FaultyControllerTick ==
  /\ ResolveMainActions
  /\ IF registered /\ syncDirty THEN SyncSystemActions
     ELSE UNCHANGED <<gamepadvars, syncDirty>>
  /\ UNCHANGED <<gamevars, assignments, addonvars>>

\* Controller:Tick.
ControllerTick ==
  /\ ResolveMainActions
  /\ IF registered /\ (syncDirty \/ bonusSeen' # bonusSeen) THEN SyncSystemActions
     ELSE syncDirty' = (syncDirty \/ bonusSeen' # bonusSeen) /\ UNCHANGED gamepadvars
  /\ UNCHANGED <<gamevars, assignments, addonvars>>

\* ACTIONBAR_PAGE_CHANGED, UPDATE_BONUS_ACTIONBAR, UPDATE_SHAPESHIFT_FORM.
BarChanged ==
  /\ ResolveMainActions /\ bonusSeen' # bonusSeen /\ syncDirty' = TRUE
  /\ UNCHANGED <<gamepadvars, gamevars, assignments, addonvars>>

\* SetOverride, DropOn and ClearAssignment.  What the cursor carries was taken
\* from the palette or from a slot, which loses its assignment.
DropOn(s, action, origin) ==
  /\ ~combat
  /\ assignments' = [t \in Slots |-> IF t = s THEN action
                                     ELSE IF t = origin THEN "none" ELSE assignments[t]]
  /\ assignments' # assignments /\ syncDirty' = TRUE
  /\ UNCHANGED <<gamepadvars, gamevars, bonusSeen, addonvars>>

\* /wcs reset, which combat does not refuse.
Reset ==
  /\ assignments' = [s \in Slots |-> "none"] /\ syncDirty' = TRUE
  /\ UNCHANGED <<gamepadvars, gamevars, bonusSeen, addonvars>>

-----------------------------------------------------------------------------
(* The native side, the game and the interface.                            *)

\* OnUpdate: RegisterLua, then the frame.
OnUpdate ==
  /\ Update /\ registered' = TRUE
  /\ UNCHANGED <<gamevars, syncvars, navActive, diverged>>

\* A frame outside the world, or with nothing new.
RegisterLua ==
  /\ ~registered /\ registered' = TRUE
  /\ UNCHANGED <<gamepadvars, gamevars, syncvars, navActive, diverged>>

\* A loading screen clears the native mode and does not tell the add-on.
World ==
  /\ OnWorldRenderEnd \/ OnWorldLeave
  /\ diverged' = (diverged \/ uiNavigation' # uiNavigation)
  /\ UNCHANGED <<gamevars, syncvars, registered, navActive>>

PollingThread ==
  /\ SelectBackend \/ (\E s \in Samples : Poll(s)) \/ PollFails \/ Stop
  /\ UNCHANGED <<gamevars, syncvars, addonvars>>

\* /reload: a new Lua context, and the add-on anew from what is saved.  In the
\* world the native side keeps its mode.
Reload ==
  /\ registered' = FALSE /\ navActive' = FALSE /\ panel' = FALSE
  /\ syncDirty' = TRUE /\ ResolveMainActions
  /\ diverged' = (diverged \/ uiNavigation)
  /\ UNCHANGED <<gamepadvars, combat, assignments>>

Panel(shown) ==
  /\ panel # shown /\ panel' = shown
  /\ UNCHANGED <<gamepadvars, combat, syncvars, addonvars>>

Next ==
  \/ OnUpdate \/ RegisterLua \/ World \/ PollingThread \/ Reload
  \/ NavigationTick \/ ControllerTick \/ EnterCombat \/ LeaveCombat \/ EnteringWorld
  \/ \E on \in BOOLEAN : SetEnabled(on) \/ Panel(on)
  \/ \E s \in Assignable, origin \in Slots \cup {"palette"} : DropOn(s, "JUMP", origin)
  \/ \E s \in Assignable : DropOn(s, "none", s)
  \/ BarChanged \/ Reset

Spec == Init /\ [][Next]_vars

\* The client runs frames as long as it runs.
FairSpec == Spec /\ WF_vars(OnUpdate)

-----------------------------------------------------------------------------
\* The jump the game was asked to begin belongs to a button that is still held
\* and captured it, whatever was assigned, shifted or paged since, and the
\* count of holds is the number of those buttons: it can never be left on.
JumpIsCounted ==
  /\ jumpHolds = Cardinality(Holding(captured))
  /\ "jump" \in down => Holding(captured) \cap actions # {}

\* While the controls are paused, for a panel, a loading screen or until they
\* are back at rest, the extension holds nothing in the game.
NothingHeldWhilePaused ==
  down # {} => active /\ ~uiNavigation /\ ~waitForNeutral

\* After a disconnect, a change of controller, a loss of focus, a loading
\* screen or a change of mode nothing is pressed before a frame has found the
\* controls at rest (docs/CONTROLLER.md:60).  The exception is a frame between
\* SelectBackend and the first poll, which takes the state that SelectBackend
\* publishes for the controls at rest: what is held on the new controller is
\* then pressed by the next frame.
PressesFollowNeutral ==
  [][rest = "unseen" => down' \subseteq down]_vars

\* The add-on and the native side agree on the mode, and combat ends it, but
\* for a mode that changed untold: across /reload and a loading screen.
NavigationIsMirrored ==
  ~diverged => navActive = uiNavigation /\ (combat => ~uiNavigation)

\* Once synchronised, the map is what the assignments and the bar that the
\* add-on last saw say, also across changes of both between two ticks.
MapFollowsAssignments ==
  ~syncDirty => \A s \in Slots :
    map[s] = IF assignments[s] # "none" THEN assignments[s]
             ELSE IF bonusSeen /\ s[1] = 0 THEN "bonus" ELSE "slot"

\* What a controller held when it went away is let go of.
DisconnectedLetsGo == ~connected /\ active ~> down = {} \/ connected \/ ~active
=============================================================================
