---------------------------- MODULE GamepadProofs ----------------------------
(***************************************************************************)
(* The controller extension under its add-on, for every set of buttons,    *)
(* sticks and assignments: the jump is counted, and nothing is held while  *)
(* the controls are paused.                                                *)
(***************************************************************************)
EXTENDS ControllerAddon, FiniteSetTheorems, TLAPS

(***************************************************************************)
(* Only buttons that Update has seen down hold a jump, none does while the *)
(* controls are paused or WoW was in the background.                       *)
(***************************************************************************)
Kept ==
  /\ current \in Samples /\ actions \subseteq Buttons
  /\ Holding(captured) \subseteq actions
  /\ waitForNeutral \/ ~wasForeground => Holding(captured) = {}

Counted == jumpHolds = Cardinality(Holding(captured))

InGame ==
  /\ down \subseteq Sticks \cup {"jump"}
  /\ "jump" \in down => Holding(captured) # {}

GamepadInv == Kept /\ Counted /\ InGame /\ NothingHeldWhilePaused

LEMMA NothingHolds == Holding(Nothing) = {}
BY DEF Holding, Nothing

LEMMA HoldingIsFinite ==
  ASSUME NEW c PROVE IsFiniteSet(Holding(c)) /\ Cardinality(Holding(c)) \in Nat
BY GamepadAssumption, FS_Subset, FS_CardinalityType DEF Holding

LEMMA DisjointCardinality ==
  ASSUME NEW S, NEW T, IsFiniteSet(S), IsFiniteSet(T), S \cap T = {}
  PROVE  Cardinality(S \cup T) = Cardinality(S) + Cardinality(T)
<1>1. Cardinality(S \cap T) = 0
  BY FS_EmptySet
<1>2. Cardinality(S \cup T) = Cardinality(S) + Cardinality(T) - Cardinality(S \cap T)
  BY FS_Union
<1>3. Cardinality(S) \in Nat /\ Cardinality(T) \in Nat
  BY FS_CardinalityType
<1> QED
  BY <1>1, <1>2, <1>3

\* ReleaseCapturedActions lets go of the jump, and forgets who held it.
LEMMA ReleaseKeeps ==
  ASSUME Counted, InGame, NEW inputs, ReleaseCapturedActions(inputs)
  PROVE  /\ Holding(captured') = {} /\ Counted'
         /\ down' \subseteq down \ inputs /\ "jump" \notin down'
<1>1. Holding(captured') = {}
  BY NothingHolds DEF ReleaseCapturedActions
<1>2. Counted'
  BY <1>1, FS_EmptySet DEF ReleaseCapturedActions, Counted
<1>3. Holding(captured) # {} => JumpEnds
  <2>1. Holding(captured) # {} => Cardinality(Holding(captured)) # 0
    BY HoldingIsFinite, FS_EmptySet
  <2> QED
    BY <2>1, HoldingIsFinite DEF Counted, JumpEnds
<1>4. "jump" \notin down'
  BY <1>3 DEF InGame, ReleaseCapturedActions
<1> QED
  BY <1>1, <1>2, <1>4 DEF ReleaseCapturedActions

\* LetGo leaves nothing held, and whatever the mode is next, that is sound.
LEMMA LetGoKeeps ==
  ASSUME GamepadInv, LetGo, current' \in Samples, actions' \subseteq Buttons
  PROVE  GamepadInv'
<1>1. Holding(captured') = {} /\ Counted' /\ down' = {}
  BY ReleaseKeeps DEF GamepadInv, LetGo, InGame
<1> QED
  BY <1>1 DEF GamepadInv, Kept, InGame, NothingHeldWhilePaused

\* What the invariant reads of a step that leaves the held inputs alone.
LEMMA ModeKeeps ==
  ASSUME GamepadInv, UNCHANGED <<captured, jumpHolds, down, actions>>, current' \in Samples,
         waitForNeutral' => waitForNeutral, wasForeground => wasForeground',
         active => active', uiNavigation' => uiNavigation
  PROVE  GamepadInv'
BY DEF GamepadInv, Kept, Counted, InGame, NothingHeldWhilePaused

(***************************************************************************)
(* The buttons                                                             *)
(***************************************************************************)
LEMMA ButtonsKeep ==
  ASSUME Kept, ButtonsChange
  PROVE  Holding(captured') = Jumps \cup (Holding(captured) \ Released)
<1>1. Holding(captured') = {b \in Buttons : Captured[b] = "JUMP"}
  BY DEF ButtonsChange, Holding
<1>2. ASSUME NEW b \in Buttons
      PROVE  Captured[b] = "JUMP" <=> b \in Jumps \cup (Holding(captured) \ Released)
  BY DEF Captured, Jumps, Pressed, Released, Holding, Kept
<1>3. Jumps \cup (Holding(captured) \ Released) \subseteq Buttons
  BY DEF Jumps, Pressed, Holding, Kept, Samples
<1> QED
  BY <1>1, <1>2, <1>3

LEMMA ButtonsCount ==
  ASSUME Kept, Counted, ButtonsChange PROVE Counted'
<1> DEFINE held == Holding(captured)
           gone == held \cap Released
           still == held \ Released
<1>1. IsFiniteSet(held) /\ IsFiniteSet(gone) /\ IsFiniteSet(still) /\ IsFiniteSet(Jumps)
  <2>1. Jumps \subseteq Buttons
    BY DEF Jumps, Pressed, Kept, Samples
  <2> QED
    BY <2>1, HoldingIsFinite, FS_Subset, GamepadAssumption
<1>2. Jumps \cap still = {} /\ gone \cap still = {} /\ gone \cup still = held
  BY DEF Jumps, Pressed, Kept
<1>3. Cardinality(Jumps \cup still) = Cardinality(Jumps) + Cardinality(still)
  BY <1>1, <1>2, DisjointCardinality
<1>4. Cardinality(held) = Cardinality(gone) + Cardinality(still)
  <2>1. Cardinality(gone \cup still) = Cardinality(gone) + Cardinality(still)
    BY <1>1, <1>2, DisjointCardinality
  <2> HIDE DEF held, gone, still
  <2> QED
    BY <1>2, <2>1
<1>5. jumpHolds' = Cardinality(held) + Cardinality(Jumps) - Cardinality(gone)
  BY DEF ButtonsChange, Counted
<1>6. /\ Cardinality(held) \in Nat /\ Cardinality(gone) \in Nat
      /\ Cardinality(still) \in Nat /\ Cardinality(Jumps) \in Nat
  BY <1>1, FS_CardinalityType
<1>7. jumpHolds' = Cardinality(Jumps \cup still)
  BY <1>3, <1>4, <1>5, <1>6
<1> QED
  BY <1>7, ButtonsKeep DEF Counted

(***************************************************************************)
(* The steps of the native side                                            *)
(***************************************************************************)
LEMMA PlayKeeps == GamepadInv /\ FramePlay => GamepadInv'
<1> SUFFICES ASSUME GamepadInv, FramePlay PROVE GamepadInv'
  OBVIOUS
<1>1. /\ active' = active /\ active /\ ~uiNavigation /\ uiNavigation' = uiNavigation
      /\ ~waitForNeutral /\ waitForNeutral' = waitForNeutral /\ wasForeground' = TRUE
      /\ current' = current /\ down' \subseteq current.sticks \cup {"jump"}
  BY DEF FramePlay, Seen, Frame, managervars
<1>2. down' \subseteq Sticks \cup {"jump"}
  BY <1>1 DEF GamepadInv, Kept, Samples
<1>3. NothingHeldWhilePaused'
  BY <1>1 DEF NothingHeldWhilePaused
<1>4. CASE ButtonsChange
  <2>1. Holding(captured') = Jumps \cup (Holding(captured) \ Released)
    BY <1>4, ButtonsKeep DEF GamepadInv
  <2>2. Counted'
    BY <1>4, ButtonsCount DEF GamepadInv
  <2>3. actions' = current.buttons /\ current.buttons \subseteq Buttons
    BY <1>4 DEF ButtonsChange, GamepadInv, Kept, Samples
  <2>4. Holding(captured') \subseteq actions'
    BY <2>1, <2>3 DEF Jumps, Pressed, Released, GamepadInv, Kept
  <2>5. Kept'
    BY <1>1, <2>3, <2>4 DEF GamepadInv, Kept
  <2>6. "jump" \in down' => Holding(captured') # {}
    BY <1>4, <2>1 DEF ButtonsChange, GamepadInv, InGame
  <2> QED
    BY <1>2, <1>3, <2>2, <2>5, <2>6 DEF GamepadInv, InGame
<1>5. CASE ("jump" \in down' <=> "jump" \in down) /\ UNCHANGED <<actions, captured, jumpHolds>>
  BY <1>1, <1>2, <1>3, <1>5 DEF GamepadInv, Kept, Counted, InGame
<1> QED
  BY <1>4, <1>5 DEF FramePlay

LEMMA UpdateKeeps == GamepadInv /\ Update => GamepadInv'
<1> SUFFICES ASSUME GamepadInv, Update PROVE GamepadInv'
  OBVIOUS
<1>1. current \in Samples /\ actions \subseteq Buttons /\ current.buttons \subseteq Buttons
  BY DEF GamepadInv, Kept, Samples
<1>2. CASE FrameDisconnected
  BY <1>1, <1>2, LetGoKeeps DEF FrameDisconnected, Frame, managervars, Release
<1>3. CASE FrameBackground
  <2>1. current' = current /\ actions' = current.buttons /\ UNCHANGED <<active, uiNavigation>>
    BY <1>3 DEF FrameBackground, Frame, managervars
  <2>2. CASE fresh \/ wasForeground
    BY <1>1, <1>3, <2>1, <2>2, LetGoKeeps DEF FrameBackground
  <2>3. CASE ~(fresh \/ wasForeground)
    <3>1. UNCHANGED <<captured, jumpHolds, down, waitForNeutral>> /\ Holding(captured) = {}
      BY <1>3, <2>3 DEF FrameBackground, GamepadInv, Kept
    <3> QED
      BY <1>1, <2>1, <3>1 DEF GamepadInv, Kept, Counted, InGame, NothingHeldWhilePaused
  <2> QED
    BY <2>2, <2>3
<1>4. CASE FrameWaiting
  <2>1. /\ current' = current /\ actions' \subseteq Buttons /\ UNCHANGED <<active, uiNavigation>>
        /\ wasForeground' = TRUE
    BY <1>1, <1>4 DEF FrameWaiting, Frame, managervars
  <2>2. CASE fresh
    BY <1>1, <1>4, <2>1, <2>2, LetGoKeeps DEF FrameWaiting
  <2>3. CASE ~fresh
    <3>1. /\ UNCHANGED <<captured, jumpHolds, down>> /\ waitForNeutral
          /\ Holding(captured) = {} /\ down = {}
      BY <1>4, <2>3 DEF FrameWaiting, GamepadInv, Kept, NothingHeldWhilePaused
    <3> QED
      BY <1>1, <2>1, <3>1 DEF GamepadInv, Kept, Counted, InGame, NothingHeldWhilePaused
  <2> QED
    BY <2>2, <2>3
<1>5. CASE FrameNavigation
  BY <1>1, <1>5, ModeKeeps DEF FrameNavigation, Seen, Frame, managervars, heldvars
<1>6. CASE FramePlay
  BY <1>6, PlayKeeps
<1> QED
  BY <1>2, <1>3, <1>4, <1>5, <1>6 DEF Update

LEMMA SetUINavigationKeeps ==
  ASSUME GamepadInv, NEW on \in BOOLEAN, SetUINavigationActive(on),
         UNCHANGED <<managervars, framevars, map, active>>
  PROVE  GamepadInv'
<1>1. current' = current /\ current \in Samples /\ UNCHANGED <<active, wasForeground>>
  BY DEF managervars, framevars, GamepadInv, Kept
<1>2. CASE uiNavigation' = uiNavigation
  BY <1>1, <1>2, ModeKeeps DEF SetUINavigationActive, heldvars
<1>3. CASE uiNavigation' # uiNavigation
  BY <1>1, <1>3, LetGoKeeps DEF SetUINavigationActive, Release
<1> QED
  BY <1>2, <1>3

LEMMA PollingKeeps == GamepadInv /\ PollingThread => GamepadInv'
<1> SUFFICES ASSUME GamepadInv, PollingThread PROVE GamepadInv'
  OBVIOUS
<1>1. UNCHANGED <<modevars, wasForeground, heldvars>>
  BY DEF PollingThread, SelectBackend, Poll, PollFails, Stop, framevars
<1>2. current' \in Samples
  <2>1. Rest \in Samples
    BY DEF Rest, Samples
  <2>2. (\E s \in Samples : Poll(s)) => current' \in Samples
    BY DEF Poll
  <2>3. SelectBackend \/ PollFails \/ Stop => current' = Rest
    BY DEF SelectBackend, PollFails, Stop, PublishDisconnected
  <2> QED
    BY <2>1, <2>2, <2>3 DEF PollingThread
<1> QED
  BY <1>1, <1>2, ModeKeeps DEF modevars, heldvars

LEMMA WorldKeeps == GamepadInv /\ World => GamepadInv'
<1> SUFFICES ASSUME GamepadInv, World PROVE GamepadInv'
  OBVIOUS
<1>1. PICK on \in BOOLEAN : SetActive(on)
  BY DEF World, OnWorldRenderEnd, OnWorldLeave
<1>2. current' = current /\ current \in Samples /\ LetGo /\ actions' = {}
  BY <1>1 DEF SetActive, Release, managervars, GamepadInv, Kept
<1> QED
  BY <1>2, LetGoKeeps

\* A frame or a callback that calls ResetSystemActions.
LEMMA ResetKeeps == GamepadInv /\ ResetSystemActions => GamepadInv'
<1> SUFFICES ASSUME GamepadInv, ResetSystemActions PROVE GamepadInv'
  OBVIOUS
<1>1. Holding(captured') = {} /\ Counted' /\ down' \subseteq down \ {} /\ "jump" \notin down'
  BY ReleaseKeeps DEF GamepadInv, ResetSystemActions
<1>2. UNCHANGED <<active, uiNavigation, waitForNeutral, wasForeground, actions, current>>
  BY DEF ResetSystemActions, managervars, modevars, framevars
<1> QED
  BY <1>1, <1>2 DEF GamepadInv, Kept, InGame, NothingHeldWhilePaused

LEMMA UnchangedKeeps == GamepadInv /\ UNCHANGED gamepadvars => GamepadInv'
BY ModeKeeps DEF gamepadvars, managervars, modevars, framevars, heldvars, GamepadInv, Kept

LEMMA NavigationKeeps ==
  ASSUME GamepadInv, NEW on \in BOOLEAN, NavigationSetActive(on) PROVE GamepadInv'
BY SetUINavigationKeeps, UnchangedKeeps DEF NavigationSetActive

LEMMA AddonKeeps ==
  ASSUME GamepadInv,
         \/ NavigationTick \/ ControllerTick \/ EnterCombat \/ LeaveCombat \/ EnteringWorld
         \/ \E on \in BOOLEAN : SetEnabled(on)
  PROVE  GamepadInv'
<1>1. \A shown, fighting : ShouldActivate(shown, fighting) \in BOOLEAN
  BY DEF ShouldActivate
<1>2. CASE ControllerTick
  BY <1>2, ResetKeeps, UnchangedKeeps DEF ControllerTick, SyncSystemActions
<1>3. CASE NavigationTick
  BY <1>1, <1>3, NavigationKeeps DEF NavigationTick
<1>4. CASE EnterCombat
  BY <1>4, NavigationKeeps DEF EnterCombat
<1>5. CASE LeaveCombat
  BY <1>1, <1>5, NavigationKeeps DEF LeaveCombat
<1>6. CASE EnteringWorld
  BY <1>1, <1>6, NavigationKeeps DEF EnteringWorld
<1>7. CASE \E on \in BOOLEAN : SetEnabled(on)
  BY <1>1, <1>7, NavigationKeeps DEF SetEnabled
<1> QED
  BY <1>2, <1>3, <1>4, <1>5, <1>6, <1>7

LEMMA GamepadInvariant == Spec => []GamepadInv
<1>1. Init => GamepadInv
  <2> SUFFICES ASSUME Init PROVE GamepadInv
    OBVIOUS
  <2>1. Holding(captured) = {} /\ Cardinality(Holding(captured)) = 0
    BY NothingHolds, FS_EmptySet DEF Init, GamepadInit
  <2>2. Counted
    BY <2>1 DEF Init, GamepadInit, Counted
  <2> QED
    BY <2>1, <2>2 DEF Init, GamepadInit, GamepadInv, Kept, InGame, NothingHeldWhilePaused,
                      Samples, Rest
<1>2. GamepadInv /\ [Next]_vars => GamepadInv'
  <2> SUFFICES ASSUME GamepadInv, [Next]_vars PROVE GamepadInv'
    OBVIOUS
  <2>1. CASE OnUpdate
    BY <2>1, UpdateKeeps DEF OnUpdate
  <2>2. CASE World
    BY <2>2, WorldKeeps
  <2>3. CASE PollingThread
    BY <2>3, PollingKeeps
  <2>4. CASE \/ NavigationTick \/ ControllerTick \/ EnterCombat \/ LeaveCombat \/ EnteringWorld
             \/ \E on \in BOOLEAN : SetEnabled(on)
    BY <2>4, AddonKeeps
  <2>5. CASE UNCHANGED gamepadvars
    BY <2>5, UnchangedKeeps
  <2> QED
    BY <2>1, <2>2, <2>3, <2>4, <2>5
       DEF Next, RegisterLua, Reload, Panel, DropOn, BarChanged, Reset, vars
<1> QED
  BY <1>1, <1>2, PTL DEF Spec

\* The count of holds is the number of buttons that hold the jump, and the jump
\* the game was asked for belongs to one of them, for every set of buttons.
THEOREM JumpsAreCounted == Spec => []JumpIsCounted
<1>1. GamepadInv => JumpIsCounted
  BY DEF GamepadInv, Kept, Counted, InGame, JumpIsCounted
<1> QED
  BY <1>1, GamepadInvariant, PTL

\* A panel, a loading screen or a wait for neutral leaves nothing held.
THEOREM NothingIsHeldWhilePaused == Spec => []NothingHeldWhilePaused
<1>1. GamepadInv => NothingHeldWhilePaused
  BY DEF GamepadInv
<1> QED
  BY <1>1, GamepadInvariant, PTL

(***************************************************************************)
(* What has not been at rest since an interruption is waited for           *)
(***************************************************************************)
RestInv == ~fresh => (rest = "unseen" \/ ~connected \/ ~wasForeground => waitForNeutral)

LEMMA UpdateRests == RestInv /\ Update => RestInv'
<1> SUFFICES ASSUME RestInv, Update PROVE RestInv'
  OBVIOUS
<1>1. CASE FrameDisconnected
  BY <1>1 DEF FrameDisconnected, Release, RestInv
<1>2. CASE FrameBackground
  BY <1>2 DEF FrameBackground, RestInv
<1>3. CASE FrameWaiting
  BY <1>3 DEF FrameWaiting, RestNow, Frame, managervars, RestInv
<1>4. CASE FrameNavigation
  BY <1>4 DEF FrameNavigation, Seen, Frame, managervars, RestInv
<1>5. CASE FramePlay
  BY <1>5 DEF FramePlay, Seen, Frame, managervars, RestInv
<1> QED
  BY <1>1, <1>2, <1>3, <1>4, <1>5 DEF Update

LEMMA SetUINavigationRests ==
  ASSUME RestInv, NEW on, SetUINavigationActive(on), UNCHANGED <<managervars, framevars>>
  PROVE  RestInv' /\ down' \subseteq down
BY DEF SetUINavigationActive, Release, LetGo, ReleaseCapturedActions, heldvars, managervars,
       framevars, RestInv

LEMMA NavigationRests ==
  ASSUME RestInv, NEW on, NavigationSetActive(on) PROVE RestInv' /\ down' \subseteq down
<1>1. CASE on = navActive
  BY <1>1 DEF NavigationSetActive, gamepadvars, managervars, modevars, framevars, heldvars, RestInv
<1>2. CASE on # navActive
  BY <1>2, SetUINavigationRests DEF NavigationSetActive
<1> QED
  BY <1>1, <1>2

LEMMA PollingRests == RestInv /\ PollingThread => RestInv' /\ UNCHANGED down
<1> SUFFICES ASSUME RestInv, PollingThread PROVE RestInv' /\ UNCHANGED down
  OBVIOUS
<1>1. CASE SelectBackend
  BY <1>1 DEF SelectBackend, heldvars, RestInv
<1>2. CASE \E s \in Samples : Poll(s)
  BY <1>2 DEF Poll, modevars, framevars, heldvars, RestInv
<1>3. CASE PollFails \/ Stop
  BY <1>3 DEF PollFails, Stop, PublishDisconnected, modevars, heldvars, RestInv
<1> QED
  BY <1>1, <1>2, <1>3 DEF PollingThread

LEMMA WorldRests == RestInv /\ World => RestInv' /\ down' \subseteq down
BY DEF World, OnWorldRenderEnd, OnWorldLeave, SetActive, Release, LetGo, ReleaseCapturedActions,
       managervars, framevars, RestInv

LEMMA ResetRests == RestInv /\ ResetSystemActions => RestInv' /\ down' \subseteq down
BY DEF ResetSystemActions, ReleaseCapturedActions, managervars, modevars, framevars, RestInv

LEMMA UnchangedRests == RestInv /\ UNCHANGED gamepadvars => RestInv' /\ UNCHANGED down
BY DEF gamepadvars, managervars, modevars, framevars, heldvars, RestInv

LEMMA OthersRest ==
  RestInv /\ [Next]_vars /\ ~OnUpdate => RestInv' /\ down' \subseteq down
<1> SUFFICES ASSUME RestInv, [Next]_vars, ~OnUpdate PROVE RestInv' /\ down' \subseteq down
  OBVIOUS
<1>1. CASE World
  BY <1>1, WorldRests
<1>2. CASE PollingThread
  BY <1>2, PollingRests
<1>3. CASE ControllerTick
  BY <1>3, ResetRests, UnchangedRests DEF ControllerTick, SyncSystemActions
<1>4. CASE \/ NavigationTick \/ EnterCombat \/ LeaveCombat \/ EnteringWorld
           \/ \E on \in BOOLEAN : SetEnabled(on)
  BY <1>4, NavigationRests DEF NavigationTick, EnterCombat, LeaveCombat, EnteringWorld, SetEnabled
<1>5. CASE UNCHANGED gamepadvars
  BY <1>5, UnchangedRests
<1> QED
  BY <1>1, <1>2, <1>3, <1>4, <1>5 DEF Next, RegisterLua, Reload, Panel, DropOn, BarChanged,
                                      Reset, vars

\* Nothing is pressed after an interruption before a frame has found the
\* controls at rest, or taken the state before the first poll for it, for every
\* number of controls.
THEOREM PressesAlwaysFollowNeutral == Spec => PressesFollowNeutral
<1>1. Init => RestInv
  BY DEF Init, GamepadInit, RestInv
<1>2. RestInv /\ [Next]_vars => RestInv'
  BY OthersRest, UpdateRests DEF OnUpdate
<1>3. RestInv /\ [Next]_vars => [rest = "unseen" => down' \subseteq down]_vars
  <2> SUFFICES ASSUME RestInv, [Next]_vars, rest = "unseen" PROVE down' \subseteq down
    OBVIOUS
  <2>1. CASE OnUpdate
    <3>1. ~FramePlay
      BY DEF FramePlay, Seen, RestInv
    <3>2. FrameDisconnected \/ FrameBackground \/ FrameWaiting \/ FrameNavigation
      BY <2>1, <3>1 DEF OnUpdate, Update
    <3> QED
      BY <3>2 DEF FrameDisconnected, FrameBackground, FrameWaiting, FrameNavigation, Release,
                  LetGo, ReleaseCapturedActions, heldvars
  <2>2. CASE ~OnUpdate
    BY <2>2, OthersRest
  <2> QED
    BY <2>1, <2>2
<1> QED
  BY <1>1, <1>2, <1>3, PTL DEF Spec, PressesFollowNeutral

(***************************************************************************)
(* The add-on                                                              *)
(***************************************************************************)
\* Every step but a synchronisation leaves the map alone.
LEMMA MapStays ==
  [Next]_vars => ControllerTick \/ UNCHANGED map
<1> SUFFICES ASSUME [Next]_vars, ~ControllerTick PROVE UNCHANGED map
  OBVIOUS
<1>1. CASE OnUpdate
  BY <1>1 DEF OnUpdate, Update, FrameDisconnected, FrameBackground, FrameWaiting,
              FrameNavigation, FramePlay, Seen, Frame
<1>2. CASE World \/ PollingThread
  BY <1>2 DEF World, OnWorldRenderEnd, OnWorldLeave, SetActive, PollingThread, SelectBackend,
              Poll, PollFails, Stop
<1>3. CASE \/ NavigationTick \/ EnterCombat \/ LeaveCombat \/ EnteringWorld
           \/ \E on \in BOOLEAN : SetEnabled(on)
  <2>1. \A on : NavigationSetActive(on) => UNCHANGED map
    BY DEF NavigationSetActive, gamepadvars
  <2> QED
    BY <1>3, <2>1 DEF NavigationTick, EnterCombat, LeaveCombat, EnteringWorld, SetEnabled
<1>4. CASE UNCHANGED gamepadvars
  BY <1>4 DEF gamepadvars
<1> QED
  BY <1>1, <1>2, <1>3, <1>4 DEF Next, RegisterLua, Reload, Panel, DropOn, BarChanged, Reset, vars

\* The map says what the assignments and the bar say, whenever the add-on
\* believes so, for every set of buttons and every assignment.
THEOREM MapAlwaysFollowsAssignments == Spec => []MapFollowsAssignments
<1>1. Init => MapFollowsAssignments
  BY DEF Init, MapFollowsAssignments
<1>2. MapFollowsAssignments /\ [Next]_vars => MapFollowsAssignments'
  <2> SUFFICES ASSUME MapFollowsAssignments, [Next]_vars, ~syncDirty' PROVE MapFollowsAssignments'
    BY DEF MapFollowsAssignments
  <2>1. CASE ControllerTick
    <3>1. assignments' = assignments
      BY <2>1 DEF ControllerTick
    <3>2. CASE SyncSystemActions
      <4>1. map' = [s \in Slots |-> Wanted(s)]
        BY <3>2 DEF SyncSystemActions
      <4> QED
        BY <3>1, <4>1 DEF MapFollowsAssignments, Wanted
    <3>3. CASE syncDirty' = (syncDirty \/ bonusSeen' # bonusSeen) /\ UNCHANGED gamepadvars
      <4>1. ~syncDirty /\ bonusSeen' = bonusSeen /\ map' = map
        BY <3>3 DEF gamepadvars
      <4> QED
        BY <3>1, <4>1 DEF MapFollowsAssignments
    <3> QED
      BY <2>1, <3>2, <3>3 DEF ControllerTick
  <2>2. CASE ~ControllerTick
    <3>1. UNCHANGED <<syncDirty, bonusSeen, assignments>>
      BY <2>2 DEF Next, OnUpdate, RegisterLua, World, PollingThread, Reload, NavigationTick,
                  EnterCombat, LeaveCombat, EnteringWorld, SetEnabled, Panel, DropOn, BarChanged,
                  Reset, syncvars, vars
    <3> QED
      BY <2>2, <3>1, MapStays DEF MapFollowsAssignments
  <2> QED
    BY <2>1, <2>2
<1> QED
  BY <1>1, <1>2, PTL DEF Spec

MirrorInv ==
  /\ uiNavigation \in BOOLEAN /\ navActive \in BOOLEAN
  /\ NavigationIsMirrored

LEMMA NavigationMirrors ==
  ASSUME MirrorInv, NEW on \in BOOLEAN, NavigationSetActive(on), on => ~combat'
  PROVE  MirrorInv'
<1>1. CASE on = navActive
  BY <1>1 DEF NavigationSetActive, gamepadvars, modevars, MirrorInv, NavigationIsMirrored
<1>2. CASE on # navActive
  BY <1>2 DEF NavigationSetActive, SetUINavigationActive, MirrorInv, NavigationIsMirrored
<1> QED
  BY <1>1, <1>2

\* The mode of the add-on is the native mode, and never outlasts the beginning
\* of a fight, unless one of them changed untold.
THEOREM NavigationIsAlwaysMirrored == Spec => []NavigationIsMirrored
<1>1. Init => MirrorInv
  BY DEF Init, GamepadInit, MirrorInv, NavigationIsMirrored
<1>2. MirrorInv /\ [Next]_vars => MirrorInv'
  <2> SUFFICES ASSUME MirrorInv, [Next]_vars PROVE MirrorInv'
    OBVIOUS
  <2>1. ASSUME NEW shown, NEW fighting
        PROVE  ShouldActivate(shown, fighting) \in BOOLEAN
               /\ (ShouldActivate(shown, fighting) => ~fighting)
    BY DEF ShouldActivate
  <2>2. CASE NavigationTick \/ EnteringWorld \/ \E on \in BOOLEAN : SetEnabled(on)
    BY <2>1, <2>2, NavigationMirrors DEF NavigationTick, EnteringWorld, SetEnabled, gamevars
  <2>3. CASE EnterCombat
    BY <2>3, NavigationMirrors DEF EnterCombat
  <2>4. CASE LeaveCombat
    BY <2>1, <2>4, NavigationMirrors DEF LeaveCombat
  <2>5. CASE World
    <3>1. PICK on \in BOOLEAN : SetActive(on)
      BY <2>5 DEF World, OnWorldRenderEnd, OnWorldLeave
    <3> QED
      BY <2>5, <3>1 DEF SetActive, World, gamevars, MirrorInv, NavigationIsMirrored
  <2>6. CASE Reload
    BY <2>6 DEF Reload, gamepadvars, modevars, MirrorInv, NavigationIsMirrored
  <2>7. CASE UNCHANGED <<uiNavigation, navActive, combat, diverged>>
    BY <2>7 DEF MirrorInv, NavigationIsMirrored
  <2>8. CASE ControllerTick
    BY <2>7, <2>8 DEF ControllerTick, SyncSystemActions, ResetSystemActions, gamepadvars, modevars,
                      gamevars, addonvars
  <2>9. CASE OnUpdate \/ PollingThread
    BY <2>7, <2>9 DEF OnUpdate, Update, FrameDisconnected, FrameBackground, FrameWaiting,
                      FrameNavigation, FramePlay, Seen, Frame, PollingThread, SelectBackend, Poll,
                      PollFails, Stop, modevars, gamevars, addonvars
  <2> QED
    BY <2>2, <2>3, <2>4, <2>5, <2>6, <2>7, <2>8, <2>9
       DEF Next, RegisterLua, Panel, DropOn, BarChanged, Reset, gamepadvars, modevars, gamevars,
           addonvars, vars
<1>3. MirrorInv => NavigationIsMirrored
  BY DEF MirrorInv
<1> QED
  BY <1>1, <1>2, <1>3, PTL DEF Spec
=============================================================================
