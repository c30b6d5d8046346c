------------------------------- MODULE Display -------------------------------
(***************************************************************************)
(* Which of the stock frames the add-on hides (DisplayManager.lua,         *)
(* UIReduction.lua, Core.lua, SettingsPanel.lua): the right-hand bars for  *)
(* the second screen, the bottom chrome in the reduced interface, the      *)
(* party frames while a companion shows the party.  In combat they may not *)
(* be touched.  The stock interface shows and hides them as it likes.      *)
(*                                                                         *)
(* One frame stands for its kind.  Hiding or showing a bar makes the stock *)
(* interface lay out its frames, and the hook on that reconciles once      *)
(* more from inside, with the same settings and to the same end.           *)
(***************************************************************************)
EXTENDS Naturals

VARIABLES
  controllerOn, screenOn, reduceOn,   \* WCSDB
  linked,         \* the bridge's status: connected, and capable of the party
  group,          \* "none", "party", "raid"
  fighting,       \* InCombatLockdown
  applyPending,   \* Display.pending
  frames          \* each frame: shown, faded (no alpha, no mouse), saved (shown before, or "none")

settingvars == <<controllerOn, screenOn, reduceOn>>
displayvars == <<settingvars, linked, group, fighting, applyPending, frames>>

Kinds == {"bars", "chrome", "party"}

\* As the stock interface makes them.
Stock(g) == [f \in Kinds |-> [shown |-> f # "party" \/ g = "party", faded |-> FALSE, saved |-> "none"]]

\* Before the add-on has arranged anything, with the default settings.
DisplayInit ==
  /\ controllerOn = TRUE /\ screenOn = TRUE /\ reduceOn = TRUE
  /\ linked = FALSE /\ group = "none" /\ fighting = FALSE /\ applyPending = FALSE
  /\ frames = Stock("none")

\* What is to be hidden: screen, reduced, ShouldHidePartyFrames.
Reduced == controllerOn /\ screenOn /\ reduceOn
Unwanted(f) ==
  CASE f = "bars"   -> screenOn
    [] f = "chrome" -> Reduced
    [] f = "party"  -> Reduced /\ linked /\ group = "party"

\* SetFrameHidden and SetReservedBarsHidden.
Hidden(x) == [shown |-> FALSE, faded |-> TRUE,
              saved |-> IF x.saved = "none" THEN (IF x.shown THEN "shown" ELSE "hidden") ELSE x.saved]

\* Faulty: the frame is made opaque, but stays as hidden as it is.
FaultyRestored(f, x) ==
  IF x.saved = "none" THEN x
  ELSE [shown |-> x.shown, faded |-> FALSE, saved |-> "none"]

\* The old visibility of a party frame belongs to an old roster.
Restored(f, x) ==
  IF x.saved = "none" THEN x
  ELSE [shown |-> IF f = "party" THEN group' = "party" ELSE x.saved = "shown",
        faded |-> FALSE, saved |-> "none"]

\* The frames after Apply, or after a Reconcile, which does not restore the bars.
Arranged(fs, kinds) ==
  [f \in Kinds |-> IF Unwanted(f)' THEN Hidden(fs[f])
                   ELSE IF f \in kinds THEN Restored(f, fs[f]) ELSE fs[f]]

Apply(fs) ==
  IF fighting' THEN applyPending' = TRUE /\ frames' = fs
  ELSE applyPending' = FALSE /\ frames' = Arranged(fs, Kinds)

Reconcile(fs) ==
  IF fighting' THEN UNCHANGED applyPending /\ frames' = fs
  ELSE IF applyPending THEN Apply(fs)
  ELSE UNCHANGED applyPending /\ frames' = Arranged(fs, Kinds \ {"bars"})

\* The checks of the settings, and /wcs reset.
ChangeSettings ==
  /\ controllerOn' \in BOOLEAN /\ screenOn' \in BOOLEAN /\ reduceOn' \in BOOLEAN
  /\ UNCHANGED <<linked, group, fighting>> /\ Apply(frames)

\* OnUpdate every two seconds, PLAYER_ENTERING_WORLD and the stock interface's
\* layout.
ReconcileTick ==
  UNCHANGED <<settingvars, linked, group, fighting>> /\ Reconcile(frames)

\* PARTY_MEMBERS_CHANGED, RAID_ROSTER_UPDATE: the stock interface first.
GroupChanged(g) ==
  /\ group' = g /\ UNCHANGED <<settingvars, linked, fighting>>
  /\ Reconcile([frames EXCEPT !["party"].shown = (g = "party")])

EnterCombat ==
  /\ ~fighting /\ fighting' = TRUE
  /\ UNCHANGED <<settingvars, linked, group, applyPending, frames>>

\* PLAYER_REGEN_ENABLED: Apply, and a Reconcile that finds nothing left to do.
LeaveCombat ==
  /\ fighting /\ fighting' = FALSE
  /\ UNCHANGED <<settingvars, linked, group>> /\ Apply(frames)

\* The companion comes or goes; nothing tells the add-on.
Link ==
  /\ linked' = ~linked
  /\ UNCHANGED <<settingvars, group, fighting, applyPending, frames>>

\* The stock interface.
StockUI(f) ==
  /\ frames' = [frames EXCEPT ![f].shown = ~@]
  /\ UNCHANGED <<settingvars, linked, group, fighting, applyPending>>

\* /reload: the stock frames and the add-on anew.
ReloadUI == UNCHANGED <<settingvars, linked, group, fighting>> /\ Apply(Stock(group))

DisplayNext ==
  \/ ChangeSettings \/ ReconcileTick \/ EnterCombat \/ LeaveCombat \/ Link \/ ReloadUI
  \/ \E g \in {"none", "party", "raid"} : GroupChanged(g)
  \/ \E f \in Kinds : StockUI(f)

-----------------------------------------------------------------------------
\* The frame can be seen again: a party frame if there is a party to show, any
\* other one if it was shown when it was hidden.
Back(f, was) ==
  /\ ~frames[f].faded
  /\ IF f = "party" THEN frames[f].shown = (group = "party")
     ELSE was = "shown" => frames[f].shown

\* "Disconnecting or entering a raid restores them at the first combat-safe
\* opportunity" (addon README.md:32), and so does every change of settings, also
\* one made during combat: a frame that was hidden can be seen again once the
\* settings, the companion and the group do not hide it, whatever the stock
\* interface did to it in between.
FramesComeBack ==
  \A f \in Kinds, was \in {"shown", "hidden"} :
    (frames[f].faded /\ frames[f].saved = was /\ ~Unwanted(f))
      ~> (Back(f, was) \/ Unwanted(f) \/ fighting)
=============================================================================
