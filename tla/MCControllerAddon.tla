------------------------- MODULE MCControllerAddon -------------------------
EXTENDS ControllerAddon

\* Two layers of one or two buttons.
AllSlots == {0, 1} \X Buttons

\* The slot that is reassigned.
OneSlot == {<<0, b>> : b \in Buttons}

\* Nothing assigned, a jump, an action that this build does not know.
Assigned(what) == [s \in AllSlots |-> IF s[1] = 0 THEN what ELSE "none"]
SavedAssignments == {Assigned("none"), Assigned("JUMP"), Assigned("UNKNOWN")}
=============================================================================
