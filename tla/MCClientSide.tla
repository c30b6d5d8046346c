--------------------------- MODULE MCClientSide ---------------------------
(***************************************************************************)
(* A small instance of ClientSide for TLC.                                 *)
(***************************************************************************)
EXTENDS ClientSide

CONSTANTS shift, f9

ShiftAndToggle == {shift, f9}

\* The shifted toggle goes down, the toggle is pressed, both go up.
ShiftedToggle ==
  {[kind |-> "down", inputs |-> {shift, f9}], [kind |-> "press", inputs |-> {f9}],
   [kind |-> "up", inputs |-> {shift, f9}]}

Session2 == 0..2

\* Two phases with variants of different tiles.
TileVariants == [p \in Phases |-> IF p = "gilneas" THEN {1} ELSE {1, 2}]
TwoAddresses == 1..2
=============================================================================
