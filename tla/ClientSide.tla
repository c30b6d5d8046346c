----------------------------- MODULE ClientSide -----------------------------
(***************************************************************************)
(* The client's side besides the bridge, the controller and the runtime:   *)
(* the companion's input with the overlay in its way, the overlay on its   *)
(* device, terrain phases, the add-on's display, and, outside the running  *)
(* client, the patcher.  But for the overlay they share nothing, and a     *)
(* behaviour is about one of them (`scene`).                               *)
(***************************************************************************)
EXTENDS Overlay, Phasing, Display, Patcher

VARIABLE scene

clientvars == <<vars, overlayvars, phasingvars, displayvars, patchervars, scene>>

ClientInit ==
  /\ Init /\ PhasingInit /\ DisplayInit /\ PatcherInit
  /\ scene \in {"input", "device", "terrain", "display", "files"}
  /\ scene # "terrain" => mapId = CHOOSE m \in Maps : TRUE
  /\ scene # "files" => exe = Unpatched(CHOOSE b \in Builds : TRUE)
  /\ IF scene = "input" THEN OverlayDrawn(1) ELSE OverlayInit

Input ==
  /\ scene = "input"
  /\ \/ (NetworkStep \/ EndRelease \/ OnUpdate) /\ UNCHANGED overlayvars
     \/ Play
     \/ Toggle /\ UNCHANGED vars
  /\ UNCHANGED <<phasingvars, displayvars, patchervars>>

Device ==
  /\ scene = "device" /\ (DeviceNext \/ Toggle)
  /\ UNCHANGED <<vars, phasingvars, displayvars, patchervars>>

Terrain ==
  /\ scene = "terrain" /\ PhasingNext
  /\ UNCHANGED <<vars, overlayvars, displayvars, patchervars>>

Interface ==
  /\ scene = "display" /\ DisplayNext
  /\ UNCHANGED <<vars, overlayvars, phasingvars, patchervars>>

Files ==
  /\ scene = "files" /\ PatcherNext
  /\ UNCHANGED <<vars, overlayvars, phasingvars, displayvars>>

ClientNext == (Input \/ Device \/ Terrain \/ Interface \/ Files) /\ UNCHANGED scene

ClientSpec == ClientInit /\ [][ClientNext]_clientvars

(***************************************************************************)
(* Fairness.  That of InputDispatcher; the add-on's OnUpdate reconciles    *)
(* every two seconds.                                                      *)
(***************************************************************************)
FairClientSpec ==
  ClientSpec /\ Fairness /\ WF_displayvars(scene = "display" /\ ReconcileTick)
=============================================================================
