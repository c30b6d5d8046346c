------------------------------- MODULE Phasing -------------------------------
(***************************************************************************)
(* Terrain phases (client/CWorldScene/Phasing.cpp): while a phase is       *)
(* active, the tiles of which its map has a variant are loaded from there. *)
(* Everything runs on the client's thread; the loader that hkTileLoad      *)
(* detours and EnterMap are the client's.                                  *)
(***************************************************************************)
EXTENDS Naturals

CONSTANTS Maps,       \* the maps of the world
          Phases,     \* the maps that hold variants
          Tiles,
          Variants    \* Phases -> the tiles of which there is a variant

ASSUME PhasingAssumption ==
  /\ Variants \in [Phases -> SUBSET Tiles]
  /\ {"none", "out"} \cap (Maps \cup Phases) = {}

VARIABLES
  mapId, mapName,   \* the client's map, and the name its tiles are loaded by
  childMap,         \* g_childMap, the active phase
  baseMap,          \* g_baseMap
  phaseMain,        \* g_phaseMain
  resident,         \* where each loaded tile came from, or "out"
  strayed           \* history: the map was left, or a phase not found, under a phase

phasingvars == <<mapId, mapName, childMap, baseMap, phaseMain, resident, strayed>>

PhasingInit ==
  /\ mapId \in Maps /\ mapName = mapId /\ resident = [t \in Tiles |-> "out"]
  /\ childMap = "none" /\ baseMap = "none" /\ phaseMain = {} /\ strayed = FALSE

\* hkTileLoad: the names are swapped for this one load.
Source(t, name, child, main) == IF child # "none" /\ t \in main THEN child ELSE name

\* EnterMap: every tile is purged, and those around the camera are loaded.
EnterMap(name, child, main) ==
  /\ mapName' = name
  /\ \E near \in SUBSET Tiles :
       resident' = [t \in Tiles |-> IF t \in near THEN Source(t, name, child, main) ELSE "out"]

\* SetTerrainPhase: LoadPhaseMain begins by forgetting the table.
SetTerrainPhase(p) ==
  \/ /\ phaseMain' = {} /\ strayed' = (strayed \/ childMap # "none")
     /\ UNCHANGED <<mapId, mapName, childMap, baseMap, resident>>
  \/ /\ phaseMain' = Variants[p] /\ childMap' = p
     /\ baseMap' = IF baseMap = "none" THEN mapName ELSE baseMap
     /\ EnterMap(baseMap', p, Variants[p])
     /\ strayed' = (baseMap' # mapId) /\ UNCHANGED mapId

\* Faulty: the tiles are streamed before the redirection is off.
FaultyClearTerrainPhase ==
  /\ baseMap # "none"
  /\ EnterMap(baseMap, childMap, phaseMain) /\ childMap' = "none" /\ baseMap' = "none"
  /\ strayed' = (baseMap # mapId) /\ UNCHANGED <<mapId, phaseMain>>

ClearTerrainPhase ==
  /\ baseMap # "none"
  /\ childMap' = "none" /\ EnterMap(baseMap, "none", phaseMain) /\ baseMap' = "none"
  /\ strayed' = (baseMap # mapId) /\ UNCHANGED <<mapId, phaseMain>>

\* The client streams a tile in or out.
StreamTile(t) ==
  /\ resident' = [resident EXCEPT ![t] =
       IF @ = "out" THEN Source(t, mapName, childMap, phaseMain) ELSE "out"]
  /\ UNCHANGED <<mapId, mapName, childMap, baseMap, phaseMain, strayed>>

\* The client goes to another map by itself.
Travel(m) ==
  /\ m # mapId /\ mapId' = m /\ EnterMap(m, childMap, phaseMain)
  /\ strayed' = (baseMap # "none")
  /\ UNCHANGED <<childMap, baseMap, phaseMain>>

PhasingNext ==
  \/ \E p \in Phases : SetTerrainPhase(p)
  \/ ClearTerrainPhase
  \/ \E t \in Tiles : StreamTile(t)
  \/ \E m \in Maps : Travel(m)

-----------------------------------------------------------------------------
\* "Serves those tiles from the phase directory while the rest stay base"
\* (Loading.hpp:178): every loaded tile is that of the phase the game set last,
\* if there is one and it has the tile, and that of the map the client is on
\* otherwise, also if it was streamed before the phase changed.  The exceptions
\* are what the code does not notice: the client's leaving the map, and a phase
\* that is not found while another is active.
TilesShowThePhase ==
  ~strayed =>
    /\ mapName = mapId
    /\ \A t \in Tiles : resident[t] # "out" =>
         resident[t] = IF childMap # "none" /\ t \in Variants[childMap] THEN childMap ELSE mapId
=============================================================================
