--------------------------- MODULE PartyManagement ---------------------------
(***************************************************************************)
(* The add-on's view of the group (PartyManagement.lua, and the party part *)
(* of Bridge.lua).  It reads the client's live group, stamps every group   *)
(* it sees with a generation drawn from the native bridge, and hands the   *)
(* result to the bridge for the companion to show.                         *)
(*                                                                         *)
(* The client is external: `live` is what its group functions return.      *)
(***************************************************************************)
EXTENDS Naturals

CONSTANTS Slots,       \* party1 .. party4
          Players,     \* player GUIDs
          Nobody,      \* an empty slot
          Situations   \* bound: the groups the client can be in

ASSUME PartyManagementAssumption ==
  /\ Nobody \notin Players
  /\ Situations \subseteq [raid : BOOLEAN, lfg : BOOLEAN, leader : BOOLEAN,
                           roster : [Slots -> Players \cup {Nobody}]]

VARIABLES
  live,         \* the client's group
  signature,    \* Management.signature: the group the generation stands for
  generation,   \* Management.generation, 0 for nil
  lastParty     \* Bridge.lastParty: the party state published last

addonvars == <<signature, generation, lastParty>>

NoMembers == [s \in Slots |-> Nobody]

\* What Management:State makes of a group.
GroupType(l) ==
  IF l.raid THEN "raid"
  ELSE IF l.roster = NoMembers THEN "solo"
  ELSE IF l.lfg THEN "dungeon-finder" ELSE "party"

\* Faulty: the signature counts the members, it does not name them.
FaultySignature(l) ==
  [group |-> GroupType(l), leader |-> l.leader,
   roster |-> [s \in Slots |-> l.roster[s] # Nobody]]

\* The identity string: group, leadership and who is in which slot.
Signature(l) == [group |-> GroupType(l), leader |-> l.leader, roster |-> l.roster]

\* Management.signature = nil.
NoSignature == [group |-> "nil", leader |-> FALSE, roster |-> NoMembers]

\* NextPartyGeneration is called for a group other than the one of the
\* generation at hand, or when there is no generation at hand.
Renewed == generation = 0 \/ Signature(live) # signature

\* Management:State, given the generation NextPartyGeneration would return.
CurrentGeneration(fresh) == IF Renewed THEN fresh ELSE generation

ReadState(fresh) ==
  /\ generation' = CurrentGeneration(fresh)
  /\ signature' = Signature(live)

CanManage(l) == GroupType(l) = "party" /\ l.leader

CanLeave(l) == GroupType(l) \in {"party", "dungeon-finder"}

\* The party state that is published: in a raid it has no members.
PartyState(l, g) ==
  [generation |-> g, group |-> GroupType(l), leader |-> l.leader,
   members |-> IF l.raid THEN NoMembers ELSE l.roster]

\* The native side's empty party: EmptyParty().
EmptyParty == [generation |-> 0, group |-> "none", leader |-> FALSE, members |-> NoMembers]

\* A party state that the native side accepts for management.
MayManage(p) == p.group = "party" /\ p.leader

MayLeave(p) == p.group \in {"party", "dungeon-finder"}

PMInit ==
  /\ live \in Situations
  /\ signature = NoSignature /\ generation = 0 /\ lastParty = EmptyParty

\* PLAYER_LEAVING_WORLD: Management:Invalidate.
Invalidate ==
  /\ signature' = NoSignature /\ generation' = 0
  /\ UNCHANGED <<live, lastParty>>

\* The group changes in the client.  Of some changes (the dungeon finder's
\* mode) the add-on is told by no event at all, of others by one that comes
\* when it comes.
GroupChanges(l) ==
  /\ l \in Situations /\ l # live
  /\ live' = l
  /\ UNCHANGED addonvars
=============================================================================
