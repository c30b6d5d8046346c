----------------------------- MODULE MCWcsBridge -----------------------------
(***************************************************************************)
(* Small instances of WcsBridge for TLC: one slot that matters, a few      *)
(* groups, a handful of requests.                                          *)
(***************************************************************************)
EXTENDS WcsBridge

CONSTANTS ann, bob

OneSlot == {1}
AnnAndBob == {ann, bob}

Group(raid, lfg, leader, player) ==
  [raid |-> raid, lfg |-> lfg, leader |-> leader, roster |-> [s \in OneSlot |-> player]]

Led(player) == Group(FALSE, FALSE, TRUE, player)
Followed == Group(FALSE, FALSE, FALSE, ann)
DungeonFinder == Group(FALSE, TRUE, TRUE, ann)
Raid == Group(TRUE, FALSE, TRUE, ann)

\* Another player, another leader, another kind of group.
Mixed == {Led(ann), Led(bob), Followed, DungeonFinder, Raid}
OneGroup == {Led(ann)}
OrdinaryAndFinder == {Led(ann), DungeonFinder}

Ask(kind, g, id) == [kind |-> kind, slot |-> 1, generation |-> g, id |-> id]

To1 == {1}
To2 == 1..2
To3 == 1..3
Session1 == 0..1
Session2 == 0..2

Removals == {Ask("remove", g, 1) : g \in To3}
Management == {Ask("promote", 1, 1), Ask("leave", 1, 1)} \cup {Ask("remove", g, 1) : g \in To2}
RequestsAndInput == {Ask("remove", 1, 1), Ask("promote", 1, 2), Ask("input", 1, 1)}
=============================================================================
