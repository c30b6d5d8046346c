----------------------------- MODULE MCCompanion -----------------------------
(***************************************************************************)
(* Small instances of Companion for TLC.                                   *)
(***************************************************************************)
EXTENDS Companion, TLC

To1 == 1..1
To2 == 1..2
\* A page's sockets are alike.
SocketSymmetry == Permutations(Sockets)
=============================================================================
