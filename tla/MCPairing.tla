------------------------------ MODULE MCPairing ------------------------------
(***************************************************************************)
(* A small instance of Pairing for TLC.                                    *)
(***************************************************************************)
EXTENDS Pairing

To3 == 1..3
=============================================================================
