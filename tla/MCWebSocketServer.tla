-------------------------- MODULE MCWebSocketServer --------------------------
(***************************************************************************)
(* Small instances of WebSocketServer for TLC.                             *)
(***************************************************************************)
EXTENDS WebSocketServer

SessionsTo2 == 0..2
SessionsTo3 == 0..3
VersionsTo2 == 0..2
VersionsTo3 == 0..3
NoVersions  == {0}
TokensTo2   == 1..2
NoTokens    == {}
=============================================================================
