----------------------------- MODULE MCWsClient -----------------------------
(* Instances of WsClient for TLC. *)
EXTENDS WsClient
CONSTANTS lobby
MCPlace == {NoChannel, lobby}
=============================================================================
