----------------------------- MODULE MCWsClient -----------------------------
(* Values for the constants of WsClient. *)
EXTENDS WsClient

TwoAddrs == <<1, 2>>
=============================================================================
