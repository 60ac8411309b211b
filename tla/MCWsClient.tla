----------------------------- MODULE MCWsClient -----------------------------
(* An instance of WsClient for TLC: three socket objects (the one in use,    *)
(* one being closed, one being dialled), a timer of each kind, two frames.   *)
EXTENDS WsClient
=============================================================================
