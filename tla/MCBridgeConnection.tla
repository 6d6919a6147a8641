------------------------- MODULE MCBridgeConnection -------------------------
(* BridgeConnection with a few calls and sockets. *)
EXTENDS BridgeConnection
=============================================================================
