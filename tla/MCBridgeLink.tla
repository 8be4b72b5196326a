---------------------------- MODULE MCBridgeLink ----------------------------
(* Instance of BridgeLink for TLC: the constants of connection.ts itself.  *)
EXTENDS BridgeLink

const_Delays == <<500, 1000, 2000, 3000, 5000>>
=============================================================================
