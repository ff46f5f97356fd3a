--------------------------- MODULE MCScriptBridge ---------------------------
(* ScriptBridge with short queues: three commands wait at most.            *)
EXTENDS ScriptBridge
=============================================================================
