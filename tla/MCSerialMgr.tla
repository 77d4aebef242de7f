---------------------------- MODULE MCSerialMgr ----------------------------
(* A small instance of SerialMgr; the histories that only grow are bounded *)
(* by the messages posted.                                                 *)
EXTENDS SerialMgr
=============================================================================
