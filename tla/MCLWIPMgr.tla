----------------------------- MODULE MCLWIPMgr -----------------------------
(* A small instance of LWIPMgr: two clients, and a deferral queue that the *)
(* exit events of two failures leave no room in.                           *)
EXTENDS LWIPMgr

CONSTANTS c1, c2

MCPeers == {c1, c2}
=============================================================================
