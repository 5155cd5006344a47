---------------------------- MODULE ClientTopics ----------------------------
(***************************************************************************)
(* The topics an application may follow: what its views subscribe to       *)
(* (Views) and the connection manager asks for (ClientManager).            *)
(***************************************************************************)
CONSTANT Topics
=============================================================================
