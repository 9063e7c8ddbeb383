---------------------------- MODULE MCPushSession ----------------------------
(***************************************************************************)
(* PushSession with two output fields and queues of the smallest size at   *)
(* which every task can be made to wait.                                   *)
(***************************************************************************)
EXTENDS PushSession
=============================================================================
