----------------------------- MODULE MCIoManager -----------------------------
(* Two connections of one socket, one of them multicast. *)
EXTENDS IoManager, TLC

CONSTANTS c1, c2

MCConns == {c1, c2}
MCType == c1 :> "p2p" @@ c2 :> "multicast"
=============================================================================
