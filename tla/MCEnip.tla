-------------------------------- MODULE MCEnip --------------------------------
(***************************************************************************)
(* One CIP and one discovery request; a target that answers with a         *)
(* plausible or an implausible packet interval; requests that take up to   *)
(* two fifths of a connect attempt, so that the diagnostics can use it up; *)
(* frames up to, at and above the length cap.                              *)
(***************************************************************************)
EXTENDS Enip, TLC

CONSTANTS u1, u2

MCAsks == u1 :> "cip" @@ u2 :> "list"
MCShown == {<<"cip", 1>>, <<"cip", 2>>, <<"eip", 3>>, <<"cert", 1>>, <<"cert", 2>>, <<"cert", 3>>}
MCContents == UNION {[1..n -> {0, 1}] : n \in 0..2} \cup {<<0, 1, 1>>}
=============================================================================
