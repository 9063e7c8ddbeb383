------------------------------- MODULE MCDevice -------------------------------
(***************************************************************************)
(* Instances of Device: the connection loop with two requests of every     *)
(* kind and a ladder of two rungs below the ceiling, and each driver with  *)
(* coalescing windows and without.                                         *)
(***************************************************************************)
EXTENDS Device

Good(S) == [value : S, quality : {"GOOD"}]

\* Three values around an absolute deadband of 2: 0 and 2 differ, 2 and 3 do
\* not, 0 and 3 do.
PollValues == {<<0>>, <<2>>, <<3>>}
MCPoll == [values |-> PollValues, readings |-> Good(PollValues) \cup {[value |-> None, quality |-> "BAD"]},
           deadband |-> [kind |-> "absolute", value |-> 2], publish |-> "onChange",
           batch |-> 1, floor |-> 0, stale |-> 2, interval |-> 1, buffer |-> 3]

\* An array signal, and a percent deadband whose threshold is zero at 0.
Arrays == {<<0, 1>>, <<1, 1>>, <<4, 1>>}
MCDirect == [values |-> Arrays, readings |-> Good(Arrays),
             deadband |-> [kind |-> "percent", value |-> 150], publish |-> "onChange",
             batch |-> 0, floor |-> 0, stale |-> 1, interval |-> 1, buffer |-> 2]

\* Two running values and an idle frame carrying a value.
PushValues == {<<0>>, <<1>>}
MCPush == [values |-> PushValues,
           readings |-> Good(PushValues) \cup {[value |-> <<1>>, quality |-> "UNCERTAIN"]},
           deadband |-> [kind |-> "none", value |-> 0], publish |-> "onChange",
           batch |-> 1, floor |-> 1, stale |-> 1, queue |-> 1, buffer |-> 2]

MCStream == [values |-> PushValues, readings |-> Good(PushValues),
             deadband |-> [kind |-> "none", value |-> 0], publish |-> "onChange",
             batch |-> 0, floor |-> 2, stale |-> 1, queue |-> 1, buffer |-> 2]
=============================================================================
