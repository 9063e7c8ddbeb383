------------------------------ MODULE MCAdapter ------------------------------
(***************************************************************************)
(* Instances of Adapter.                                                   *)
(***************************************************************************)
EXTENDS Adapter

CONSTANTS push, poll    \* the devices of the metrics

\* Enrollment with each destination and authentication, the watcher alone, and neither.
MCConfigs == [est : {TRUE}, watch : {TRUE}, dest : {"bundle", "pair"}, auth : {"basic", "bootstrap", "current"}]
             \cup {[est |-> FALSE, watch |-> w, dest |-> "bundle", auth |-> "current"] : w \in BOOLEAN}

\* A poll and a push instance with two generations each; entries of every kind, alone and in pairs.
Entry(f, form, v) == [field |-> f, form |-> form, value |-> v]
Kinds == {Entry("x", "name", TRUE), Entry("y", "tagPath", TRUE), Entry("x", "tagPath", FALSE),
          Entry("z", "name", TRUE), Entry("x", "badCount", TRUE), Entry("x", "otherAssembly", TRUE)}
MCMode == [i \in Instances |-> IF i = "a" THEN "poll" ELSE "push"]
MCSignals == <<<<"x", "y", "z">>, <<"y", "x">>>>
MCAllow == <<{"x"}, {"y"}>>
MCBatches == {<<>>} \cup {<<e>> : e \in Kinds} \cup {<<e, f>> : e, f \in Kinds}
MCBrowseKeys == {{}, {"cursor", "max"}, {"ref"}, {"ref", "max"}, {"depth"}}

\* One push and one poll device; most events are the one's or the other's.
MCDevices == {push, poll}
MCPush == {push}
MCBudgets == {[d \in Devices |-> IF d = push THEN 4 ELSE 0],
              [d \in Devices |-> IF d = poll THEN 3 ELSE 0],
              [d \in Devices |-> 1]}
=============================================================================
