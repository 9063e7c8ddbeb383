---------------------------- MODULE DeviceConfig ----------------------------
(***************************************************************************)
(* One entry of component.instances (config.rs): the mode, the poll groups *)
(* and their signals, the write allow-list, and the ladder along which an  *)
(* effective setting is found.  An optional value is a set with at most    *)
(* one member.  The io block of a push device is PushConfig's.             *)
(***************************************************************************)
EXTENDS PushConfig

MaxArrayCount == 3           \* MAX_ARRAY_COUNT, the u16 of a Read Tag request

TheOne(option) == CHOOSE x \in option : TRUE

\* All signals of the groups, in order.
SignalsOf(groups) == LET cat[i \in 0..Len(groups)] == IF i = 0 THEN <<>> ELSE cat[i - 1] \o groups[i].signals
                     IN  cat[Len(groups)]

SignalValid(s) == /\ s.array_count # {} => TheOne(s.array_count) \in 1..MaxArrayCount
                  /\ s.ty = "bool" => ~s.scaled /\ s.deadband # "absolute"

\* Variant: a group's signals are unique within the group.
UniquePerGroup(groups) == \A i \in 1..Len(groups) : AllDistinct([k \in 1..Len(groups[i].signals) |-> groups[i].signals[k].tag])

Unique(groups) == LET all == SignalsOf(groups)
                  IN  /\ AllDistinct([k \in 1..Len(all) |-> all[k].name])
                      /\ AllDistinct([k \in 1..Len(all) |-> all[k].tag])

\* validate_poll
PollValidate(groups) ==
    /\ groups # <<>>
    /\ \A i \in 1..Len(groups) : groups[i].signals # <<>>
    /\ Unique(groups)
    /\ \A k \in 1..Len(SignalsOf(groups)) : SignalValid(SignalsOf(groups)[k])

\* The groups as validate leaves them: a group without an id gets its position.
WithIds(groups) == [i \in 1..Len(groups) |-> [groups[i] EXCEPT !.id = IF @ = {} THEN {<<"group", i>>} ELSE @]]

\* DeviceConfig::validate, after the security block's own
DeviceValidate(d) == IF d.mode = "poll" THEN d.io = {} /\ PollValidate(d.groups)
                     ELSE d.groups = <<>> /\ d.io # {} /\ IoValidate(TheOne(d.io))

find_signal(d, tag) == LET all == SignalsOf(d.groups) IN {all[k] : k \in {k \in 1..Len(all) : all[k].tag = tag}}

Writable(d) == IF d.mode = "poll" THEN {SignalsOf(d.groups)[k].tag : k \in 1..Len(SignalsOf(d.groups))}
               ELSE LET outs == OutputSignals(TheOne(d.io))
                    IN  {signal_id(outs[i], TheOne(d.io).assemblies.output) : i \in 1..Len(outs)}
unmatched_allow_entries(d) == d.allow \ Writable(d)
permits(d, id) == id \in d.allow

experimental_signal_warnings(d) == LET all == SignalsOf(d.groups)
                                   IN  {all[k].name : k \in {k \in 1..Len(all) : all[k].ty = "bool" /\ all[k].array_count # {}}}

\* The first level of the ladder that sets a value.
FirstSet(levels) == LET set == {i \in 1..Len(levels) : levels[i] # {}}
                    IN  TheOne(levels[CHOOSE i \in set : \A j \in set : i <= j])
effective_poll_ms(d, group, global) == FirstSet(<<group.poll, d.defaults.poll, global.poll, {5000}>>)
effective_publish_mode(d, group, global) == FirstSet(<<group.publish, d.defaults.publish, global.publish, {"onChange"}>>)
effective_batch_ms(d, global) == FirstSet(<<d.defaults.batch, global.batch, {0}>>)

(***************************************************************************)
(* What the runtime takes from an accepted device.                         *)
(***************************************************************************)
\* A tag path names one signal of the device, whose count a request can carry and whose booleans have no
\* arithmetic; a write that is permitted and not warned about names one writable signal; a setting made
\* on a level reaches every group that no nearer level settles.
DeviceSound(d, global) ==
    DeviceValidate(d) =>
        /\ d.mode = "poll" =>
              /\ \A k \in 1..Len(SignalsOf(d.groups)) :
                     LET s == SignalsOf(d.groups)[k]
                     IN  /\ find_signal(d, s.tag) = {s}
                         /\ s.array_count = {} \/ (1 \in s.array_count \/ 2 \in s.array_count \/ 3 \in s.array_count)
                         /\ s.scaled => s.ty # "bool"
              /\ Cardinality(Writable(d)) = Len(SignalsOf(d.groups))
              /\ \A i \in 1..Len(d.groups) :
                     /\ WithIds(d.groups)[i].id # {}
                     /\ d.groups[i].poll = {} /\ d.defaults.poll # {} =>
                            effective_poll_ms(d, d.groups[i], global) \in d.defaults.poll
                     /\ d.groups[i].publish = {} /\ d.defaults.publish = {} /\ global.publish # {} =>
                            effective_publish_mode(d, d.groups[i], global) \in global.publish
              /\ d.defaults.batch # {} => effective_batch_ms(d, global) \in d.defaults.batch
        /\ \A id \in d.allow \ unmatched_allow_entries(d) :
               permits(d, id) /\ (d.mode = "poll" => Cardinality(find_signal(d, id)) = 1)
        /\ d.mode = "push" => experimental_signal_warnings(d) = {}
=============================================================================
