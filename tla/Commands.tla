------------------------------ MODULE Commands ------------------------------
(***************************************************************************)
(* The southbound command surface (commands.rs): one client whose commands *)
(* are routed against the live registry while a configuration change stops,*)
(* restarts and replaces instances. A handler keeps the handle it resolved:*)
(* configuration, allow-list and control channel of one generation. The    *)
(* device tasks are external here (DeviceTask models them): they answer a  *)
(* control request, fail it, or die and drop it.                           *)
(***************************************************************************)
EXTENDS Integers, Sequences, SequencesExt, FiniteSets

CONSTANTS Instances,
          Mode,          \* instance -> "poll" or "push"
          Gens,          \* generations of an instance, 1 .. n
          Fields,        \* tags and I/O fields a reference can name
          Signals,       \* generation -> the configured ones, in order
          Outputs,       \* the ones of them that a push instance can write
          Allow,         \* generation -> writes.allow
          MaxPage,       \* the clamp of `max`, 1000 in the code
          MAX_BROWSE_PAGES,
          Tags,          \* the device's tag list: symbol instances 1 .. n, served from a cursor on
          Batches,       \* the write batches and read lists of a run
          BrowseKeys,    \* the argument keys of its browse requests
          MaxCommands    \* bound: commands of a behaviour

None == 0

VARIABLES reg,      \* registry: instance -> running generation or None
          next,     \* instance -> the generation a later start takes
          alive,    \* tasks whose control channel is open: <<instance, generation>>
          cmd,      \* the command being handled
          request,  \* the control request its task holds
          landed,   \* writes performed for the command: task, field and entry
          audit,    \* write-audit events of the command: entry -> ok
          walk,     \* the client's paged walk: the fields and the tasks that served them
          count     \* commands so far

vars == <<reg, next, alive, cmd, request, landed, audit, walk, count>>

NoRequest == [op |-> "none"]
NoWalk == [at |-> {}, got |-> <<>>, cursor |-> 0, open |-> FALSE]
Idle == [pc |-> "idle", verb |-> "none", at |-> <<>>, args |-> <<>>, max |-> 0, i |-> 1,
         results |-> <<>>, code |-> "", start |-> 0, pages |-> 0, tree |-> <<>>, again |-> 0]

Init ==
    /\ reg \in [Instances -> {None, 1}] /\ next = [i \in Instances |-> reg[i] + 1]
    /\ alive = {<<i, reg[i]>> : i \in {j \in Instances : reg[j] # None}}
    /\ cmd = Idle /\ request = NoRequest /\ landed = {} /\ audit = <<>> /\ walk = NoWalk /\ count = 0

----------------------------------------------------------------------------
\* The configuration change, as the registry and the channels see it (Reload in full).

Stop(i) ==
    /\ reg[i] # None
    /\ reg' = [reg EXCEPT ![i] = None]
    /\ UNCHANGED <<next, alive, cmd, request, landed, audit, walk, count>>

\* The old task ends: its channel closes and the reply of a request it held is dropped. A write may
\* have reached the device before.
Die(t) ==
    /\ t \in alive /\ reg[t[1]] # t[2]
    /\ alive' = alive \ {t}
    /\ IF request.op # "none" /\ request.to = t
       THEN /\ request' = NoRequest
            /\ cmd' = [cmd EXCEPT !.pc = "done", !.code = "DEVICE_UNAVAILABLE"]
            /\ \/ UNCHANGED landed
               \/ request.op = "Write" /\ landed' = landed \cup {[at |-> t, field |-> request.field, entry |-> cmd.i]}
       ELSE UNCHANGED <<request, cmd, landed>>
    /\ UNCHANGED <<reg, next, audit, walk, count>>

Start(i) ==
    /\ reg[i] = None /\ next[i] \in Gens /\ \A t \in alive : t[1] # i
    /\ reg' = [reg EXCEPT ![i] = next[i]] /\ next' = [next EXCEPT ![i] = @ + 1]
    /\ alive' = alive \cup {<<i, next[i]>>}
    /\ UNCHANGED <<cmd, request, landed, audit, walk, count>>

----------------------------------------------------------------------------
\* Resolution and arguments.

\* Commander::resolve with DeviceRegistry::sole_handle for an unaddressed request.
resolve(addressed) ==
    LET running == {i \in Instances : reg[i] # None}
    IN IF addressed # "none" THEN IF reg[addressed] # None THEN <<addressed, reg[addressed]>> ELSE <<"NO_SUCH_INSTANCE">>
       ELSE IF running = {} THEN <<"DEVICE_UNAVAILABLE">>
       ELSE IF Cardinality(running) > 1 THEN <<"BAD_ARGS">>
       ELSE LET i == CHOOSE j \in running : TRUE IN <<i, reg[i]>>

Resolved(r) == Len(r) = 2

IsPush(t) == Mode[t[1]] = "push"

\* resolve_poll_ref: by name or by tag path; a count out of range is malformed.
resolve_poll_ref(t, entry) ==
    CASE entry.form = "badCount" -> "BAD_ARGS"
      [] entry.form = "name" -> IF entry.field \in Range(Signals[t[2]]) THEN "ok" ELSE "UNRESOLVED"
      [] entry.form = "tagPath" -> "ok"
      [] OTHER -> "UNRESOLVED"

\* resolve_push_read_ref: the configured inputs.
resolve_push_read_ref(t, entry) ==
    IF entry.form \in {"name", "tagPath"} /\ entry.field \in Range(Signals[t[2]]) \ Outputs THEN "ok" ELSE "UNRESOLVED"

\* resolve_push_write_ref: an input is refused by name or by its assembly; an explicit address with
\* any other assembly is looked up among the outputs by offset, type and bit alone.
resolve_push_write_ref(t, entry) ==
    IF entry.form \in {"name", "tagPath", "otherAssembly"} /\ entry.field \in Range(Signals[t[2]])
    THEN IF entry.field \in Outputs THEN "ok" ELSE "UNRESOLVED"
    ELSE "UNRESOLVED"

WriteRef(t, entry) == IF IsPush(t) THEN resolve_push_write_ref(t, entry) ELSE resolve_poll_ref(t, entry)

clamp(n) == IF n < 1 THEN 1 ELSE IF n > MaxPage THEN MaxPage ELSE n

Answer(code) == cmd' = [cmd EXCEPT !.pc = "done", !.code = code]
AnswerWith(code, results) == cmd' = [cmd EXCEPT !.pc = "done", !.code = code, !.results = results]

\* A verb at its resolved handle; what does not resolve is answered at once.
Begin(verb, addressed, args, max) ==
    /\ cmd.pc = "idle" /\ count < MaxCommands
    /\ count' = count + 1 /\ audit' = <<>> /\ landed' = {}
    /\ LET r == resolve(addressed)
       IN cmd' = [Idle EXCEPT !.verb = verb, !.args = args, !.max = clamp(max),
                              !.pc = IF Resolved(r) THEN "run" ELSE "done",
                              !.at = IF Resolved(r) THEN r ELSE <<>>,
                              !.code = IF Resolved(r) THEN "" ELSE r[1]]
    /\ UNCHANGED <<reg, next, alive, request>>

\* The two request forms of sb/browse exclude each other, and depth and maxRefs need a ref.
browse_form(keys) ==
    LET tree == keys \cap {"ref", "depth", "maxRefs"} # {}
        paged == keys \cap {"cursor", "max"} # {}
    IN CASE tree /\ paged -> "BAD_ARGS"
         [] tree /\ ~paged /\ "ref" \notin keys -> "BAD_ARGS"
         [] "ref" \in keys /\ ~paged -> "sb/browse ref"
         [] OTHER -> "sb/browse"

\* The client starts a command; a browse continues its walk from the cursor it was given.
Call ==
    \E a \in Instances \cup {"none"} :
      \/ \E v \in {"sb/status", "sb/signals", "sb/pause", "sb/resume", "reconnect", "repoll"} :
           Begin(v, a, <<>>, 1) /\ UNCHANGED walk
      \/ \E v \in {"sb/read", "sb/write"}, b \in Batches : Begin(v, a, b, 1) /\ UNCHANGED walk
      \/ \E m \in {0, 1, MaxPage + 1}, keys \in BrowseKeys :
           /\ Begin("sb/browse any", a, keys, m)
           /\ walk' = IF walk.open \/ browse_form(keys) # "sb/browse" THEN walk ELSE NoWalk

\* The client has its answer.
Replied == cmd.pc = "done" /\ cmd' = Idle /\ UNCHANGED <<reg, next, alive, request, landed, audit, walk, count>>

At(verb) == cmd.pc = "run" /\ cmd.verb = verb
Quiet == UNCHANGED <<reg, next, alive, landed, count>>

\* Send a control request and wait for its reply; a closed channel is DEVICE_UNAVAILABLE.
Send(r) ==
    IF cmd.at \in alive
    THEN request' = [r EXCEPT !.to = cmd.at] /\ cmd' = [cmd EXCEPT !.pc = "wait"]
    ELSE request' = NoRequest /\ Answer("DEVICE_UNAVAILABLE")
Ask(op) == Send([op |-> op, to |-> <<>>])

----------------------------------------------------------------------------
\* The verbs.

\* writes.permits: of the configuration of the handle.
permits(field) == field \in Allow[cmd.at[2]]

\* sb/status reads shared state and answers.
Status == /\ At("sb/status")
          /\ Answer("OK")
          /\ Quiet /\ UNCHANGED <<request, audit, walk>>

\* sb/signals: every configured signal of the handle, and whether it may be written.
SignalsView == /\ At("sb/signals")
               /\ AnswerWith("OK", [k \in DOMAIN Signals[cmd.at[2]] |-> permits(Signals[cmd.at[2]][k])])
               /\ Quiet /\ UNCHANGED <<request, audit, walk>>

\* sb/read: a malformed argument refuses the whole command; nothing to read needs no device.
Read ==
    /\ At("sb/read")
    /\ IF IsPush(cmd.at) THEN Ask("Snapshot")
       ELSE LET refs == [k \in DOMAIN cmd.args |-> resolve_poll_ref(cmd.at, cmd.args[k])]
            IN IF "BAD_ARGS" \in Range(refs) THEN Answer("BAD_ARGS") /\ UNCHANGED request
               ELSE IF "ok" \in Range(refs) THEN Ask("ReadNow")
               ELSE AnswerWith("OK", [k \in DOMAIN refs |-> "UNRESOLVED_REF"]) /\ UNCHANGED request
    /\ Quiet /\ UNCHANGED <<audit, walk>>

\* The entries of a read reply, given which fields have data.
ReadEntries(have, missing) ==
    [k \in DOMAIN cmd.args |->
       LET e == cmd.args[k]
           r == IF IsPush(cmd.at) THEN resolve_push_read_ref(cmd.at, e) ELSE resolve_poll_ref(cmd.at, e)
       IN IF r # "ok" THEN "UNRESOLVED_REF" ELSE IF e.field \in have THEN "value" ELSE missing]

\* WRITE_NOT_ALLOWED only when every entry was refused by the allow-list.
NothingAllowed(results) == results # <<>> /\ \A k \in DOMAIN results : results[k] = "refused"

WriteDone(results) ==
    IF NothingAllowed(results) THEN AnswerWith("WRITE_NOT_ALLOWED", results) ELSE AnswerWith("OK", results)

\* Variant: the entries are audited together with the reply.
Audited_withReply(ok, result) ==
    LET results == Append(cmd.results, result)
    IN IF cmd.i = Len(cmd.args)
       THEN audit' = [k \in DOMAIN results |-> results[k] = "ok"] /\ WriteDone(results)
       ELSE UNCHANGED audit /\ cmd' = [cmd EXCEPT !.pc = "run", !.i = @ + 1, !.results = results]

\* One entry is audited, and the loop goes on to the next one or to the reply.
Audited(ok, result) ==
    LET results == Append(cmd.results, result)
    IN /\ audit' = Append(audit, ok)
       /\ IF cmd.i = Len(cmd.args) THEN WriteDone(results)
          ELSE cmd' = [cmd EXCEPT !.pc = "run", !.i = @ + 1, !.results = results]

\* Variant: the control channel is looked up again for each entry.
SendWrite_current(field) ==
    IF reg[cmd.at[1]] # None
    THEN request' = [op |-> "Write", to |-> <<cmd.at[1], reg[cmd.at[1]]>>, field |-> field] /\ cmd' = [cmd EXCEPT !.pc = "wait"]
    ELSE request' = NoRequest /\ Answer("DEVICE_UNAVAILABLE")

\* DeviceControl::Write or WriteOutput over the channel of the handle.
SendWrite(field) == Send([op |-> "Write", to |-> <<>>, field |-> field])

\* sb/write: the entries one after another, each checked before any device I/O. An empty batch is
\* answered at once; a malformed entry ends the command.
WriteEntry ==
    /\ At("sb/write")
    /\ IF cmd.args = <<>> THEN WriteDone(<<>>) /\ UNCHANGED <<request, audit>>
       ELSE LET e == cmd.args[cmd.i]
                r == WriteRef(cmd.at, e)
            IN CASE r = "BAD_ARGS" -> Answer("BAD_ARGS") /\ UNCHANGED <<request, audit>>
                 [] r = "UNRESOLVED" -> Audited(FALSE, "unresolved") /\ UNCHANGED request
                 [] r = "ok" /\ ~permits(e.field) -> Audited(FALSE, "refused") /\ UNCHANGED request
                 [] r = "ok" /\ permits(e.field) /\ ~e.value -> Audited(FALSE, "missing value") /\ UNCHANGED request
                 [] r = "ok" /\ permits(e.field) /\ e.value -> SendWrite(e.field) /\ UNCHANGED audit
    /\ Quiet /\ UNCHANGED walk

\* The form of a browse is decided by the keys of its body.
BrowseForm ==
    /\ At("sb/browse any")
    /\ LET f == browse_form(cmd.args)
       IN IF f = "BAD_ARGS" THEN Answer(f) ELSE cmd' = [cmd EXCEPT !.verb = f]
    /\ Quiet /\ UNCHANGED <<request, audit, walk>>

\* end = start + tags.len().
PageEnd(start, n) == start + n

\* browse_push_layout: the layout of the handle's generation from the cursor on; a cursor only while
\* fields remain. In poll mode the page comes from the device.
Browse ==
    /\ At("sb/browse")
    /\ IF ~IsPush(cmd.at) THEN Ask("Browse") /\ UNCHANGED walk
       ELSE LET layout == Signals[cmd.at[2]]
                page == SubSeq(layout, walk.cursor + 1, IF walk.cursor + cmd.max < Len(layout) THEN walk.cursor + cmd.max ELSE Len(layout))
                end == PageEnd(walk.cursor, Len(page))
            IN /\ AnswerWith("OK", page) /\ UNCHANGED request
               /\ walk' = [at |-> walk.at \cup {cmd.at}, got |-> walk.got \o page, cursor |-> end, open |-> end < Len(layout)]
    /\ Quiet /\ UNCHANGED audit

\* The reply of a hierarchical browse: the inventory under the root, cut at maxRefs, or one leaf.
TreeReply(entries) ==
    \/ AnswerWith("OK", SubSeq(entries, 1, IF cmd.max < Len(entries) THEN cmd.max ELSE Len(entries)))
    \/ \E k \in DOMAIN entries : AnswerWith("OK", <<entries[k]>>)
    \/ Answer("BAD_ARGS")

\* browse_hierarchical: the next page of a walk the handler drives; push has its layout at hand.
Tree ==
    /\ At("sb/browse ref")
    /\ IF IsPush(cmd.at) THEN TreeReply(Signals[cmd.at[2]]) /\ UNCHANGED request
       ELSE IF cmd.pages = MAX_BROWSE_PAGES THEN Answer("BROWSE_FAILED") /\ UNCHANGED request
       ELSE IF cmd.at \in alive
            THEN /\ request' = [op |-> "BrowseAll", to |-> cmd.at]
                 /\ cmd' = [cmd EXCEPT !.pc = "wait", !.pages = @ + 1]
            ELSE Answer("DEVICE_UNAVAILABLE") /\ UNCHANGED request
    /\ Quiet /\ UNCHANGED <<audit, walk>>

\* pause, resume, reconnect; repoll is refused on push, and on the pause flag's current value, which
\* the device task checks again.
Control ==
    /\ \E v \in {"sb/pause", "sb/resume", "reconnect"} : At(v)
    /\ Ask(cmd.verb)
    /\ Quiet /\ UNCHANGED <<audit, walk>>
Repoll ==
    /\ At("repoll")
    /\ IF IsPush(cmd.at) THEN Answer("BAD_ARGS") /\ UNCHANGED request
       ELSE \/ Answer("PAUSED") /\ UNCHANGED request
            \/ Ask("Repoll")
    /\ Quiet /\ UNCHANGED <<audit, walk>>

----------------------------------------------------------------------------
\* The device task answers.

Serving(op) == cmd.pc = "wait" /\ request.op = op /\ request.to \in alive
Served == request' = NoRequest /\ UNCHANGED <<reg, next, alive, count>>

\* A write lands and is confirmed, or fails: refused before the wire, or unconfirmed.
WriteAnswer ==
    /\ Serving("Write")
    /\ LET w == {[at |-> request.to, field |-> request.field, entry |-> cmd.i]}
       IN \/ landed' = landed \cup w /\ Audited(TRUE, "ok")
          \/ Audited(FALSE, "error") /\ \E l \in {landed, landed \cup w} : landed' = l
    /\ Served /\ UNCHANGED walk

ReadAnswer ==
    /\ Serving("ReadNow") \/ Serving("Snapshot")
    /\ \/ \E have \in {Fields, {}} :
            AnswerWith("OK", ReadEntries(have, IF request.op = "Snapshot" THEN "NO_FRAME" ELSE "NO_DATA"))
       \/ request.op = "ReadNow" /\ Answer("READ_FAILED")
    /\ Served /\ UNCHANGED <<landed, audit, walk>>

\* How many symbols of the tag list a page may hold, the page from a cursor on, and the cursor past it.
PageSizes(cursor) == {n \in 0..MaxPage : n = 0 \/ cursor + n <= Tags}
PageFrom(cursor, n) == [k \in 1..n |-> cursor + k]
NextCursor(cursor, n) == IF n > 0 /\ cursor + n < Tags THEN cursor + n ELSE -1

\* The walk goes on only when the cursor advances: past the start of the page, not past its end.
Advances(c, start) == c > start

\* A page of the hierarchical walk and its cursor c: -1 none, -2 one that is not a number. The device
\* may say anything, a cursor into the page it has just sent included.
TreePage(n, c) ==
    LET tree == cmd.tree \o PageFrom(cmd.start, n)
    IN CASE c = -1 -> TreeReply(tree)
         [] c = -2 \/ (c >= 0 /\ ~Advances(c, cmd.start)) -> Answer("BROWSE_FAILED")
         [] c >= 0 /\ Advances(c, cmd.start) ->
              cmd' = [cmd EXCEPT !.pc = "run", !.tree = tree, !.start = c,
                                 !.again = IF c < cmd.start + n THEN @ + 1 ELSE @]

TreeAnswer ==
    /\ Serving("BrowseAll")
    /\ \/ \E n \in PageSizes(cmd.start) : \E c \in {-2, 0, 1, NextCursor(cmd.start, n)} : TreePage(n, c)
       \/ Answer("BROWSE_UNSUPPORTED") \/ Answer("BROWSE_FAILED")
    /\ Served /\ UNCHANGED <<landed, audit, walk>>

BrowseAnswer ==
    /\ Serving("Browse")
    /\ \/ Answer("OK") \/ Answer("BROWSE_UNSUPPORTED") \/ Answer("BROWSE_FAILED")
    /\ Served /\ UNCHANGED <<landed, audit, walk>>

ControlAnswer ==
    /\ \E op \in {"sb/pause", "sb/resume", "reconnect", "Repoll"} : Serving(op)
    /\ \/ Answer("OK")
       \/ request.op = "reconnect" /\ Answer("RECONNECT_FAILED")
       \/ request.op = "Repoll" /\ (Answer("PAUSED") \/ Answer("DEVICE_UNAVAILABLE"))
    /\ Served /\ UNCHANGED <<landed, audit, walk>>

Next == \/ \E i \in Instances : Stop(i) \/ Start(i)
        \/ \E t \in alive : Die(t)
        \/ Call \/ Replied \/ Status \/ SignalsView \/ Read \/ WriteEntry \/ BrowseForm \/ Browse \/ Tree \/ Control \/ Repoll
        \/ WriteAnswer \/ ReadAnswer \/ TreeAnswer \/ BrowseAnswer \/ ControlAnswer

Spec == Init /\ [][Next]_vars

----------------------------------------------------------------------------
\* Whatever a configuration change does between two entries of a batch, a task performs only writes
\* that the allow-list of its own generation permits (the check of write_poll and write_push).
WritesPermitted == \A w \in landed : w.field \in Allow[w.at[2]]

Landed(k) == \E w \in landed : w.entry = k /\ w.at = cmd.at /\ w.field = cmd.args[k].field

\* An entry that was handled is audited with its outcome: one reported ok landed, one that was refused
\* or did not resolve, or had no value, landed nothing. (One reported as failed may have landed.)
Handled(k) ==
    /\ audit[k] <=> cmd.results[k] = "ok"
    /\ audit[k] => Landed(k)
    /\ cmd.results[k] \in {"refused", "unresolved", "missing value"} => \A w \in landed : w.entry # k

\* What sb/write answers and audits is what happened. A command that answers with its entries, or with
\* WRITE_NOT_ALLOWED, handled all of them. One that ends in between (BAD_ARGS at a malformed entry,
\* DEVICE_UNAVAILABLE when the task is gone) may have written the entries before, without the reply
\* saying so; then the audit says it: nothing landed that was not audited, except the one write that
\* was with the task when it died.
ReplyTruthful ==
    cmd.pc = "done" /\ cmd.verb = "sb/write" /\ cmd.at # <<>> =>
      /\ Len(cmd.results) = Len(audit) /\ \A k \in 1..Len(audit) : Handled(k)
      /\ cmd.code \in {"OK", "WRITE_NOT_ALLOWED"} => Len(audit) = Len(cmd.args)
      /\ cmd.code = "WRITE_NOT_ALLOWED" => \A k \in 1..Len(audit) : cmd.results[k] = "refused"
      /\ \A w \in landed :
           w.entry \in 1..Len(audit) \/ (cmd.code = "DEVICE_UNAVAILABLE" /\ w.entry = Len(audit) + 1)

\* A client that walks a push layout by its cursors meets every field once, as long as one generation
\* served it; and a hierarchical walk names no symbol twice unless it was handed a cursor into a page
\* it had, which the code follows (the sessions hand out none: PollSession!WalkExact).
WalksComplete ==
    /\ \A t \in walk.at : walk.at = {t} /\ ~walk.open /\ walk.got # <<>> => walk.got = Signals[t[2]]
    /\ cmd.again = 0 => IsInjective(cmd.tree) /\ (cmd.verb = "sb/browse ref" => IsInjective(cmd.results))

\* browse_push_layout: a configuration change ends the walk with NO_SUCH_INSTANCE rather than serving
\* a page from a different layout. A restarted instance serves the next page.
WalkOfOneLayout == Cardinality(walk.at) <= 1

\* How-to guide: an explicit push reference is {assembly, offset, type, bit}. A write that names another
\* assembly lands on the output assembly.
AddressedFieldOnly == \A w \in landed : cmd.args # <<>> /\ IsPush(w.at) => cmd.args[w.entry].form # "otherAssembly"

\* write_poll: no partial batch is written under a malformed entry.
RefusedWhole == cmd.pc = "done" /\ cmd.code = "BAD_ARGS" /\ cmd.at # <<>> /\ cmd.verb = "sb/write"
                  => \A k \in 1 .. cmd.i - 1 : cmd.results[k] # "ok"
=============================================================================
