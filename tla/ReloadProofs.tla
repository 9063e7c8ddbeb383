---------------------------- MODULE ReloadProofs ----------------------------
(***************************************************************************)
(* Proofs about Reload, for every set of instances, documents and slots:   *)
(* first who owns and runs what (IInv), then which set of instances an     *)
(* apply leaves behind and what of their alarms (GenInv, AlarmInv).  The   *)
(* inductive invariants are in ReloadInv, where TLC checks them too.       *)
(***************************************************************************)
EXTENDS ReloadInv, SequenceTheorems, TLAPS

-----------------------------------------------------------------------------
(* The pure diff *)

\* Every document has a view.
LEMMA DocView == \A d \in Docs : d.view \in Views
BY DocsAssumption DEF DocsAssumption

\* Entries of a document that startup and reload consider are well formed,
\* and first-wins leaves at most one per id (parse_instances).
LEMMA ParsedEntries ==
    ASSUME NEW d \in Docs
    PROVE  parse_instances(d) \subseteq Entry /\ UniqueIds(parse_instances(d))
<1>1. d.insts \in Seq([id : Ids \cup {NoId}, raw : Raws])
  BY DocsAssumption DEF DocsAssumption
<1>2. \A k \in 1..Len(d.insts) : d.insts[k] \in [id : Ids \cup {NoId}, raw : Raws]
  BY <1>1, ElementOfSeq
<1>3. DOMAIN d.insts = 1..Len(d.insts) /\ Len(d.insts) \in Nat
  BY <1>1
<1>4. parse_instances(d) \subseteq Entry
  BY <1>2, <1>3 DEF parse_instances, candidate_instances, FirstOf, Entry
<1>5. ASSUME NEW e \in parse_instances(d), NEW f \in parse_instances(d), e.id = f.id PROVE e = f
  <2>1. PICK i \in DOMAIN d.insts : FirstOf(d, i) /\ e = d.insts[i]
    BY DEF parse_instances, candidate_instances
  <2>2. PICK j \in DOMAIN d.insts : FirstOf(d, j) /\ f = d.insts[j]
    BY DEF parse_instances, candidate_instances
  <2>3. ~(i < j) /\ ~(j < i)
    BY <1>5, <2>1, <2>2 DEF FirstOf
  <2>4. i = j
    BY <1>3, <2>3
  <2> QED BY <2>1, <2>2, <2>4
<1> QED BY <1>4, <1>5 DEF UniqueIds

\* A plan keeps or stops every running instance, stops the ones it starts
\* again, and keeps none when the view changes.
LEMMA PlanFacts ==
    ASSUME NEW running \in SUBSET Entry, UniqueIds(running), NEW v, NEW d \in Docs
    PROVE  LET p == MakePlan(running, v, d) IN
           /\ p \in [keep : SUBSET Ids, stop : SUBSET Ids, start : SUBSET Entry, removed : SUBSET Ids]
           /\ UniqueIds(p.start)
           /\ \A e \in p.start : e.id \in IdsOf(running) => e.id \in p.stop
           /\ IdsOf(running) \subseteq p.keep \cup p.stop
           /\ p.keep # {} => d.view = v
<1>1. parse_instances(d) \subseteq Entry /\ UniqueIds(parse_instances(d))
  BY ParsedEntries
<1>2. IdsOf(running) \subseteq MakePlan(running, v, d).keep \cup MakePlan(running, v, d).stop
  BY <1>1 DEF MakePlan, IdsOf, UniqueIds
<1> QED BY <1>1, <1>2 DEF MakePlan, IdsOf, Entry, UniqueIds

-----------------------------------------------------------------------------
(* Runtimes *)

\* Cancelling a token changes nothing else of a runtime.
LEMMA CancelledRuntime ==
    ASSUME NEW x \in Runtime, x.task # "free"
    PROVE  LET y == [x EXCEPT !.cancelled = TRUE] IN
           /\ y \in Runtime
           /\ y.task = x.task /\ y.id = x.id /\ y.raw = x.raw /\ y.view = x.view
           /\ y.link = x.link /\ y.aborted = x.aborted
<1>1. x \in Occupied
  BY DEF Runtime, Free
<1>2. [x EXCEPT !.cancelled = TRUE] \in Occupied
  BY <1>1 DEF Occupied
<1> QED BY <1>1, <1>2 DEF Runtime, Occupied

\* abort() marks a runtime and leaves it occupied.
LEMMA AbortedRuntime ==
    ASSUME NEW x \in Runtime, x.task # "free"
    PROVE  [x EXCEPT !.aborted = TRUE] \in Runtime /\ [x EXCEPT !.aborted = TRUE].aborted
<1>1. x \in Occupied
  BY DEF Runtime, Free
<1>2. [x EXCEPT !.aborted = TRUE] \in Occupied
  BY <1>1 DEF Occupied
<1> QED BY <1>1, <1>2 DEF Runtime, Occupied

\* A device step that only moves the link keeps everything else.
LEMMA LinkedRuntime ==
    ASSUME NEW x \in Runtime, x.task = "live", NEW l \in Links
    PROVE  LET y == [x EXCEPT !.link = l] IN
           /\ y \in Runtime
           /\ y.task = x.task /\ y.id = x.id /\ y.raw = x.raw /\ y.view = x.view
           /\ y.link = l /\ y.aborted = x.aborted
<1>1. x \in Occupied
  BY DEF Runtime, Free
<1>2. [x EXCEPT !.link = l] \in Occupied
  BY <1>1 DEF Occupied
<1> QED BY <1>1, <1>2 DEF Runtime, Occupied

\* A task that returns keeps the identity of its runtime.
LEMMA EndedRuntime ==
    ASSUME NEW x \in Runtime, x.task = "live"
    PROVE  LET y == [x EXCEPT !.task = "ended", !.link = "none"] IN
           /\ y \in Runtime
           /\ y.task = "ended" /\ y.id = x.id /\ y.raw = x.raw /\ y.view = x.view
           /\ y.link = "none" /\ y.aborted = x.aborted
<1>1. x \in Occupied
  BY DEF Runtime, Free
<1>2. [x EXCEPT !.task = "ended", !.link = "none"] \in Occupied
  BY <1>1 DEF Occupied, Links
<1> QED BY <1>1, <1>2 DEF Runtime, Occupied

\* What launch() spawns.
LEMMA SpawnedRuntime ==
    ASSUME NEW e \in Entry, NEW v \in Views
    PROVE  /\ Spawned(e, v) \in Runtime
           /\ Spawned(e, v).task = "live" /\ Spawned(e, v).id = e.id /\ Spawned(e, v).raw = e.raw
           /\ Spawned(e, v).view = v /\ Spawned(e, v).link = "connecting" /\ ~Spawned(e, v).aborted
BY DEF Spawned, Runtime, Occupied, Entry, Links

\* launch() takes a slot nobody owns and leaves the others alone.
LEMMA LaunchFacts ==
    ASSUME TypeOK, Ownership, NEW e \in Entry, NEW v \in Views, NEW r \in Slots, LaunchOk(e, v, r)
    PROVE  /\ rt' \in [Slots -> Runtime]
           /\ r \notin Owned
           /\ rt'[r].task = "live" /\ rt'[r].id = e.id /\ rt'[r].view = v
           /\ rt'[r].link = "connecting" /\ ~rt'[r].aborted
           /\ \A x \in Slots : x # r => rt'[x] = rt[x]
           /\ faults' = faults
BY SpawnedRuntime DEF LaunchOk, TypeOK, Ownership

\* stop_runtimes, the cancel half.
LEMMA CancelAllFacts ==
    ASSUME TypeOK, Ownership, NEW S \in SUBSET Owned, rt' = CancelAll(S)
    PROVE  /\ rt' \in [Slots -> Runtime]
           /\ \A x \in Slots : /\ rt'[x].task = rt[x].task /\ rt'[x].id = rt[x].id
                               /\ rt'[x].view = rt[x].view /\ rt'[x].link = rt[x].link
                               /\ rt'[x].aborted = rt[x].aborted
<1>1. \A r \in Slots : rt[r] \in Runtime /\ (r \in S => rt[r].task # "free")
  BY DEF TypeOK, Ownership, Owned
<1> QED BY <1>1, CancelledRuntime DEF CancelAll

\* stop_runtimes, the join-or-abort half: runtimes outside the stopped set are
\* left alone; inside it, nothing stays live that was not aborted.
LEMMA ReapedFacts ==
    ASSUME TypeOK, Ownership, NEW S \in SUBSET Owned, rt' = Reaped(S)
    PROVE  /\ rt' \in [Slots -> Runtime]
           /\ \A x \in Slots \ S : rt'[x] = rt[x]
           /\ \A x \in S : rt'[x].task = "live" => rt'[x].aborted
           /\ Stragglers(S) \subseteq Ids
<1>1. \A r \in Slots : rt[r] \in Runtime /\ (r \in S => rt[r].task # "free")
  BY DEF TypeOK, Ownership, Owned
<1>2. S \subseteq Slots
  BY DEF Owned, TypeOK
<1>3. Free \in Runtime /\ Free.task = "free"
  BY DEF Free, Runtime
<1>4. Reaped(S) \in [Slots -> Runtime]
  BY <1>1, <1>3, AbortedRuntime DEF Reaped
<1>5. \A r \in S : Reaped(S)[r].task = "live" => Reaped(S)[r].aborted
  BY <1>1, <1>2, <1>3, AbortedRuntime DEF Reaped
<1>6. \A x \in Runtime : x.task = "live" => x.id \in Ids
  BY DEF Runtime, Occupied, Free
<1>7. Stragglers(S) \subseteq Ids
  BY <1>1, <1>2, <1>6 DEF Stragglers
<1> QED BY <1>4, <1>5, <1>7 DEF Reaped

\* Owned runtimes run well-formed entries.
LEMMA RunningFacts ==
    ASSUME TypeOK, Ownership, NEW S \in SUBSET Owned
    PROVE  Running(S) \subseteq Entry /\ IdsOf(Running(S)) = {rt[r].id : r \in S}
<1>1. \A x \in Runtime : x.task # "free" => x.id \in Ids /\ x.raw \in Raws
  BY DEF Runtime, Occupied, Free
<1>2. Running(S) \subseteq Entry
  BY <1>1 DEF TypeOK, Running, Ownership, Owned, Entry
<1>3. \A r \in S : rt[r].id \in IdsOf(Running(S))
  <2> TAKE r \in S
  <2>1. [id |-> rt[r].id, raw |-> rt[r].raw] \in Running(S)
    BY DEF Running
  <2> QED BY <2>1 DEF IdsOf
<1>4. \A i \in IdsOf(Running(S)) : \E r \in S : i = rt[r].id
  <2> TAKE i \in IdsOf(Running(S))
  <2>1. PICK x \in Running(S) : i = x.id
    BY DEF IdsOf
  <2>2. PICK r \in S : x = [id |-> rt[r].id, raw |-> rt[r].raw]
    BY DEF Running
  <2> QED BY <2>1, <2>2
<1> QED BY <1>2, <1>3, <1>4

-----------------------------------------------------------------------------
(* The invariant is preserved by every step *)

USE DEF appVars, setVars, txnVars, envVars, hisVars

\* Startup registers nothing yet, so the new runtime can only clash with fresh ones.
LEMMA BootLaunchStep ==
    ASSUME IInv, NEW e \in Entry, BootLaunch(e)
    PROVE  IInv'
<1>1. \A r \in Slots : LaunchOk(e, prior.view, r) =>
         /\ rt' \in [Slots -> Runtime] /\ r \notin Owned
         /\ rt'[r].task = "live" /\ rt'[r].id = e.id /\ rt'[r].view = prior.view
         /\ rt'[r].link = "connecting" /\ ~rt'[r].aborted
         /\ (\A x \in Slots : x # r => rt'[x] = rt[x]) /\ faults' = faults
  BY LaunchFacts, DocView DEF IInv, TypeOK
<1>2. TypeOK'
  BY <1>1 DEF IInv, BootLaunch, LaunchUnknown, TypeOK, Pcs, Entry
<1>3. Phases' /\ Stages'
  BY <1>1 DEF IInv, BootLaunch, LaunchUnknown, TypeOK, Phases, Stages
<1>4. Ownership' /\ LiveIsOwned'
  BY <1>1 DEF IInv, BootLaunch, LaunchUnknown, TypeOK, Phases, Stages, Ownership, Owned, LiveIsOwned
<1>5. Twins'
  BY <1>1 DEF IInv, BootLaunch, LaunchUnknown, TypeOK, Phases, Stages, Ownership, Owned, Twins, Quiet, BootApart, StartsApart, UndoApart, UniqueIds, IsNext
<1>6. BootApart' /\ StartsApart' /\ UndoApart'
  BY <1>1 DEF IInv, BootLaunch, LaunchUnknown, TypeOK, Phases, Stages, Ownership, Owned, Twins, BootApart, StartsApart, UndoApart, UniqueIds, IsNext
<1>7. Bound'
  BY <1>1 DEF IInv, BootLaunch, LaunchUnknown, TypeOK, Phases, Stages, Ownership, Owned, Twins, BootApart, Bound, UniqueIds, StartsApart, UndoApart
<1> QED BY <1>2, <1>3, <1>4, <1>5, <1>6, <1>7 DEF IInv

\* The fatal startup path hands what it launched to the registry.
LEMMA BootFailStep ==
    ASSUME IInv, BootFail
    PROVE  IInv'
<1>1. TypeOK'
  BY DEF IInv, BootFail, LaunchBroken, TypeOK, Pcs
<1>2. Phases' /\ Stages'
  BY DEF IInv, BootFail, LaunchBroken, TypeOK, Phases, Stages
<1>3. Ownership' /\ LiveIsOwned'
  BY DEF IInv, BootFail, LaunchBroken, TypeOK, Phases, Stages, Ownership, Owned, LiveIsOwned
<1>4. Twins'
  BY DEF IInv, BootFail, LaunchBroken, TypeOK, Phases, Stages, Ownership, Owned, Twins, Quiet, BootApart, StartsApart, UndoApart, UniqueIds
<1>5. BootApart' /\ StartsApart' /\ UndoApart'
  BY DEF IInv, BootFail, LaunchBroken, TypeOK, Phases, Stages, Ownership, Owned, Twins, BootApart, StartsApart, UndoApart, UniqueIds
<1>6. Bound'
  BY DEF IInv, BootFail, LaunchBroken, TypeOK, Phases, Stages, Ownership, Owned, Twins, BootApart, Bound, UniqueIds, StartsApart, UndoApart
<1> QED BY <1>1, <1>2, <1>3, <1>4, <1>5, <1>6 DEF IInv

\* Startup hands what it launched to the registry and opens the gate.
LEMMA BootDoneStep ==
    ASSUME IInv, BootDone
    PROVE  IInv'
<1>1. TypeOK'
  BY DEF IInv, BootDone, TypeOK, Pcs, AllPush
<1>2. Phases' /\ Stages'
  BY DEF IInv, BootDone, TypeOK, Phases, Stages
<1>3. Ownership' /\ LiveIsOwned'
  BY DEF IInv, BootDone, TypeOK, Phases, Stages, Ownership, Owned, LiveIsOwned
<1>4. Twins'
  BY DEF IInv, BootDone, TypeOK, Phases, Stages, Ownership, Owned, Twins, Quiet, BootApart, StartsApart, UndoApart, UniqueIds
<1>5. BootApart' /\ StartsApart' /\ UndoApart'
  BY DEF IInv, BootDone, TypeOK, Phases, Stages, Ownership, Owned, Twins, BootApart, StartsApart, UndoApart, UniqueIds
<1>6. Bound'
  BY DEF IInv, BootDone, TypeOK, Phases, Stages, Ownership, Owned, Twins, BootApart, Bound, UniqueIds, StartsApart, UndoApart
<1> QED BY <1>1, <1>2, <1>3, <1>4, <1>5, <1>6 DEF IInv

\* Cancelling the root moves nothing between owners.
LEMMA ShutdownSignalStep ==
    ASSUME IInv, ShutdownSignal
    PROVE  IInv'
<1>1. TypeOK'
  BY DEF IInv, ShutdownSignal, TypeOK, Pcs
<1>2. Phases' /\ Stages'
  BY DEF IInv, ShutdownSignal, TypeOK, Phases, Stages
<1>3. Ownership' /\ LiveIsOwned'
  BY DEF IInv, ShutdownSignal, TypeOK, Phases, Stages, Ownership, Owned, LiveIsOwned
<1>4. Twins'
  BY DEF IInv, ShutdownSignal, TypeOK, Phases, Stages, Ownership, Owned, Twins, Quiet, BootApart, StartsApart, UndoApart, UniqueIds
<1>5. BootApart' /\ StartsApart' /\ UndoApart'
  BY DEF IInv, ShutdownSignal, TypeOK, Phases, Stages, Ownership, Owned, Twins, BootApart, StartsApart, UndoApart, UniqueIds
<1>6. Bound'
  BY DEF IInv, ShutdownSignal, TypeOK, Phases, Stages, Ownership, Owned, Twins, BootApart, Bound, UniqueIds, StartsApart, UndoApart
<1> QED BY <1>1, <1>2, <1>3, <1>4, <1>5, <1>6 DEF IInv

\* A drain pass takes the registry over.
LEMMA DrainStep ==
    ASSUME IInv, Drain
    PROVE  IInv'
<1>1. /\ rt' \in [Slots -> Runtime]
      /\ \A x \in Slots : /\ rt'[x].task = rt[x].task /\ rt'[x].id = rt[x].id
                          /\ rt'[x].view = rt[x].view /\ rt'[x].link = rt[x].link
                          /\ rt'[x].aborted = rt[x].aborted
  BY CancelAllFacts DEF IInv, Owned, Drain
<1>2. TypeOK'
  BY <1>1 DEF IInv, Drain, TypeOK, Pcs
<1>3. Phases' /\ Stages'
  BY <1>1 DEF IInv, Drain, TypeOK, Phases, Stages
<1>4. Ownership' /\ LiveIsOwned'
  BY <1>1 DEF IInv, Drain, TypeOK, Phases, Stages, Ownership, Owned, LiveIsOwned
<1>5. Twins'
  BY <1>1 DEF IInv, Drain, TypeOK, Phases, Stages, Ownership, Owned, Twins, Quiet, BootApart, StartsApart, UndoApart, UniqueIds
<1>6. BootApart' /\ StartsApart' /\ UndoApart'
  BY <1>1 DEF IInv, Drain, TypeOK, Phases, Stages, Ownership, Owned, Twins, BootApart, StartsApart, UndoApart, UniqueIds
<1>7. Bound'
  BY <1>1 DEF IInv, Drain, TypeOK, Phases, Stages, Ownership, Owned, Twins, BootApart, Bound, UniqueIds, StartsApart, UndoApart
<1> QED BY <1>2, <1>3, <1>4, <1>5, <1>6, <1>7 DEF IInv

\* The end of a drain pass lets go of runtimes that ended or were aborted.
LEMMA DrainStoppedStep ==
    ASSUME IInv, DrainStopped
    PROVE  IInv'
<1>1. /\ rt' \in [Slots -> Runtime]
      /\ \A x \in Slots \ drained : rt'[x] = rt[x]
      /\ \A x \in drained : rt'[x].task = "live" => rt'[x].aborted
      /\ Stragglers(drained) \subseteq Ids
  BY ReapedFacts DEF IInv, Owned, DrainStopped
<1>2. TypeOK'
  BY <1>1 DEF IInv, DrainStopped, TypeOK, Pcs
<1>3. Phases' /\ Stages'
  BY <1>1 DEF IInv, DrainStopped, TypeOK, Phases, Stages
<1>4. Ownership' /\ LiveIsOwned'
  BY <1>1 DEF IInv, DrainStopped, TypeOK, Phases, Stages, Ownership, Owned, LiveIsOwned
<1>5. Twins'
  BY <1>1 DEF IInv, DrainStopped, TypeOK, Phases, Stages, Ownership, Owned, Twins, Quiet, BootApart, StartsApart, UndoApart, UniqueIds
<1>6. BootApart' /\ StartsApart' /\ UndoApart'
  BY <1>1 DEF IInv, DrainStopped, TypeOK, Phases, Stages, Ownership, Owned, Twins, BootApart, StartsApart, UndoApart, UniqueIds
<1>7. Bound'
  BY <1>1 DEF IInv, DrainStopped, TypeOK, Phases, Stages, Ownership, Owned, Twins, BootApart, Bound, UniqueIds, StartsApart, UndoApart
<1> QED BY <1>2, <1>3, <1>4, <1>5, <1>6, <1>7 DEF IInv

\* A prepared plan covers the registry; a rejection changes nothing.
LEMMA PrepareStep ==
    ASSUME IInv, NEW d \in Docs, Prepare(d)
    PROVE  IInv'
<1>1. started /\ ~root =>
         /\ Running(registry) \subseteq Entry /\ UniqueIds(Running(registry))
         /\ IdsOf(Running(registry)) = {rt[r].id : r \in registry}
  <2>1. Running(registry) \subseteq Entry /\ IdsOf(Running(registry)) = {rt[r].id : r \in registry}
    BY RunningFacts DEF IInv, Owned
  <2> QED BY <2>1 DEF IInv, Twins, Owned, UniqueIds, Running
<1> DEFINE p == MakePlan(Running(registry), prior.view, d)
<1>2. started /\ ~root =>
         /\ p \in [keep : SUBSET Ids, stop : SUBSET Ids, start : SUBSET Entry, removed : SUBSET Ids]
         /\ UniqueIds(p.start)
         /\ \A e \in p.start : e.id \in {rt[r].id : r \in registry} => e.id \in p.stop
         /\ {rt[r].id : r \in registry} \subseteq p.keep \cup p.stop
         /\ p.keep # {} => d.view = prior.view
  BY <1>1, PlanFacts
<1>3. /\ pc = "idle" /\ applies' = applies + 1
      /\ UNCHANGED <<appVars, rt, registry, setVars, stopping, inserting, clearing, stopped, launched, cleared, alarm, faults, hisVars, excused>>
  BY DEF Prepare
<1>4. \/ /\ UNCHANGED <<pc, cand, plan, todo, starts>>
         /\ verdict' \in {"STARTING", "SHUTTING_DOWN", "INVALID_GLOBAL", "NO_VALID_INSTANCES"}
      \/ /\ started /\ ~root /\ pc' = "prepared" /\ cand' = d /\ plan' = p
         /\ todo' = p.stop /\ starts' = p.start /\ verdict' = "none"
  BY DEF Prepare, Reject
<1> HIDE DEF p
<1>5. TypeOK'
  BY <1>1, <1>2, <1>3, <1>4 DEF IInv, TypeOK, Pcs
<1>6. Phases' /\ Stages'
  BY <1>1, <1>2, <1>3, <1>4 DEF IInv, TypeOK, Phases, Stages
<1>7. Ownership' /\ LiveIsOwned'
  BY <1>1, <1>2, <1>3, <1>4 DEF IInv, TypeOK, Phases, Stages, Ownership, Owned, LiveIsOwned
<1>8. Twins'
  BY <1>1, <1>2, <1>3, <1>4 DEF IInv, TypeOK, Phases, Stages, Ownership, Owned, Twins, Quiet, BootApart, StartsApart, UndoApart, UniqueIds
<1>9. BootApart' /\ StartsApart' /\ UndoApart'
  BY <1>1, <1>2, <1>3, <1>4 DEF IInv, TypeOK, Phases, Stages, Ownership, Owned, Twins, BootApart, StartsApart, UndoApart, UniqueIds
<1>10. Bound'
  BY <1>1, <1>2, <1>3, <1>4 DEF IInv, TypeOK, Phases, Stages, Ownership, Owned, Twins, BootApart, Bound, UniqueIds, StartsApart, UndoApart
<1> QED BY <1>5, <1>6, <1>7, <1>8, <1>9, <1>10 DEF IInv

\* A commit refused after the signal leaves the set as it was.
LEMMA CommitRefusedStep ==
    ASSUME IInv, CommitRefused
    PROVE  IInv'
<1>1. TypeOK'
  BY DEF IInv, CommitRefused, TypeOK, Pcs
<1>2. Phases' /\ Stages'
  BY DEF IInv, CommitRefused, TypeOK, Phases, Stages
<1>3. Ownership' /\ LiveIsOwned'
  BY DEF IInv, CommitRefused, TypeOK, Phases, Stages, Ownership, Owned, LiveIsOwned
<1>4. Twins'
  BY DEF IInv, CommitRefused, TypeOK, Phases, Stages, Ownership, Owned, Twins, Quiet, BootApart, StartsApart, UndoApart, UniqueIds
<1>5. BootApart' /\ StartsApart' /\ UndoApart'
  BY DEF IInv, CommitRefused, TypeOK, Phases, Stages, Ownership, Owned, Twins, BootApart, StartsApart, UndoApart, UniqueIds
<1>6. Bound'
  BY DEF IInv, CommitRefused, TypeOK, Phases, Stages, Ownership, Owned, Twins, BootApart, Bound, UniqueIds, StartsApart, UndoApart
<1> QED BY <1>1, <1>2, <1>3, <1>4, <1>5, <1>6 DEF IInv

\* The stop stage begins on the registry that was planned for.
LEMMA CommitBeginStep ==
    ASSUME IInv, CommitBegin
    PROVE  IInv'
<1>1. TypeOK'
  BY DEF IInv, CommitBegin, TypeOK, Pcs
<1>2. Phases' /\ Stages'
  BY DEF IInv, CommitBegin, TypeOK, Phases, Stages
<1>3. Ownership' /\ LiveIsOwned'
  BY DEF IInv, CommitBegin, TypeOK, Phases, Stages, Ownership, Owned, LiveIsOwned
<1>4. Twins'
  BY DEF IInv, CommitBegin, TypeOK, Phases, Stages, Ownership, Owned, Twins, Quiet, BootApart, StartsApart, UndoApart, UniqueIds
<1>5. BootApart' /\ StartsApart' /\ UndoApart'
  BY DEF IInv, CommitBegin, TypeOK, Phases, Stages, Ownership, Owned, Twins, BootApart, StartsApart, UndoApart, UniqueIds
<1>6. Bound'
  BY DEF IInv, CommitBegin, TypeOK, Phases, Stages, Ownership, Owned, Twins, BootApart, Bound, UniqueIds, StartsApart, UndoApart
<1> QED BY <1>1, <1>2, <1>3, <1>4, <1>5, <1>6 DEF IInv

\* Detaching moves one runtime from the registry to the commit and records it.
LEMMA DetachStep ==
    ASSUME IInv, NEW id \in Ids, Detach(id)
    PROVE  IInv'
<1>1. \A r \in registry : Running({r}) = {[id |-> rt[r].id, raw |-> rt[r].raw]} /\ Running({r}) \subseteq Entry
  BY RunningFacts DEF IInv, Owned, Running
<1>2. TypeOK'
  BY <1>1, ZenonT(60) DEF IInv, Detach, TypeOK, Pcs
<1>3. Phases' /\ Stages'
  BY <1>1 DEF IInv, Detach, TypeOK, Phases, Stages
<1>4. Ownership' /\ LiveIsOwned'
  BY <1>1, ZenonT(60) DEF IInv, Detach, TypeOK, Phases, Stages, Ownership, Owned, LiveIsOwned
<1>5. Twins'
  <2>1. Owned' = Owned /\ rt' = rt /\ root' = root
    BY DEF Detach, Owned
  <2> QED BY <2>1 DEF IInv, Twins, Quiet
<1>6. BootApart' /\ StartsApart' /\ UndoApart'
  <2>1. BootApart'
    BY DEF IInv, Detach, BootApart
  <2>2. \A r, s \in registry : r # s /\ rt[r].id = rt[s].id => root
    BY DEF IInv, Twins, Owned
  <2>3. /\ pc = "detach" /\ pc' = pc /\ root' = root /\ rt' = rt /\ starts' = starts
        /\ inserting = {} /\ inserting' = {} /\ launched' = launched
        /\ id \in todo /\ todo' = todo \ {id}
    BY DEF IInv, Detach, Stages
  <2>4. registry' \subseteq registry /\ (~root => \A r \in registry' : rt[r].id # id)
    BY <2>2 DEF Detach
  <2>5. StartsApart'
    BY <2>3, <2>4 DEF IInv, StartsApart
  <2>6. \/ stopped' = stopped
        \/ \E e \in Entry : e.id = id /\ stopped' = stopped \cup {e}
    BY <1>1 DEF Detach
  <2>7. UniqueIds(stopped') /\ \A e \in stopped' : e.id \notin todo'
    BY <2>3, <2>6 DEF IInv, UndoApart, UniqueIds
  <2>8. UndoApart'
    BY <2>3, <2>4, <2>6, <2>7 DEF IInv, UndoApart
  <2> QED BY <2>1, <2>5, <2>8
<1>7. Bound'
  BY <1>1 DEF IInv, Detach, TypeOK, Phases, Stages, Ownership, Owned, Twins, BootApart, Bound, UniqueIds, StartsApart, UndoApart
<1> QED BY <1>2, <1>3, <1>4, <1>5, <1>6, <1>7 DEF IInv

\* The commit cancels what it detached.
LEMMA StopBeginStep ==
    ASSUME IInv, StopBegin
    PROVE  IInv'
<1>1. /\ rt' \in [Slots -> Runtime]
      /\ \A x \in Slots : /\ rt'[x].task = rt[x].task /\ rt'[x].id = rt[x].id
                          /\ rt'[x].view = rt[x].view /\ rt'[x].link = rt[x].link
                          /\ rt'[x].aborted = rt[x].aborted
  BY CancelAllFacts DEF IInv, Owned, StopBegin
<1>2. TypeOK'
  BY <1>1 DEF IInv, StopBegin, TypeOK, Pcs
<1>3. Phases' /\ Stages'
  BY <1>1 DEF IInv, StopBegin, TypeOK, Phases, Stages
<1>4. Ownership' /\ LiveIsOwned'
  BY <1>1 DEF IInv, StopBegin, TypeOK, Phases, Stages, Ownership, Owned, LiveIsOwned
<1>5. Twins'
  BY <1>1 DEF IInv, StopBegin, TypeOK, Phases, Stages, Ownership, Owned, Twins, Quiet, BootApart, StartsApart, UndoApart, UniqueIds
<1>6. BootApart' /\ StartsApart' /\ UndoApart'
  BY <1>1 DEF IInv, StopBegin, TypeOK, Phases, Stages, Ownership, Owned, Twins, BootApart, StartsApart, UndoApart, UniqueIds
<1>7. Bound'
  BY <1>1 DEF IInv, StopBegin, TypeOK, Phases, Stages, Ownership, Owned, Twins, BootApart, Bound, UniqueIds, StartsApart, UndoApart
<1> QED BY <1>2, <1>3, <1>4, <1>5, <1>6, <1>7 DEF IInv

\* The commit lets go of runtimes that ended or were aborted.
LEMMA StopEndStep ==
    ASSUME IInv, StopEnd
    PROVE  IInv'
<1>1. /\ rt' \in [Slots -> Runtime]
      /\ \A x \in Slots \ stopping : rt'[x] = rt[x]
      /\ \A x \in stopping : rt'[x].task = "live" => rt'[x].aborted
      /\ Stragglers(stopping) \subseteq Ids
  BY ReapedFacts DEF IInv, Owned, StopEnd, Stopped
<1>2. TypeOK'
  BY <1>1 DEF IInv, StopEnd, Stopped, TypeOK, Pcs
<1>3. Phases' /\ Stages'
  BY <1>1 DEF IInv, StopEnd, Stopped, TypeOK, Phases, Stages
<1>4. Ownership' /\ LiveIsOwned'
  BY <1>1 DEF IInv, StopEnd, Stopped, TypeOK, Phases, Stages, Ownership, Owned, LiveIsOwned
<1>5. Twins'
  BY <1>1 DEF IInv, StopEnd, Stopped, TypeOK, Phases, Stages, Ownership, Owned, Twins, Quiet, BootApart, StartsApart, UndoApart, UniqueIds
<1>6. BootApart' /\ StartsApart' /\ UndoApart'
  BY <1>1 DEF IInv, StopEnd, Stopped, TypeOK, Phases, Stages, Ownership, Owned, Twins, BootApart, StartsApart, UndoApart, UniqueIds
<1>7. Bound'
  BY <1>1 DEF IInv, StopEnd, Stopped, TypeOK, Phases, Stages, Ownership, Owned, Twins, BootApart, Bound, UniqueIds, StartsApart, UndoApart
<1> QED BY <1>2, <1>3, <1>4, <1>5, <1>6, <1>7 DEF IInv

\* Clearing alarms touches no runtime.
LEMMA ClearAlarmStep ==
    ASSUME IInv, NEW id \in Ids, ClearAlarm(id)
    PROVE  IInv'
<1>1. TypeOK'
  BY DEF IInv, ClearAlarm, TypeOK, Pcs
<1>2. Phases' /\ Stages'
  BY DEF IInv, ClearAlarm, TypeOK, Phases, Stages
<1>3. Ownership' /\ LiveIsOwned'
  BY DEF IInv, ClearAlarm, TypeOK, Phases, Stages, Ownership, Owned, LiveIsOwned
<1>4. Twins'
  BY DEF IInv, ClearAlarm, TypeOK, Phases, Stages, Ownership, Owned, Twins, Quiet, BootApart, StartsApart, UndoApart, UniqueIds
<1>5. BootApart' /\ StartsApart' /\ UndoApart'
  BY DEF IInv, ClearAlarm, TypeOK, Phases, Stages, Ownership, Owned, Twins, BootApart, StartsApart, UndoApart, UniqueIds
<1>6. Bound'
  BY DEF IInv, ClearAlarm, TypeOK, Phases, Stages, Ownership, Owned, Twins, BootApart, Bound, UniqueIds, StartsApart, UndoApart
<1> QED BY <1>1, <1>2, <1>3, <1>4, <1>5, <1>6 DEF IInv

\* The registry takes the candidate globals once nothing old is left to stop.
LEMMA SetGlobalStep ==
    ASSUME IInv, SetGlobal
    PROVE  IInv'
<1>1. TypeOK'
  BY DocView DEF IInv, SetGlobal, TypeOK, Pcs
<1>2. Phases' /\ Stages'
  BY DEF IInv, SetGlobal, TypeOK, Phases, Stages
<1>3. Ownership' /\ LiveIsOwned'
  BY DEF IInv, SetGlobal, TypeOK, Phases, Stages, Ownership, Owned, LiveIsOwned
<1>4. Twins'
  BY DEF IInv, SetGlobal, TypeOK, Phases, Stages, Ownership, Owned, Twins, Quiet, BootApart, StartsApart, UndoApart, UniqueIds
<1>5. BootApart' /\ StartsApart' /\ UndoApart'
  BY DEF IInv, SetGlobal, TypeOK, Phases, Stages, Ownership, Owned, Twins, BootApart, StartsApart, UndoApart, UniqueIds
<1>6. Bound'
  BY DEF IInv, SetGlobal, TypeOK, Phases, Stages, Ownership, Owned, Twins, BootApart, Bound, UniqueIds, StartsApart, UndoApart
<1> QED BY <1>1, <1>2, <1>3, <1>4, <1>5, <1>6 DEF IInv

\* A start clashes with no registered runtime: the old one was detached.
LEMMA LaunchStep ==
    ASSUME IInv, NEW e \in Entry, Launch(e)
    PROVE  IInv'
<1>1. \A r \in Slots : LaunchOk(e, cand.view, r) =>
         /\ rt' \in [Slots -> Runtime] /\ r \notin Owned
         /\ rt'[r].task = "live" /\ rt'[r].id = e.id /\ rt'[r].view = cand.view
         /\ rt'[r].link = "connecting" /\ ~rt'[r].aborted
         /\ (\A x \in Slots : x # r => rt'[x] = rt[x]) /\ faults' = faults
  BY LaunchFacts, DocView DEF IInv, TypeOK
<1>2. TypeOK'
  BY <1>1 DEF IInv, Launch, LaunchUnknown, TypeOK, Pcs, Entry
<1>3. Phases' /\ Stages'
  BY <1>1 DEF IInv, Launch, LaunchUnknown, TypeOK, Phases, Stages
<1>4. Ownership' /\ LiveIsOwned'
  BY <1>1 DEF IInv, Launch, LaunchUnknown, TypeOK, Phases, Stages, Ownership, Owned, LiveIsOwned
<1>5. Twins'
  BY <1>1 DEF IInv, Launch, LaunchUnknown, TypeOK, Phases, Stages, Ownership, Owned, Twins, Quiet, BootApart, StartsApart, UndoApart, UniqueIds, IsNext
<1>6. BootApart' /\ StartsApart' /\ UndoApart'
  BY <1>1 DEF IInv, Launch, LaunchUnknown, TypeOK, Phases, Stages, Ownership, Owned, Twins, BootApart, StartsApart, UndoApart, UniqueIds, IsNext
<1>7. Bound'
  BY <1>1 DEF IInv, Launch, LaunchUnknown, TypeOK, Phases, Stages, Ownership, Owned, Twins, BootApart, Bound, UniqueIds, StartsApart, UndoApart, IsNext
<1> QED BY <1>2, <1>3, <1>4, <1>5, <1>6, <1>7 DEF IInv

\* The runtime the transaction launched becomes the registry's.
LEMMA InsertStep ==
    ASSUME IInv, Insert
    PROVE  IInv'
<1>1. TypeOK'
  BY DEF IInv, Insert, TypeOK, Pcs
<1>2. Phases' /\ Stages'
  BY DEF IInv, Insert, TypeOK, Phases, Stages
<1>3. Ownership' /\ LiveIsOwned'
  BY DEF IInv, Insert, TypeOK, Phases, Stages, Ownership, Owned, LiveIsOwned
<1>4. Twins'
  BY DEF IInv, Insert, TypeOK, Phases, Stages, Ownership, Owned, Twins, Quiet, BootApart, StartsApart, UndoApart, UniqueIds
<1>5. BootApart' /\ StartsApart' /\ UndoApart'
  BY DEF IInv, Insert, TypeOK, Phases, Stages, Ownership, Owned, Twins, BootApart, StartsApart, UndoApart, UniqueIds
<1>6. Bound'
  BY DEF IInv, Insert, TypeOK, Phases, Stages, Ownership, Owned, Twins, BootApart, Bound, UniqueIds, StartsApart, UndoApart
<1> QED BY <1>1, <1>2, <1>3, <1>4, <1>5, <1>6 DEF IInv

\* A failed launch pass leaves what it launched on record.
LEMMA LaunchFailedStep ==
    ASSUME IInv, LaunchFailed
    PROVE  IInv'
<1>1. TypeOK'
  BY DEF IInv, LaunchFailed, LaunchBroken, TypeOK, Pcs
<1>2. Phases' /\ Stages'
  BY DEF IInv, LaunchFailed, LaunchBroken, TypeOK, Phases, Stages
<1>3. Ownership' /\ LiveIsOwned'
  BY DEF IInv, LaunchFailed, LaunchBroken, TypeOK, Phases, Stages, Ownership, Owned, LiveIsOwned
<1>4. Twins'
  BY DEF IInv, LaunchFailed, LaunchBroken, TypeOK, Phases, Stages, Ownership, Owned, Twins, Quiet, BootApart, StartsApart, UndoApart, UniqueIds
<1>5. BootApart' /\ StartsApart' /\ UndoApart'
  BY DEF IInv, LaunchFailed, LaunchBroken, TypeOK, Phases, Stages, Ownership, Owned, Twins, BootApart, StartsApart, UndoApart, UniqueIds
<1>6. Bound'
  BY DEF IInv, LaunchFailed, LaunchBroken, TypeOK, Phases, Stages, Ownership, Owned, Twins, BootApart, Bound, UniqueIds, StartsApart, UndoApart
<1> QED BY <1>1, <1>2, <1>3, <1>4, <1>5, <1>6 DEF IInv

\* At the end every registered runtime is kept or launched, hence of the new generation.
LEMMA CommitOkStep ==
    ASSUME IInv, CommitOk
    PROVE  IInv'
<1>1. TypeOK'
  BY DEF IInv, CommitOk, Finished, TypeOK, Pcs, AllPush, NoPlan
<1>2. Phases' /\ Stages'
  BY DEF IInv, CommitOk, Finished, TypeOK, Phases, Stages
<1>3. Ownership' /\ LiveIsOwned'
  BY DEF IInv, CommitOk, Finished, TypeOK, Phases, Stages, Ownership, Owned, LiveIsOwned
<1>4. Twins'
  BY DEF IInv, CommitOk, Finished, TypeOK, Phases, Stages, Ownership, Owned, Twins, Quiet, BootApart, StartsApart, UndoApart, UniqueIds
<1>5. BootApart' /\ StartsApart' /\ UndoApart'
  BY DEF IInv, CommitOk, Finished, TypeOK, Phases, Stages, Ownership, Owned, Twins, BootApart, StartsApart, UndoApart, UniqueIds
<1>6. Bound'
  BY DEF IInv, CommitOk, Finished, TypeOK, Phases, Stages, Ownership, Owned, Twins, BootApart, Bound, UniqueIds, StartsApart, UndoApart
<1> QED BY <1>1, <1>2, <1>3, <1>4, <1>5, <1>6 DEF IInv

\* Rollback takes back exactly what the commit launched.
LEMMA UndoLaunchedStep ==
    ASSUME IInv, UndoLaunched
    PROVE  IInv'
<1>1. /\ rt' \in [Slots -> Runtime]
      /\ \A x \in Slots : /\ rt'[x].task = rt[x].task /\ rt'[x].id = rt[x].id
                          /\ rt'[x].view = rt[x].view /\ rt'[x].link = rt[x].link
                          /\ rt'[x].aborted = rt[x].aborted
  BY CancelAllFacts DEF IInv, Owned, UndoLaunched
<1>2. TypeOK'
  BY <1>1 DEF IInv, UndoLaunched, TypeOK, Pcs
<1>3. Phases' /\ Stages'
  BY <1>1 DEF IInv, UndoLaunched, TypeOK, Phases, Stages
<1>4. Ownership' /\ LiveIsOwned'
  BY <1>1 DEF IInv, UndoLaunched, TypeOK, Phases, Stages, Ownership, Owned, LiveIsOwned
<1>5. Twins'
  BY <1>1 DEF IInv, UndoLaunched, TypeOK, Phases, Stages, Ownership, Owned, Twins, Quiet, BootApart, StartsApart, UndoApart, UniqueIds
<1>6. BootApart' /\ StartsApart' /\ UndoApart'
  BY <1>1 DEF IInv, UndoLaunched, TypeOK, Phases, Stages, Ownership, Owned, Twins, BootApart, StartsApart, UndoApart, UniqueIds
<1>7. Bound'
  BY <1>1 DEF IInv, UndoLaunched, TypeOK, Phases, Stages, Ownership, Owned, Twins, BootApart, Bound, UniqueIds, StartsApart, UndoApart
<1> QED BY <1>2, <1>3, <1>4, <1>5, <1>6, <1>7 DEF IInv

\* Rollback lets go of what it stopped and restores the globals.
LEMMA UndoStoppedStep ==
    ASSUME IInv, UndoStopped
    PROVE  IInv'
<1>1. /\ rt' \in [Slots -> Runtime]
      /\ \A x \in Slots \ stopping : rt'[x] = rt[x]
      /\ \A x \in stopping : rt'[x].task = "live" => rt'[x].aborted
      /\ Stragglers(stopping) \subseteq Ids
  BY ReapedFacts DEF IInv, Owned, UndoStopped, Stopped
<1>2. TypeOK'
  BY <1>1, DocView DEF IInv, UndoStopped, Stopped, TypeOK, Pcs
<1>3. Phases' /\ Stages'
  BY <1>1 DEF IInv, UndoStopped, Stopped, TypeOK, Phases, Stages
<1>4. Ownership' /\ LiveIsOwned'
  BY <1>1 DEF IInv, UndoStopped, Stopped, TypeOK, Phases, Stages, Ownership, Owned, LiveIsOwned
<1>5. Twins'
  BY <1>1 DEF IInv, UndoStopped, Stopped, TypeOK, Phases, Stages, Ownership, Owned, Twins, Quiet, BootApart, StartsApart, UndoApart, UniqueIds
<1>6. BootApart' /\ StartsApart' /\ UndoApart'
  BY <1>1 DEF IInv, UndoStopped, Stopped, TypeOK, Phases, Stages, Ownership, Owned, Twins, BootApart, StartsApart, UndoApart, UniqueIds
<1>7. Bound'
  BY <1>1 DEF IInv, UndoStopped, Stopped, TypeOK, Phases, Stages, Ownership, Owned, Twins, BootApart, Bound, UniqueIds, StartsApart, UndoApart
<1> QED BY <1>2, <1>3, <1>4, <1>5, <1>6, <1>7 DEF IInv

\* A relaunch clashes with nothing: the successor was taken back.
LEMMA RelaunchStep ==
    ASSUME IInv, NEW e \in Entry, Relaunch(e)
    PROVE  IInv'
<1>1. \A r \in Slots : LaunchOk(e, prior.view, r) =>
         /\ rt' \in [Slots -> Runtime] /\ r \notin Owned
         /\ rt'[r].task = "live" /\ rt'[r].id = e.id /\ rt'[r].view = prior.view
         /\ rt'[r].link = "connecting" /\ ~rt'[r].aborted
         /\ (\A x \in Slots : x # r => rt'[x] = rt[x]) /\ faults' = faults
  BY LaunchFacts, DocView DEF IInv, TypeOK
<1>2. TypeOK'
  BY <1>1 DEF IInv, Relaunch, LaunchBroken, TypeOK, Pcs, Entry
<1>3. Phases' /\ Stages'
  BY <1>1 DEF IInv, Relaunch, LaunchBroken, TypeOK, Phases, Stages
<1>4. Ownership' /\ LiveIsOwned'
  BY <1>1 DEF IInv, Relaunch, LaunchBroken, TypeOK, Phases, Stages, Ownership, Owned, LiveIsOwned
<1>5. Twins'
  BY <1>1 DEF IInv, Relaunch, LaunchBroken, TypeOK, Phases, Stages, Ownership, Owned, Twins, Quiet, BootApart, StartsApart, UndoApart, UniqueIds
<1>6. BootApart' /\ StartsApart' /\ UndoApart'
  BY <1>1 DEF IInv, Relaunch, LaunchBroken, TypeOK, Phases, Stages, Ownership, Owned, Twins, BootApart, StartsApart, UndoApart, UniqueIds
<1>7. Bound'
  BY <1>1 DEF IInv, Relaunch, LaunchBroken, TypeOK, Phases, Stages, Ownership, Owned, Twins, BootApart, Bound, UniqueIds, StartsApart, UndoApart
<1> QED BY <1>2, <1>3, <1>4, <1>5, <1>6, <1>7 DEF IInv

\* The end of a rollback drops an empty undo record.
LEMMA RollbackDoneStep ==
    ASSUME IInv, RollbackDone
    PROVE  IInv'
<1>1. TypeOK'
  BY DEF IInv, RollbackDone, Finished, TypeOK, Pcs, NoPlan
<1>2. Phases' /\ Stages'
  BY DEF IInv, RollbackDone, Finished, TypeOK, Phases, Stages
<1>3. Ownership' /\ LiveIsOwned'
  BY DEF IInv, RollbackDone, Finished, TypeOK, Phases, Stages, Ownership, Owned, LiveIsOwned
<1>4. Twins'
  BY DEF IInv, RollbackDone, Finished, TypeOK, Phases, Stages, Ownership, Owned, Twins, Quiet, BootApart, StartsApart, UndoApart, UniqueIds
<1>5. BootApart' /\ StartsApart' /\ UndoApart'
  BY DEF IInv, RollbackDone, Finished, TypeOK, Phases, Stages, Ownership, Owned, Twins, BootApart, StartsApart, UndoApart, UniqueIds
<1>6. Bound'
  BY DEF IInv, RollbackDone, Finished, TypeOK, Phases, Stages, Ownership, Owned, Twins, BootApart, Bound, UniqueIds, StartsApart, UndoApart
<1> QED BY <1>1, <1>2, <1>3, <1>4, <1>5, <1>6 DEF IInv

\* Only a task whose root is not cancelled connects, and then it has no twin.
LEMMA ConnectStep ==
    ASSUME IInv, NEW r \in Slots, Connect(r)
    PROVE  IInv'
<1>1. /\ rt' \in [Slots -> Runtime] /\ rt[r].id \in Ids
      /\ \A x \in Slots : /\ rt'[x].task = rt[x].task /\ rt'[x].id = rt[x].id
                          /\ rt'[x].view = rt[x].view /\ rt'[x].aborted = rt[x].aborted
                          /\ x # r => rt'[x].link = rt[x].link
  <2>1. \A l \in Links : LET y == [rt[r] EXCEPT !.link = l] IN
           /\ y \in Runtime /\ y.task = rt[r].task /\ y.id = rt[r].id
           /\ y.view = rt[r].view /\ y.aborted = rt[r].aborted
    BY LinkedRuntime DEF IInv, TypeOK, Connect, Session
  <2>2. rt[r].id \in Ids
    BY DEF IInv, TypeOK, Connect, Session, Runtime, Occupied, Free
  <2> QED BY <2>1, <2>2, ZenonT(60) DEF IInv, TypeOK, Connect, SetLink, Links
<1>2. TypeOK'
  BY <1>1 DEF IInv, Connect, devUnchanged, TypeOK, Pcs
<1>3. Phases' /\ Stages'
  BY <1>1 DEF IInv, Connect, devUnchanged, TypeOK, Phases, Stages
<1>4. Ownership' /\ LiveIsOwned'
  BY <1>1 DEF IInv, Connect, devUnchanged, TypeOK, Phases, Stages, Ownership, Owned, LiveIsOwned
<1>5. Twins'
  BY <1>1 DEF IInv, Connect, devUnchanged, TypeOK, Phases, Stages, Ownership, Owned, Twins, Quiet, BootApart, StartsApart, UndoApart, UniqueIds, Cancelled
<1>6. BootApart' /\ StartsApart' /\ UndoApart'
  BY <1>1 DEF IInv, Connect, devUnchanged, TypeOK, Phases, Stages, Ownership, Owned, Twins, BootApart, StartsApart, UndoApart, UniqueIds
<1>7. Bound'
  BY <1>1 DEF IInv, Connect, devUnchanged, TypeOK, Phases, Stages, Ownership, Owned, Twins, BootApart, Bound, UniqueIds, StartsApart, UndoApart
<1> QED BY <1>2, <1>3, <1>4, <1>5, <1>6, <1>7 DEF IInv

\* A lost session stays the only one of its instance that was not quiet.
LEMMA LinkLostStep ==
    ASSUME IInv, NEW r \in Slots, LinkLost(r)
    PROVE  IInv'
<1>1. /\ rt' \in [Slots -> Runtime] /\ rt[r].id \in Ids
      /\ \A x \in Slots : /\ rt'[x].task = rt[x].task /\ rt'[x].id = rt[x].id
                          /\ rt'[x].view = rt[x].view /\ rt'[x].aborted = rt[x].aborted
                          /\ x # r => rt'[x].link = rt[x].link
  <2>1. \A l \in Links : LET y == [rt[r] EXCEPT !.link = l] IN
           /\ y \in Runtime /\ y.task = rt[r].task /\ y.id = rt[r].id
           /\ y.view = rt[r].view /\ y.aborted = rt[r].aborted
    BY LinkedRuntime DEF IInv, TypeOK, LinkLost, Session
  <2>2. rt[r].id \in Ids
    BY DEF IInv, TypeOK, LinkLost, Session, Runtime, Occupied, Free
  <2> QED BY <2>1, <2>2 DEF IInv, TypeOK, LinkLost, SetLink, Links
<1>2. TypeOK'
  BY <1>1 DEF IInv, LinkLost, devUnchanged, TypeOK, Pcs
<1>3. Phases' /\ Stages'
  BY <1>1 DEF IInv, LinkLost, devUnchanged, TypeOK, Phases, Stages
<1>4. Ownership' /\ LiveIsOwned'
  BY <1>1 DEF IInv, LinkLost, devUnchanged, TypeOK, Phases, Stages, Ownership, Owned, LiveIsOwned
<1>5. Twins'
  BY <1>1 DEF IInv, LinkLost, devUnchanged, TypeOK, Phases, Stages, Ownership, Owned, Twins, Quiet, BootApart, StartsApart, UndoApart, UniqueIds, Session
<1>6. BootApart' /\ StartsApart' /\ UndoApart'
  BY <1>1 DEF IInv, LinkLost, devUnchanged, TypeOK, Phases, Stages, Ownership, Owned, Twins, BootApart, StartsApart, UndoApart, UniqueIds
<1>7. Bound'
  BY <1>1 DEF IInv, LinkLost, devUnchanged, TypeOK, Phases, Stages, Ownership, Owned, Twins, BootApart, Bound, UniqueIds, StartsApart, UndoApart
<1> QED BY <1>2, <1>3, <1>4, <1>5, <1>6, <1>7 DEF IInv

\* A task that returns is still owned; one that was aborted is not.
LEMMA TaskEndStep ==
    ASSUME IInv, NEW r \in Slots, TaskEnd(r)
    PROVE  IInv'
<1>1. /\ rt' \in [Slots -> Runtime]
      /\ \A x \in Slots : x # r => rt'[x] = rt[x]
      /\ rt[r].aborted => rt'[r].task = "free"
      /\ ~rt[r].aborted => /\ rt'[r].task = "ended" /\ rt'[r].id = rt[r].id
                           /\ rt'[r].view = rt[r].view /\ rt'[r].link = "none" /\ ~rt'[r].aborted
  <2>1. LET y == [rt[r] EXCEPT !.task = "ended", !.link = "none"] IN
           /\ y \in Runtime /\ y.task = "ended" /\ y.id = rt[r].id
           /\ y.view = rt[r].view /\ y.link = "none" /\ y.aborted = rt[r].aborted
    BY EndedRuntime DEF IInv, TypeOK, TaskEnd
  <2>2. Free \in Runtime /\ Free.task = "free"
    BY DEF Runtime, Free
  <2> QED BY <2>1, <2>2 DEF IInv, TypeOK, TaskEnd
<1>2. TypeOK'
  BY <1>1 DEF IInv, TaskEnd, devUnchanged, TypeOK, Pcs
<1>3. Phases' /\ Stages'
  BY <1>1 DEF IInv, TaskEnd, devUnchanged, TypeOK, Phases, Stages
<1>4. Ownership' /\ LiveIsOwned'
  BY <1>1 DEF IInv, TaskEnd, devUnchanged, TypeOK, Phases, Stages, Ownership, Owned, LiveIsOwned
<1>5. Twins'
  BY <1>1 DEF IInv, TaskEnd, devUnchanged, TypeOK, Phases, Stages, Ownership, Owned, Twins, Quiet, BootApart, StartsApart, UndoApart, UniqueIds
<1>6. BootApart' /\ StartsApart' /\ UndoApart'
  BY <1>1 DEF IInv, TaskEnd, devUnchanged, TypeOK, Phases, Stages, Ownership, Owned, Twins, BootApart, StartsApart, UndoApart, UniqueIds
<1>7. Bound'
  BY <1>1 DEF IInv, TaskEnd, devUnchanged, TypeOK, Phases, Stages, Ownership, Owned, Twins, BootApart, Bound, UniqueIds, StartsApart, UndoApart
<1> QED BY <1>2, <1>3, <1>4, <1>5, <1>6, <1>7 DEF IInv

\* Stuttering.
LEMMA StutterStep ==
    ASSUME IInv, UNCHANGED vars
    PROVE  IInv'
<1>1. TypeOK'
  BY DEF IInv, vars, TypeOK, Pcs
<1>2. Phases' /\ Stages'
  BY DEF IInv, vars, TypeOK, Phases, Stages
<1>3. Ownership' /\ LiveIsOwned'
  BY DEF IInv, vars, TypeOK, Phases, Stages, Ownership, Owned, LiveIsOwned
<1>4. Twins'
  BY DEF IInv, vars, TypeOK, Phases, Stages, Ownership, Owned, Twins, Quiet, BootApart, StartsApart, UndoApart, UniqueIds
<1>5. BootApart' /\ StartsApart' /\ UndoApart'
  BY DEF IInv, vars, TypeOK, Phases, Stages, Ownership, Owned, Twins, BootApart, StartsApart, UndoApart, UniqueIds
<1>6. Bound'
  BY DEF IInv, vars, TypeOK, Phases, Stages, Ownership, Owned, Twins, BootApart, Bound, UniqueIds, StartsApart, UndoApart
<1> QED BY <1>1, <1>2, <1>3, <1>4, <1>5, <1>6 DEF IInv

-----------------------------------------------------------------------------
(* Theorems *)

\* App::new leaves nothing running: the invariant holds at the start.
LEMMA InitInv == Init => IInv
<1> SUFFICES ASSUME Init PROVE IInv
  OBVIOUS
<1>1. Free \in Runtime /\ Free.task = "free"
  BY DEF Free, Runtime
<1>2. PICK d \in Docs : prior = d /\ global = d.view /\ boot = parse_instances(d)
  BY DEF Init
<1>3. boot \subseteq Entry /\ UniqueIds(boot)
  BY <1>2, ParsedEntries
<1>4. TypeOK
  BY <1>1, <1>2, <1>3, DocView DEF Init, TypeOK, Pcs, NoPlan
<1>5. Phases /\ Stages /\ Ownership /\ LiveIsOwned /\ Twins
  BY <1>1 DEF Init, Phases, Stages, Ownership, Owned, LiveIsOwned, Twins
<1>6. BootApart /\ StartsApart /\ UndoApart /\ Bound
  BY <1>2, <1>3 DEF Init, BootApart, StartsApart, UndoApart, Bound, UniqueIds
<1> QED BY <1>4, <1>5, <1>6 DEF IInv

\* No step of the supervisor, of a configuration apply or of a device task
\* leaves the invariant.
LEMMA NextInv == IInv /\ [Next]_vars => IInv'
<1> SUFFICES ASSUME IInv, [Next]_vars PROVE IInv'
  OBVIOUS
<1>1. CASE App
  BY <1>1, BootLaunchStep, BootFailStep, BootDoneStep, ShutdownSignalStep, DrainStep, DrainStoppedStep DEF App
<1>2. CASE \E d \in Docs : Prepare(d)
  BY <1>2, PrepareStep
<1>3. CASE Commit
  BY <1>3, CommitRefusedStep, CommitBeginStep, StopBeginStep, StopEndStep, SetGlobalStep, LaunchFailedStep,
     CommitOkStep, InsertStep, DetachStep, ClearAlarmStep, LaunchStep DEF Commit
<1>4. CASE Rollback
  BY <1>4, UndoLaunchedStep, UndoStoppedStep, RollbackDoneStep, RelaunchStep DEF Rollback
<1>5. CASE \E r \in Slots : Device(r)
  BY <1>5, ConnectStep, LinkLostStep, TaskEndStep DEF Device
<1>6. CASE Terminated \/ UNCHANGED vars
  BY <1>6, StutterStep DEF Terminated
<1> QED BY <1>1, <1>2, <1>3, <1>4, <1>5, <1>6 DEF Next

\* The inductive invariant of the transaction holds in every behaviour.
THEOREM Invariance == Spec => []IInv
<1>1. Init => IInv
  BY InitInv
<1>2. IInv /\ [Next]_vars => IInv'
  BY NextInv
<1> QED BY <1>1, <1>2, PTL DEF Spec

\* Every variable keeps its type, whatever the documents and the interleaving.
THEOREM TypeCorrect == Spec => []TypeOK
<1>1. IInv => TypeOK
  BY DEF IInv
<1> QED BY <1>1, Invariance, PTL

\* No task that was not aborted runs without an owner that will join it.
THEOREM EveryTaskOwned == Spec => []LiveIsOwned
<1>1. IInv => LiveIsOwned
  BY DEF IInv
<1> QED BY <1>1, Invariance, PTL

\* No two runtimes of one instance hold a device session at once, unless one
\* was aborted: both are owned, and of two owned twins one never connected.
THEOREM SingleSession == Spec => []OneSession
<1>1. IInv => OneSession
  <2> SUFFICES ASSUME IInv, NEW r \in Slots, NEW s \in Slots, r # s, Session(r), Session(s),
                      rt[r].id = rt[s].id, ~rt[r].aborted, ~rt[s].aborted
               PROVE  FALSE
    BY DEF OneSession
  <2>1. r \in Owned /\ s \in Owned
    BY DEF IInv, LiveIsOwned, Session
  <2>2. Quiet(r) \/ Quiet(s)
    BY <2>1 DEF IInv, Twins
  <2> QED BY <2>2 DEF Quiet, Session
<1> QED BY <1>1, Invariance, PTL

\* Between applies everything that runs is bound to the generation the next
\* reload is measured against, however often applies were rolled back.
THEOREM GenerationBinding == Spec => []BoundToGeneration
<1>1. IInv => BoundToGeneration
  BY DEF IInv, Bound, Stages, BoundToGeneration, Settled
<1> QED BY <1>1, Invariance, PTL

-----------------------------------------------------------------------------
(***************************************************************************)
(* What an apply does to the set of running instances: the set is the      *)
(* generation's, a kept instance is not disturbed, and a removed one       *)
(* leaves no alarm behind.  GenInv and AlarmInv build on IInv.             *)
(***************************************************************************)

\* Phases in which a commit may still succeed.
Forward == {"prepared", "detach", "stop", "clear", "launch"}

\* The runtimes of S run the same entries after the step.
Same(S) == \A r \in S : rt'[r].id = rt[r].id /\ rt'[r].raw = rt[r].raw

-----------------------------------------------------------------------------
(* Sets of running entries *)

\* Running distributes over the owners of runtimes.
LEMMA RunningUnion ==
    ASSUME NEW S, NEW T
    PROVE  Running(S \cup T) = Running(S) \cup Running(T)
BY DEF Running

\* Runtimes of one set run entries that differ as their ids do.
LEMMA RunningMember ==
    ASSUME NEW S, NEW e \in Running(S)
    PROVE  \E r \in S : e = [id |-> rt[r].id, raw |-> rt[r].raw] /\ e.id = rt[r].id /\ e.raw = rt[r].raw
BY DEF Running

\* The ids of entries, as a predicate.
LEMMA IdsMember ==
    ASSUME NEW S
    PROVE  \A i : i \in IdsOf(S) <=> \E e \in S : e.id = i
BY DEF IdsOf

\* Before the root is cancelled no instance runs twice.
LEMMA RunningOnce ==
    ASSUME IInv, ~root
    PROVE  /\ UniqueIds(Running(registry \cup inserting))
           /\ \A r, s \in registry \cup inserting : rt[r].id = rt[s].id => r = s
<1>1. \A r, s \in registry \cup inserting : rt[r].id = rt[s].id => r = s
  BY DEF IInv, Twins, Owned
<1>2. ASSUME NEW e \in Running(registry \cup inserting), NEW f \in Running(registry \cup inserting), e.id = f.id
      PROVE  e = f
  <2>1. PICK r \in registry \cup inserting : e = [id |-> rt[r].id, raw |-> rt[r].raw] /\ e.id = rt[r].id
    BY RunningMember
  <2>2. PICK s \in registry \cup inserting : f = [id |-> rt[s].id, raw |-> rt[s].raw] /\ f.id = rt[s].id
    BY RunningMember
  <2> QED BY <1>1, <1>2, <2>1, <2>2
<1> QED BY <1>1, <1>2 DEF UniqueIds

\* Before the root is cancelled and after startup, App::run is in its loop.
LEMMA InRun ==
    ASSUME IInv
    PROVE  /\ started /\ ~root => main = "run"
           /\ pc # "idle" => started /\ main # "boot" /\ fresh = {}
           /\ main = "boot" => ~started /\ ~root /\ pc = "idle" /\ registry = {} /\ inserting = {} /\ launched = {} /\ stopped = {}
BY DEF IInv, TypeOK, Phases, Stages

-----------------------------------------------------------------------------
(* The running set is the generation's *)

\* Once the root is cancelled nothing is claimed.
LEMMA GenRoot ==
    ASSUME IInv', root'
    PROVE  GenInv'
BY DEF IInv, Phases, GenInv, BootGen, UndoGen, CommitGen, RepollGen

\* A step that moves no entry between what runs, what is to be started and
\* what was stopped.
LEMMA GenKept ==
    ASSUME GenInv, UNCHANGED <<main, started, root, boot, fresh, prior, repoll, launched, stopped, lost>>,
           registry' \cup inserting' = registry \cup inserting,
           Same(registry \cup inserting \cup fresh),
           pc' \in Forward => pc \in Forward /\ UNCHANGED <<cand, todo, starts>>
    PROVE  GenInv'
<1>1. Running(registry \cup inserting)' = Running(registry \cup inserting)
  BY DEF Running, Same
<1>2. Running(fresh)' = Running(fresh)
  BY DEF Running, Same
<1>3. Launchable(prior)' = Launchable(prior)
  BY DEF Launchable
<1>4. BootGen'
  BY <1>2, <1>3 DEF GenInv, BootGen
<1>5. UndoGen'
  BY <1>1, <1>3 DEF GenInv, UndoGen
<1>6. CommitGen'
  BY <1>1 DEF GenInv, CommitGen, Forward, Launchable
<1>7. RepollGen'
  BY <1>3 DEF GenInv, RepollGen
<1> QED BY <1>4, <1>5, <1>6, <1>7 DEF GenInv

\* Startup moves one entry from what is to be launched to what runs, or skips it.
LEMMA BootLaunchGen ==
    ASSUME IInv, GenInv, NEW e \in Entry, BootLaunch(e)
    PROVE  GenInv'
<1>1. /\ main = "boot" /\ main' = main /\ started' = started /\ ~started /\ prior' = prior /\ lost' = lost
      /\ pc = "idle" /\ pc' = pc /\ boot' = boot \ {e} /\ e \in boot
  BY InRun DEF BootLaunch, IsNext
<1>2. Running(fresh)' \cup {f \in boot' : f.raw \notin UnknownTok}
         = Running(fresh) \cup {f \in boot : f.raw \notin UnknownTok}
  <2>1. CASE LaunchUnknown(e) /\ UNCHANGED fresh
    <3>1. Running(fresh)' = Running(fresh) /\ e.raw \in UnknownTok
      BY <2>1 DEF LaunchUnknown, Running
    <3> QED BY <1>1, <3>1
  <2>2. ASSUME NEW r \in Slots, LaunchOk(e, prior.view, r), fresh' = fresh \cup {r}
        PROVE  Running(fresh)' = Running(fresh) \cup {e} /\ e.raw \notin UnknownTok
    <3>1. r \notin Owned /\ \A x \in Slots : x # r => rt'[x] = rt[x]
      BY <2>2, LaunchFacts, DocView DEF IInv, TypeOK
    <3>2. rt'[r].id = e.id /\ rt'[r].raw = e.raw /\ e.raw \notin UnknownTok
      BY <2>2 DEF LaunchOk, Spawned, IInv, TypeOK
    <3>3. \A x \in fresh : rt'[x] = rt[x]
      BY <3>1 DEF Owned, IInv, TypeOK
    <3>4. e = [id |-> rt'[r].id, raw |-> rt'[r].raw]
      BY <3>2 DEF Entry
    <3> QED BY <2>2, <3>2, <3>3, <3>4 DEF Running
  <2> QED BY <1>1, <2>1, <2>2 DEF BootLaunch
<1>3. BootGen'
  BY <1>1, <1>2 DEF GenInv, BootGen, Launchable
<1> QED BY <1>1, <1>3 DEF GenInv, UndoGen, CommitGen, RepollGen

\* All push, told from the runtimes or from the entries they run.
LEMMA AllPushEntries ==
    ASSUME NEW S
    PROVE  AllPush(S) = (Running(S) # {} /\ \A e \in Running(S) : e.raw \in PushMode)
<1>1. S = {} <=> Running(S) = {}
  BY DEF Running
<1>2. (\A r \in S : rt[r].raw \in PushMode) <=> \A e \in Running(S) : e.raw \in PushMode
  <2>1. ASSUME \A r \in S : rt[r].raw \in PushMode, NEW e \in Running(S) PROVE e.raw \in PushMode
    BY <2>1, RunningMember
  <2>2. ASSUME \A e \in Running(S) : e.raw \in PushMode, NEW r \in S PROVE rt[r].raw \in PushMode
    <3>1. [id |-> rt[r].id, raw |-> rt[r].raw] \in Running(S)
      BY DEF Running
    <3> QED BY <2>2, <3>1
  <2> QED BY <2>1, <2>2
<1> QED BY <1>1, <1>2 DEF AllPush

\* The gate opens on the whole of the startup document.
LEMMA BootDoneGen ==
    ASSUME IInv, GenInv, BootDone
    PROVE  GenInv'
<1>1. /\ main = "boot" /\ main' = "run" /\ boot = {} /\ registry' = fresh /\ rt' = rt
      /\ UNCHANGED <<inserting, launched, stopped, prior, lost, pc>>
      /\ inserting = {} /\ launched = {} /\ stopped = {} /\ pc = "idle"
      /\ repoll' = AllPush(fresh)
  BY InRun DEF BootDone
<1>2. Running(registry \cup inserting)' = Running(fresh)
  BY <1>1 DEF Running
<1>3. Running(fresh) = Launchable(prior) /\ lost = {} /\ Launchable(prior)' = Launchable(prior)
  BY <1>1 DEF GenInv, BootGen, Launchable
<1>4. UndoGen'
  BY <1>1, <1>2, <1>3 DEF UndoGen
<1>5. RepollGen'
  BY <1>1, <1>3, AllPushEntries DEF RepollGen
<1> QED BY <1>1, <1>4, <1>5 DEF GenInv, BootGen, CommitGen

\* A plan splits the candidate into what runs and stays and what is started,
\* and stops the rest of what runs.  It neither stops nor starts what it keeps.
LEMMA PlanSplits ==
    ASSUME NEW running \in SUBSET Entry, UniqueIds(running), NEW v, NEW d \in Docs
    PROVE  LET p == MakePlan(running, v, d) IN
           /\ \E kept \in SUBSET running :
                 /\ kept \subseteq parse_instances(d)
                 /\ p.start = parse_instances(d) \ kept
                 /\ {e \in running : e.id \notin p.stop} = kept
           /\ p.keep \cap p.stop = {} /\ p.keep \cap IdsOf(p.start) = {}
           /\ p.removed \cap IdsOf(p.start) = {}
<1> DEFINE valid == parse_instances(d)
           kept == IF d.view # v THEN {} ELSE running \cap valid
           again == {x.id : x \in {w \in valid \ kept : w.id \in IdsOf(running)}}
           removed == IdsOf(running) \ IdsOf(valid)
           p == MakePlan(running, v, d)
<1>1. UniqueIds(valid)
  BY ParsedEntries
<1>2. p.keep = IdsOf(kept) /\ p.stop = removed \cup again /\ p.start = valid \ kept /\ p.removed = removed
  BY DEF MakePlan
<1>3. kept \subseteq running /\ kept \subseteq valid
  OBVIOUS
<1> HIDE DEF p, valid, kept
<1>4. \A i : i \in again <=> \E w \in valid \ kept : w.id = i /\ i \in IdsOf(running)
  OBVIOUS
<1> HIDE DEF again
<1>5. /\ \A i : i \in IdsOf(running) <=> \E e \in running : e.id = i
      /\ \A i : i \in IdsOf(valid) <=> \E e \in valid : e.id = i
      /\ \A i : i \in IdsOf(kept) <=> \E e \in kept : e.id = i
      /\ \A i : i \in IdsOf(valid \ kept) <=> \E e \in valid \ kept : e.id = i
  BY IdsMember
<1>6. {e \in running : e.id \notin removed \cup again} = kept
  <2>1. ASSUME NEW e \in running, e.id \notin removed \cup again PROVE e \in kept
    <3>1. PICK w \in valid : w.id = e.id
      BY <2>1, <1>5
    <3>2. w \in kept
      BY <2>1, <3>1, <1>4, <1>5
    <3> QED BY <3>1, <3>2, <1>3 DEF UniqueIds
  <2>2. ASSUME NEW e \in kept PROVE e \in running /\ e.id \notin removed \cup again
    <3>1. e.id \notin removed
      BY <1>3, <1>5
    <3>2. e.id \notin again
      BY <1>1, <1>3, <1>4 DEF UniqueIds
    <3> QED BY <3>1, <3>2, <1>3
  <2> QED BY <2>1, <2>2
<1>7. IdsOf(kept) \cap (removed \cup again) = {}
  BY <1>3, <1>5, <1>6
<1>8. IdsOf(kept) \cap IdsOf(valid \ kept) = {}
  <2>1. ASSUME NEW e \in kept, NEW f \in valid \ kept PROVE e.id # f.id
    BY <1>1, <1>3 DEF UniqueIds
  <2>2. ASSUME NEW i \in IdsOf(kept), i \in IdsOf(valid \ kept) PROVE FALSE
    <3>1. PICK e \in kept : e.id = i
      BY <2>2, <1>5
    <3>2. PICK f \in valid \ kept : f.id = i
      BY <2>2, <1>5
    <3> QED BY <2>1, <3>1, <3>2
  <2> QED BY <2>2
<1>9. removed \cap IdsOf(valid \ kept) = {}
  BY <1>5
<1>10. \E k \in SUBSET running : /\ k \subseteq valid /\ p.start = valid \ k
                                 /\ {e \in running : e.id \notin p.stop} = k
  BY <1>2, <1>3, <1>6
<1> QED BY <1>2, <1>7, <1>8, <1>9, <1>10 DEF p, valid

\* A prepared plan accounts for the whole of the candidate.
LEMMA PrepareGen ==
    ASSUME IInv, GenInv, NEW d \in Docs, Prepare(d)
    PROVE  GenInv'
<1> DEFINE p == MakePlan(Running(registry), prior.view, d)
<1>1. /\ pc = "idle" /\ inserting = {}
      /\ UNCHANGED <<main, started, root, boot, fresh, prior, repoll, launched, stopped, lost, registry, inserting, rt>>
  BY DEF Prepare, IInv, Stages
<1>2. \/ UNCHANGED pc
      \/ started /\ ~root /\ pc' = "prepared" /\ cand' = d /\ todo' = p.stop /\ starts' = p.start
  BY DEF Prepare, Reject
<1> HIDE DEF p
<1>3. CASE UNCHANGED pc
  BY <1>1, <1>3, GenKept DEF Forward, Same
<1>4. CASE started /\ ~root /\ pc' = "prepared" /\ cand' = d /\ todo' = p.stop /\ starts' = p.start
  <2>1. Running(registry \cup inserting) = Running(registry) /\ launched = {} /\ stopped = {}
    BY <1>1 DEF IInv, Stages
  <2>2. UniqueIds(Running(registry)) /\ Running(registry) \subseteq Entry
    BY <1>4, <2>1, RunningOnce, RunningFacts DEF IInv, Owned
  <2>3. \A e \in Running(registry) : e.raw \notin UnknownTok
    BY <1>4, <2>1 DEF GenInv, UndoGen, Launchable
  <2>4. PICK kept \in SUBSET Running(registry) :
           /\ kept \subseteq parse_instances(d)
           /\ p.start = parse_instances(d) \ kept
           /\ {e \in Running(registry) : e.id \notin p.stop} = kept
    BY <2>2, PlanSplits DEF p
  <2>5. Running(registry \cup inserting)' = Running(registry)
    BY <1>1 DEF Running
  <2>6. CommitGen'
    BY <1>4, <2>3, <2>4, <2>5 DEF CommitGen, Launchable
  <2>7. BootGen' /\ UndoGen' /\ RepollGen'
    <3>1. Running(fresh)' = Running(fresh) /\ Launchable(prior)' = Launchable(prior)
      BY <1>1 DEF Running, Launchable
    <3> QED BY <1>1, <2>1, <2>5, <3>1 DEF GenInv, BootGen, UndoGen, RepollGen
  <2> QED BY <2>6, <2>7 DEF GenInv
<1> QED BY <1>2, <1>3, <1>4

\* Detaching takes out of the registry exactly what ran under the id.
LEMMA DetachGen ==
    ASSUME IInv, GenInv, NEW id \in Ids, Detach(id), ~root
    PROVE  GenInv'
<1>1. /\ pc = "detach" /\ id \in todo /\ todo' = todo \ {id} /\ inserting = {} /\ inserting' = {}
      /\ launched = {} /\ launched' = {} /\ rt' = rt
      /\ UNCHANGED <<main, started, root, boot, fresh, prior, repoll, lost, pc, cand, starts>>
  BY DEF Detach, IInv, Stages
<1>2. UniqueIds(Running(registry)) /\ \A r, s \in registry : rt[r].id = rt[s].id => r = s
  BY <1>1, RunningOnce
<1>3. /\ Running(registry) = Running(registry \cup inserting)
      /\ Running(registry \cup inserting)' = Running(registry')
  BY <1>1 DEF Running
<1>4. /\ Running(registry') = {e \in Running(registry) : e.id # id}
      /\ \/ stopped' = stopped /\ \A e \in Running(registry) : e.id # id
         \/ \E x \in Running(registry) : x.id = id /\ stopped' = stopped \cup {x}
  <2>1. CASE UNCHANGED registry /\ (\A r \in registry : rt[r].id # id) /\ UNCHANGED stopped
    <3>1. \A e \in Running(registry) : e.id # id
      BY <2>1, RunningMember
    <3> QED BY <2>1, <3>1
  <2>2. ASSUME NEW r \in registry, rt[r].id = id, registry' = registry \ {r}, stopped' = stopped \cup Running({r})
        PROVE  \E x \in Running(registry) : x.id = id /\ stopped' = stopped \cup {x}
    <3> DEFINE x == [id |-> rt[r].id, raw |-> rt[r].raw]
    <3>1. Running({r}) = {x} /\ x \in Running(registry) /\ x.id = id
      BY <2>2 DEF Running
    <3> QED BY <2>2, <3>1
  <2>3. ASSUME NEW r \in registry, rt[r].id = id, registry' = registry \ {r}
        PROVE  Running(registry') = {e \in Running(registry) : e.id # id}
    <3>1. ASSUME NEW e \in Running(registry') PROVE e \in Running(registry) /\ e.id # id
      <4>1. PICK s \in registry' : e = [id |-> rt[s].id, raw |-> rt[s].raw] /\ e.id = rt[s].id
        BY <3>1, RunningMember
      <4>2. s \in registry /\ s # r
        BY <2>3, <4>1
      <4> QED BY <1>2, <2>3, <4>1, <4>2 DEF Running
    <3>2. ASSUME NEW e \in Running(registry), e.id # id PROVE e \in Running(registry')
      <4>1. PICK s \in registry : e = [id |-> rt[s].id, raw |-> rt[s].raw] /\ e.id = rt[s].id
        BY <3>2, RunningMember
      <4>2. s \in registry'
        BY <2>3, <3>2, <4>1
      <4> QED BY <4>1, <4>2 DEF Running
    <3> QED BY <3>1, <3>2
  <2> QED BY <2>1, <2>2, <2>3 DEF Detach
<1>5. UndoGen'
  <2>1. Running(registry') \cup stopped' = Running(registry) \cup stopped
    BY <1>2, <1>4 DEF UniqueIds
  <2> QED BY <1>1, <1>3, <2>1 DEF GenInv, UndoGen, Launchable
<1>6. CommitGen'
  <2>1. {e \in Running(registry') : e.id \notin todo'} = {e \in Running(registry) : e.id \notin todo}
    BY <1>1, <1>4
  <2> QED BY <1>1, <1>3, <2>1 DEF GenInv, CommitGen, Launchable
<1>7. BootGen' /\ RepollGen'
  BY <1>1 DEF GenInv, BootGen, RepollGen, Launchable, Running
<1> QED BY <1>5, <1>6, <1>7 DEF GenInv

\* The runtime launch() returns runs its entry beside everything else.
LEMMA LaunchRuns ==
    ASSUME IInv, NEW e \in Entry, NEW v \in Views, NEW r \in Slots, LaunchOk(e, v, r)
    PROVE  {[id |-> rt'[x].id, raw |-> rt'[x].raw] : x \in registry \cup {r}} = Running(registry) \cup {e}
<1>1. r \notin Owned /\ \A x \in Slots : x # r => rt'[x] = rt[x]
  BY LaunchFacts DEF IInv
<1>2. rt'[r].id = e.id /\ rt'[r].raw = e.raw
  BY DEF LaunchOk, Spawned, IInv, TypeOK
<1>3. \A x \in registry : rt'[x] = rt[x]
  BY <1>1 DEF Owned, IInv, TypeOK
<1>4. e = [id |-> rt'[r].id, raw |-> rt'[r].raw]
  BY <1>2 DEF Entry
<1> QED BY <1>3, <1>4 DEF Running

\* A start moves one entry from what is to be launched to what runs.
LEMMA LaunchGen ==
    ASSUME IInv, GenInv, NEW e \in Entry, Launch(e), ~root
    PROVE  GenInv'
<1>1. /\ pc = "launch" /\ inserting = {} /\ todo = {} /\ todo' = {} /\ e \in starts /\ starts' = starts \ {e}
      /\ UNCHANGED <<main, started, root, boot, fresh, prior, repoll, lost, pc, cand, registry, stopped>>
      /\ fresh = {} /\ main # "boot"
  BY InRun DEF Launch, IsNext, IInv, Stages
<1>2. \A f \in Running(registry) : f.id # e.id
  <2>1. \A r \in registry : rt[r].id # e.id
    BY <1>1 DEF IInv, StartsApart
  <2> QED BY <2>1, RunningMember
<1>3. Running(registry) = Running(registry \cup inserting)
  BY <1>1
<1>4. \/ /\ Running(registry \cup inserting)' = Running(registry) \cup {e} /\ launched' = launched \cup {e.id}
         /\ e.raw \notin UnknownTok
      \/ /\ Running(registry \cup inserting)' = Running(registry) /\ launched' = launched
         /\ e.raw \in UnknownTok
  <2>1. CASE LaunchUnknown(e) /\ UNCHANGED <<inserting, launched>>
    BY <1>1, <2>1 DEF LaunchUnknown, Running
  <2>2. ASSUME NEW r \in Slots, LaunchOk(e, cand.view, r), inserting' = {r}
        PROVE  Running(registry \cup inserting)' = Running(registry) \cup {e} /\ e.raw \notin UnknownTok
    <3>1. {[id |-> rt'[x].id, raw |-> rt'[x].raw] : x \in registry \cup {r}} = Running(registry) \cup {e}
      BY <2>2, LaunchRuns, DocView DEF IInv, TypeOK
    <3> QED BY <1>1, <2>2, <3>1 DEF Running, LaunchOk
  <2> QED BY <2>1, <2>2 DEF Launch
<1>5. UndoGen'
  <2>1. {f \in Running(registry \cup inserting)' : f.id \notin launched'}
           = {f \in Running(registry) : f.id \notin launched}
    BY <1>2, <1>4
  <2> QED BY <1>1, <1>3, <2>1 DEF GenInv, UndoGen, Launchable
<1>6. CommitGen'
  <2>1. {f \in Running(registry \cup inserting)' : f.id \notin {}} \cup {f \in starts' : f.raw \notin UnknownTok}
           = {f \in Running(registry) : f.id \notin {}} \cup {f \in starts : f.raw \notin UnknownTok}
    BY <1>1, <1>4
  <2> QED BY <1>1, <1>3, <2>1 DEF GenInv, CommitGen, Launchable
<1>7. BootGen' /\ RepollGen'
  BY <1>1 DEF GenInv, BootGen, RepollGen, Launchable
<1> QED BY <1>5, <1>6, <1>7 DEF GenInv

\* A commit ends with exactly the candidate running.
LEMMA CommitOkGen ==
    ASSUME IInv, GenInv, CommitOk, ~root
    PROVE  GenInv'
<1>1. /\ pc = "launch" /\ pc' = "idle" /\ inserting = {} /\ inserting' = {} /\ starts = {} /\ todo = {}
      /\ UNCHANGED <<main, started, root, boot, fresh, registry, rt>> /\ main # "boot"
      /\ prior' = cand /\ lost' = {} /\ stopped' = {} /\ launched' = {}
      /\ repoll' = AllPush(registry)
  BY InRun DEF CommitOk, Finished, IInv, Stages
<1>2. Running(registry) = Launchable(cand)
  BY <1>1 DEF GenInv, CommitGen
<1>3. Running(registry \cup inserting)' = Running(registry) /\ Launchable(prior)' = Launchable(cand)
  BY <1>1 DEF Running, Launchable
<1>4. UndoGen'
  BY <1>1, <1>2, <1>3 DEF UndoGen
<1>5. RepollGen'
  BY <1>1, <1>2, <1>3, AllPushEntries DEF RepollGen
<1> QED BY <1>1, <1>4, <1>5 DEF GenInv, BootGen, CommitGen

\* Cancelling keeps what a runtime runs.
LEMMA CancelAllSame ==
    ASSUME IInv, NEW S \in SUBSET Owned, rt' = CancelAll(S)
    PROVE  Same(Slots)
<1>1. \A r \in Slots : rt[r] \in Runtime /\ (r \in S => rt[r].task # "free")
  BY DEF IInv, TypeOK, Ownership, Owned
<1> QED BY <1>1, CancelledRuntime DEF CancelAll, Same

\* Rollback takes back what the commit launched, and nothing else.
LEMMA UndoLaunchedGen ==
    ASSUME IInv, GenInv, UndoLaunched, ~root
    PROVE  GenInv'
<1>1. /\ pc = "undo" /\ pc' = "undostop" /\ inserting = {} /\ inserting' = {} /\ launched' = {}
      /\ UNCHANGED <<main, started, root, boot, fresh, prior, repoll, lost, cand, stopped>> /\ main # "boot"
      /\ registry' = {r \in registry : rt[r].id \notin launched}
  BY InRun DEF UndoLaunched, IInv, Stages
<1>2. Same(registry) /\ registry \subseteq Slots
  <2>1. {r \in registry : rt[r].id \in launched} \in SUBSET Owned
    BY DEF Owned
  <2>2. rt' = CancelAll({r \in registry : rt[r].id \in launched})
    BY DEF UndoLaunched
  <2>3. Same(Slots)
    BY <2>1, <2>2, CancelAllSame
  <2> QED BY <2>3 DEF Same, IInv, TypeOK
<1>3. Running(registry \cup inserting)' = {e \in Running(registry \cup inserting) : e.id \notin launched}
  <2>1. Running(registry \cup inserting)' = {[id |-> rt[r].id, raw |-> rt[r].raw] : r \in registry'}
    BY <1>1, <1>2 DEF Running, Same
  <2>2. Running(registry \cup inserting) = Running(registry)
    BY <1>1
  <2>3. {[id |-> rt[r].id, raw |-> rt[r].raw] : r \in registry'} = {e \in Running(registry) : e.id \notin launched}
    BY <1>1 DEF Running
  <2> QED BY <2>1, <2>2, <2>3
<1>4. UndoGen'
  BY <1>1, <1>3 DEF GenInv, UndoGen, Launchable
<1> QED BY <1>1, <1>4 DEF GenInv, BootGen, CommitGen, RepollGen, Launchable

\* A relaunch takes an entry off the undo record: it runs again, or is lost.
LEMMA RelaunchGen ==
    ASSUME IInv, GenInv, NEW e \in Entry, Relaunch(e), ~root
    PROVE  GenInv'
<1>1. /\ pc = "relaunch" /\ inserting = {} /\ e \in stopped /\ stopped' = stopped \ {e}
      /\ UNCHANGED <<main, started, root, boot, fresh, prior, repoll, pc, cand, registry, launched>>
      /\ launched = {} /\ started /\ main # "boot"
  BY InRun DEF Relaunch, IInv, Stages
<1>2. \A f \in Running(registry) : f.id # e.id
  <2>1. \A r \in registry : rt[r].id # e.id
    BY <1>1 DEF IInv, UndoApart
  <2> QED BY <2>1, RunningMember
<1>3. Running(registry) = Running(registry \cup inserting)
  BY <1>1
<1>4. Running(registry) \cup stopped = {f \in Launchable(prior) : f.id \notin lost}
  BY <1>1, <1>3 DEF GenInv, UndoGen
<1>5. UniqueIds(stopped) /\ UniqueIds(Running(registry))
  BY <1>1, RunningOnce DEF IInv, UndoApart
<1>6. \/ Running(registry \cup inserting)' = Running(registry) \cup {e} /\ lost' = lost
      \/ Running(registry \cup inserting)' = Running(registry) /\ lost' = lost \cup {e.id}
  <2>1. CASE LaunchBroken /\ lost' = lost \cup {e.id} /\ UNCHANGED inserting
    BY <1>1, <2>1 DEF LaunchBroken, Running
  <2>2. ASSUME NEW r \in Slots, LaunchOk(e, prior.view, r), inserting' = {r}
        PROVE  Running(registry \cup inserting)' = Running(registry) \cup {e}
    <3>1. {[id |-> rt'[x].id, raw |-> rt'[x].raw] : x \in registry \cup {r}} = Running(registry) \cup {e}
      BY <2>2, LaunchRuns, DocView DEF IInv, TypeOK
    <3> QED BY <1>1, <2>2, <3>1 DEF Running
  <2> QED BY <2>1, <2>2 DEF Relaunch
<1>7. Running(registry \cup inserting)' \cup stopped' = {f \in Launchable(prior) : f.id \notin lost'}
  <2>1. CASE Running(registry \cup inserting)' = Running(registry) \cup {e} /\ lost' = lost
    BY <1>1, <1>4, <2>1
  <2>2. CASE Running(registry \cup inserting)' = Running(registry) /\ lost' = lost \cup {e.id}
    BY <1>1, <1>2, <1>4, <1>5, <2>2 DEF UniqueIds
  <2> QED BY <1>6, <2>1, <2>2
<1>8. UndoGen'
  BY <1>1, <1>7 DEF UndoGen, Launchable
<1> QED BY <1>1, <1>8 DEF GenInv, BootGen, CommitGen, RepollGen, Launchable

\* Device steps change no runtime's entry.
LEMMA DeviceSame ==
    ASSUME IInv, NEW r \in Slots, Device(r)
    PROVE  Same(Owned)
<1>1. rt[r].task = "live" /\ rt[r] \in Runtime
  BY DEF Device, Connect, LinkLost, TaskEnd, Session, IInv, TypeOK
<1>2. CASE Connect(r) \/ LinkLost(r)
  <2>1. PICK l \in Links : rt' = [rt EXCEPT ![r].link = l]
    BY <1>2 DEF Connect, LinkLost, SetLink, Links
  <2>2. rt' = [rt EXCEPT ![r] = [rt[r] EXCEPT !.link = l]]
    BY <2>1
  <2> QED BY <1>1, <2>2, LinkedRuntime DEF Same, IInv, TypeOK, Owned
<1>3. CASE TaskEnd(r)
  <2>1. CASE rt[r].aborted
    <3>1. r \notin Owned
      BY <2>1 DEF IInv, Ownership
    <3> QED BY <1>3, <2>1, <3>1 DEF TaskEnd, Same, IInv, TypeOK, Owned
  <2>2. CASE ~rt[r].aborted
    <3> DEFINE y == [rt[r] EXCEPT !.task = "ended", !.link = "none"]
    <3>1. rt' = [rt EXCEPT ![r] = y]
      BY <1>3, <2>2 DEF TaskEnd, IInv, TypeOK
    <3>2. y.id = rt[r].id /\ y.raw = rt[r].raw
      BY <1>1, EndedRuntime
    <3> HIDE DEF y
    <3> QED BY <3>1, <3>2 DEF Same, IInv, TypeOK, Owned
  <2> QED BY <2>1, <2>2
<1> QED BY <1>2, <1>3 DEF Device

\* No step takes the running set away from what its documents declare.
LEMMA NextGen ==
    ASSUME IInv, GenInv, [Next]_vars
    PROVE  GenInv'
<1>1. IInv'
  BY NextInv
<1>2. CASE root'
  BY <1>1, <1>2, GenRoot
<1>3. CASE ~root'
  <2>1. ~root
    BY <1>3 DEF Next, vars, App, BootLaunch, BootFail, BootDone, ShutdownSignal, Drain, DrainStopped, Prepare, Commit,
       Rollback, CommitRefused, CommitBegin, StopBegin, StopEnd, SetGlobal, LaunchFailed, CommitOk, Insert, Detach,
       ClearAlarm, Launch, UndoLaunched, UndoStopped, RollbackDone, Relaunch, Device, Connect, LinkLost, TaskEnd,
       devUnchanged, Terminated
  <2>2. main \notin {"drain", "join"}
    BY <2>1 DEF IInv, Phases
  <2>3. CASE App
    <3>1. ~BootFail /\ ~ShutdownSignal /\ ~Drain /\ ~DrainStopped
      BY <1>3, <2>2 DEF BootFail, ShutdownSignal, Drain, DrainStopped
    <3> QED BY <2>3, <3>1, BootLaunchGen, BootDoneGen DEF App
  <2>4. CASE \E d \in Docs : Prepare(d)
    BY <2>4, PrepareGen
  <2>5. CASE CommitRefused
    BY <2>1, <2>5 DEF CommitRefused
  <2>6. CASE CommitBegin \/ SetGlobal \/ \E id \in Ids : ClearAlarm(id)
    BY <2>6, GenKept DEF CommitBegin, SetGlobal, ClearAlarm, Forward, Same
  <2>7. CASE StopBegin
    <3>1. Same(registry \cup inserting \cup fresh)
      BY <2>7, CancelAllSame DEF StopBegin, Owned, Same, IInv, TypeOK
    <3> QED BY <2>7, <3>1, GenKept DEF StopBegin, Forward
  <2>8. CASE StopEnd
    <3>1. \A x \in Slots \ stopping : rt'[x] = rt[x]
      BY <2>8, ReapedFacts DEF IInv, Owned, StopEnd, Stopped
    <3>2. Same(registry \cup inserting \cup fresh)
      BY <3>1 DEF Same, IInv, TypeOK, Ownership
    <3> QED BY <2>8, <3>2, GenKept DEF StopEnd, Stopped, Forward
  <2>9. CASE LaunchFailed
    BY <2>9, GenKept DEF LaunchFailed, LaunchBroken, Forward, Same
  <2>10. CASE CommitOk \/ (\E id \in Ids : Detach(id)) \/ (\E e \in Entry : Launch(e))
    BY <2>1, <2>10, CommitOkGen, DetachGen, LaunchGen
  <2>11. CASE Insert
    <3>1. registry' \cup inserting' = registry \cup inserting
      BY <2>11 DEF Insert
    <3> QED BY <2>11, <3>1, GenKept DEF Insert, Forward, Same
  <2>12. CASE UndoLaunched \/ \E e \in Entry : Relaunch(e)
    BY <2>1, <2>12, UndoLaunchedGen, RelaunchGen
  <2>13. CASE UndoStopped
    <3>1. \A x \in Slots \ stopping : rt'[x] = rt[x]
      BY <2>13, ReapedFacts DEF IInv, Owned, UndoStopped, Stopped
    <3>2. Same(registry \cup inserting \cup fresh)
      BY <3>1 DEF Same, IInv, TypeOK, Ownership
    <3> QED BY <2>13, <3>2, GenKept DEF UndoStopped, Stopped, Forward
  <2>14. CASE RollbackDone
    <3>1. launched = {} /\ stopped = {}
      BY <2>14 DEF RollbackDone, IInv, Stages
    <3> QED BY <2>14, <3>1, GenKept DEF RollbackDone, Finished, Forward, Same
  <2>15. CASE \E r \in Slots : Device(r)
    <3>1. Same(registry \cup inserting \cup fresh)
      BY <2>15, DeviceSame DEF Owned, Same
    <3> QED BY <2>15, <3>1, GenKept DEF Device, Connect, LinkLost, TaskEnd, devUnchanged, Forward
  <2>16. CASE Terminated \/ UNCHANGED vars
    BY <2>16, GenKept DEF Terminated, vars, Forward, Same
  <2> QED BY <2>3, <2>4, <2>5, <2>6, <2>7, <2>8, <2>9, <2>10, <2>11, <2>12, <2>13, <2>14, <2>15, <2>16
          DEF Next, Commit, Rollback
<1> QED BY <1>1, <1>2, <1>3 DEF IInv, TypeOK

\* What runs, what is to be started and what was stopped always make up the
\* documents, in every phase of startup, commit and rollback.
THEOREM SetInvariant == Spec => []GenInv
<1>1. Init => GenInv
  <2> SUFFICES ASSUME Init PROVE GenInv
    OBVIOUS
  <2>1. Running(fresh) = {}
    BY DEF Init, Running
  <2> QED BY <2>1 DEF Init, GenInv, BootGen, UndoGen, CommitGen, RepollGen, Launchable
<1>2. IInv /\ GenInv /\ [Next]_vars => GenInv'
  BY NextGen
<1> QED BY <1>1, <1>2, Invariance, PTL DEF Spec

\* Between applies the running set is exactly the launchable part of the
\* generation's document, each instance once, and `repoll` follows it.
THEOREM RunningSetIsGeneration == Spec => []SetIsGeneration
<1>1. IInv /\ GenInv => SetIsGeneration
  <2> SUFFICES ASSUME IInv, GenInv, Settled PROVE SetIsGeneration
    BY DEF SetIsGeneration
  <2>1. started /\ ~root /\ inserting = {} /\ launched = {} /\ stopped = {}
    BY DEF Settled, IInv, Stages
  <2>2. Running(registry) = {e \in Launchable(prior) : e.id \notin lost}
    BY <2>1 DEF GenInv, UndoGen
  <2>3. \A r, s \in registry : rt[r].id = rt[s].id => r = s
    BY <2>1, RunningOnce
  <2>4. lost = {} => repoll = AllPush(registry)
    BY <2>1, <2>2, AllPushEntries DEF GenInv, RepollGen
  <2> QED BY <2>2, <2>3, <2>4 DEF SetIsGeneration, Launchable
<1> QED BY <1>1, Invariance, SetInvariant, PTL

-----------------------------------------------------------------------------
(* A kept instance is not disturbed, a removed one leaves no alarm *)

\* A step that moves no token and lets nothing into the running set.
Calm(S) == \A r \in S : rt'[r].id = rt[r].id /\ rt'[r].cancelled = rt[r].cancelled

\* No step uncancels the root.
LEMMA RootStays ==
    ASSUME [Next]_vars, root
    PROVE  root'
BY DEF Next, vars, App, BootLaunch, BootFail, BootDone, ShutdownSignal, Drain, DrainStopped, Prepare, Commit,
   Rollback, CommitRefused, CommitBegin, StopBegin, StopEnd, SetGlobal, LaunchFailed, CommitOk, Insert, Detach,
   ClearAlarm, Launch, UndoLaunched, UndoStopped, RollbackDone, Relaunch, Device, Connect, LinkLost, TaskEnd,
   devUnchanged, Terminated

\* Device steps move no identity and no token of an owned runtime.
LEMMA DeviceCalm ==
    ASSUME IInv, NEW r \in Slots, Device(r)
    PROVE  /\ Calm(Owned)
           /\ \A x \in Slots : rt'[x].aborted => rt[x].aborted /\ rt'[x].id = rt[x].id
<1>1. rt[r].task = "live" /\ rt[r] \in Runtime /\ rt \in [Slots -> Runtime] /\ Owned \subseteq Slots
  BY DEF Device, Connect, LinkLost, TaskEnd, Session, IInv, TypeOK, Owned
<1>2. rt[r] \in Occupied
  BY <1>1 DEF Runtime, Free
<1>3. CASE Connect(r) \/ LinkLost(r)
  <2>1. PICK l \in Links : rt' = [rt EXCEPT ![r].link = l]
    BY <1>3 DEF Connect, LinkLost, SetLink, Links
  <2> DEFINE y == [rt[r] EXCEPT !.link = l]
  <2>2. rt' = [rt EXCEPT ![r] = y]
    BY <2>1
  <2>3. y.id = rt[r].id /\ y.cancelled = rt[r].cancelled /\ y.aborted = rt[r].aborted
    BY <1>2 DEF Occupied
  <2> HIDE DEF y
  <2> QED BY <1>1, <2>2, <2>3 DEF Calm
<1>4. CASE TaskEnd(r)
  <2>1. CASE rt[r].aborted
    <3>1. r \notin Owned /\ ~Free.aborted
      BY <2>1 DEF IInv, Ownership, Free
    <3> QED BY <1>1, <1>4, <2>1, <3>1 DEF TaskEnd, Calm
  <2>2. CASE ~rt[r].aborted
    <3> DEFINE y == [rt[r] EXCEPT !.task = "ended", !.link = "none"]
    <3>1. rt' = [rt EXCEPT ![r] = y]
      BY <1>1, <1>4, <2>2 DEF TaskEnd
    <3>2. y.id = rt[r].id /\ y.cancelled = rt[r].cancelled /\ y.aborted = rt[r].aborted
      BY <1>2 DEF Occupied
    <3> HIDE DEF y
    <3> QED BY <1>1, <3>1, <3>2 DEF Calm
  <2> QED BY <2>1, <2>2
<1> QED BY <1>3, <1>4 DEF Device

\* Cancelling touches the named tokens only, and no identity.
LEMMA CancelAllCalm ==
    ASSUME IInv, NEW S \in SUBSET Owned, rt' = CancelAll(S)
    PROVE  /\ Calm(Slots \ S)
           /\ \A x \in Slots : rt'[x].id = rt[x].id /\ rt'[x].aborted = rt[x].aborted
<1>1. \A r \in Slots : rt[r] \in Runtime /\ (r \in S => rt[r].task # "free")
  BY DEF IInv, TypeOK, Ownership, Owned
<1>2. \A x \in Slots : rt'[x].id = rt[x].id /\ rt'[x].aborted = rt[x].aborted
  BY CancelAllFacts DEF IInv
<1>3. \A x \in Slots \ S : rt'[x] = rt[x]
  BY DEF CancelAll
<1> QED BY <1>2, <1>3 DEF Calm

\* The join-or-abort half of a stop: an aborted task is one that was not done.
LEMMA ReapedExcused ==
    ASSUME IInv, AbortedExcused, NEW S \in SUBSET Owned, rt' = Reaped(S), excused' = excused \cup Stragglers(S)
    PROVE  AbortedExcused'
<1>1. \A r \in Slots : rt[r] \in Runtime /\ (r \in S => rt[r].task \in {"live", "ended"})
  BY DEF IInv, TypeOK, Ownership, Owned
<1>2. ASSUME NEW r \in Slots, rt'[r].aborted PROVE rt'[r].id \in excused'
  <2>1. CASE r \notin S
    <3>1. rt'[r] = rt[r]
      BY <2>1 DEF Reaped
    <3> QED BY <1>2, <3>1 DEF AbortedExcused
  <2>2. CASE r \in S /\ rt[r].task = "ended"
    <3>1. rt'[r] = Free
      BY <2>2 DEF Reaped
    <3> QED BY <1>2, <3>1 DEF Free
  <2>3. CASE r \in S /\ rt[r].task = "live"
    <3>1. rt'[r] = [rt[r] EXCEPT !.aborted = TRUE] /\ rt[r] \in Occupied
      BY <1>1, <2>3 DEF Reaped, Runtime, Free
    <3>2. rt'[r].id = rt[r].id
      BY <3>1 DEF Occupied
    <3>3. rt[r].id \in Stragglers(S)
      BY <2>3 DEF Stragglers
    <3> QED BY <3>2, <3>3
  <2> QED BY <1>1, <2>1, <2>2, <2>3
<1> QED BY <1>2 DEF AbortedExcused

\* Steps that abort nothing.
LEMMA ExcusedKept ==
    ASSUME AbortedExcused, excused \subseteq excused',
           \A x \in Slots : rt'[x].aborted => rt[x].aborted /\ rt'[x].id = rt[x].id
    PROVE  AbortedExcused'
BY DEF AbortedExcused

\* A launch aborts nothing, and the new runtime's token is not cancelled.
LEMMA LaunchCalm ==
    ASSUME IInv, NEW e \in Entry, NEW v \in Views, NEW r \in Slots, LaunchOk(e, v, r)
    PROVE  /\ \A x \in Slots : rt'[x].aborted => rt[x].aborted /\ rt'[x].id = rt[x].id
           /\ r \notin Owned /\ rt'[r].id = e.id /\ ~rt'[r].cancelled
           /\ \A x \in Slots \ {r} : rt'[x] = rt[x]
<1>1. r \notin Owned /\ (\A x \in Slots : x # r => rt'[x] = rt[x]) /\ ~rt'[r].aborted /\ rt'[r].id = e.id
  BY LaunchFacts DEF IInv
<1>2. ~rt'[r].cancelled
  BY DEF LaunchOk, Spawned, IInv, TypeOK
<1> QED BY <1>1, <1>2

\* A task that overran its stop budget is on record, whoever stopped it.
LEMMA NextExcused ==
    ASSUME IInv, AbortedExcused, [Next]_vars
    PROVE  AbortedExcused'
<1>1. CASE DrainStopped
  BY <1>1, ReapedExcused DEF DrainStopped, Owned
<1>2. CASE StopEnd \/ UndoStopped
  BY <1>2, ReapedExcused DEF StopEnd, UndoStopped, Stopped, Owned
<1>3. CASE Drain
  BY <1>3, CancelAllCalm, ExcusedKept DEF Drain, Owned
<1>4. CASE StopBegin
  BY <1>4, CancelAllCalm, ExcusedKept DEF StopBegin, Owned
<1>5. CASE UndoLaunched
  <2> DEFINE mine == {r \in registry : rt[r].id \in launched}
  <2>1. mine \in SUBSET Owned /\ rt' = CancelAll(mine) /\ excused' = excused
    BY <1>5 DEF UndoLaunched, Owned
  <2> HIDE DEF mine
  <2> QED BY <2>1, CancelAllCalm, ExcusedKept
<1>6. CASE \E e \in Entry : BootLaunch(e) \/ Launch(e) \/ Relaunch(e)
  <2>1. \/ rt' = rt
        \/ \E e \in Entry, v \in Views, r \in Slots : LaunchOk(e, v, r)
    BY <1>6, DocView DEF BootLaunch, Launch, Relaunch, LaunchUnknown, LaunchBroken, IInv, TypeOK
  <2>2. excused' = excused
    BY <1>6 DEF BootLaunch, Launch, Relaunch
  <2> QED BY <2>1, <2>2, LaunchCalm, ExcusedKept
<1>7. CASE \E r \in Slots : Device(r)
  <2>1. excused' = excused
    BY <1>7 DEF Device, Connect, LinkLost, TaskEnd, devUnchanged
  <2> QED BY <1>7, <2>1, DeviceCalm, ExcusedKept
<1>8. CASE \/ BootFail \/ BootDone \/ ShutdownSignal \/ \E d \in Docs : Prepare(d)
           \/ CommitRefused \/ CommitBegin \/ SetGlobal \/ LaunchFailed \/ CommitOk \/ Insert
           \/ (\E id \in Ids : Detach(id) \/ ClearAlarm(id)) \/ RollbackDone \/ Terminated \/ UNCHANGED vars
  <2>1. rt' = rt /\ excused \subseteq excused'
    BY <1>8 DEF BootFail, BootDone, ShutdownSignal, Prepare, CommitRefused, CommitBegin, SetGlobal, LaunchFailed,
       LaunchBroken, CommitOk, Insert, Detach, ClearAlarm, RollbackDone, Terminated, vars
  <2> QED BY <2>1, ExcusedKept
<1> QED BY <1>1, <1>2, <1>3, <1>4, <1>5, <1>6, <1>7, <1>8 DEF Next, App, Commit, Rollback

\* No step of an apply turns on what its plan keeps.
LEMMA NextPlanApart ==
    ASSUME IInv, PlanApart, [Next]_vars
    PROVE  PlanApart'
<1>1. CASE \E d \in Docs : Prepare(d)
  <2>1. PICK d \in Docs : Prepare(d)
    BY <1>1
  <2> DEFINE p == MakePlan(Running(registry), prior.view, d)
  <2>2. pc = "idle" /\ launched = {} /\ launched' = launched /\ inserting = {}
    BY <2>1 DEF Prepare, IInv, Stages
  <2>3. \/ UNCHANGED pc
        \/ started /\ ~root /\ plan' = p /\ todo' = p.stop /\ starts' = p.start
    BY <2>1 DEF Prepare, Reject
  <2>4. ~root => /\ p.keep \cap p.stop = {} /\ p.keep \cap IdsOf(p.start) = {}
                 /\ p.removed \cap IdsOf(p.start) = {}
    <3>1. ~root => UniqueIds(Running(registry)) /\ Running(registry) \subseteq Entry
      BY <2>2, RunningOnce, RunningFacts DEF IInv, Owned
    <3> QED BY <3>1, PlanSplits
  <2> HIDE DEF p
  <2>5. CASE UNCHANGED pc
    BY <2>2, <2>5 DEF PlanApart
  <2>6. CASE started /\ ~root /\ plan' = p /\ todo' = p.stop /\ starts' = p.start
    BY <2>2, <2>4, <2>6 DEF PlanApart
  <2> QED BY <2>3, <2>5, <2>6
<1>2. CASE \E e \in Entry : Launch(e)
  <2>1. PICK e \in Entry : Launch(e)
    BY <1>2
  <2>2. /\ pc = "launch" /\ pc' = pc /\ plan' = plan /\ todo' = todo /\ e \in starts /\ starts' = starts \ {e}
        /\ launched' \subseteq launched \cup {e.id}
    BY <2>1 DEF Launch, IsNext
  <2>3. e.id \in IdsOf(starts) /\ IdsOf(starts') \subseteq IdsOf(starts)
    BY <2>2 DEF IdsOf
  <2> QED BY <2>2, <2>3 DEF PlanApart
<1>3. CASE ~(\E d \in Docs : Prepare(d)) /\ ~(\E e \in Entry : Launch(e))
  <2>1. \/ pc' = "idle"
        \/ /\ pc # "idle" /\ plan' = plan /\ todo' \subseteq todo /\ starts' = starts
           /\ launched' \subseteq launched
    BY <1>3 DEF Next, vars, App, BootLaunch, BootFail, BootDone, ShutdownSignal, Drain, DrainStopped, Commit,
       Rollback, CommitRefused, CommitBegin, StopBegin, StopEnd, Stopped, SetGlobal, LaunchFailed, CommitOk, Finished,
       Insert, Detach, ClearAlarm, UndoLaunched, UndoStopped, RollbackDone, Relaunch, Device, Connect, LinkLost,
       TaskEnd, devUnchanged, Terminated
  <2>2. IdsOf(starts') = IdsOf(starts) \/ pc' = "idle"
    BY <2>1
  <2> QED BY <2>1, <2>2 DEF PlanApart
<1> QED BY <1>1, <1>2, <1>3

\* A runtime that stays owned keeps its identity.
LEMMA IdKept ==
    ASSUME IInv, [Next]_vars
    PROVE  \A r \in Owned \cap Owned' : rt'[r].id = rt[r].id
<1> Owned \subseteq Slots
  BY DEF IInv, TypeOK, Owned
<1>1. CASE DrainStopped
  <2>1. \A x \in Slots \ drained : rt'[x] = rt[x]
    BY <1>1, ReapedFacts DEF IInv, Owned, DrainStopped
  <2>2. Owned' \cap drained = {}
    BY <1>1 DEF DrainStopped, Owned, IInv, Ownership
  <2> QED BY <2>1, <2>2
<1>2. CASE StopEnd \/ UndoStopped
  <2>1. \A x \in Slots \ stopping : rt'[x] = rt[x]
    BY <1>2, ReapedFacts DEF IInv, Owned, StopEnd, UndoStopped, Stopped
  <2>2. Owned' \cap stopping = {}
    BY <1>2 DEF StopEnd, UndoStopped, Stopped, Owned, IInv, Ownership
  <2> QED BY <2>1, <2>2
<1>3. CASE Drain
  BY <1>3, CancelAllCalm DEF Drain, Owned
<1>4. CASE StopBegin
  BY <1>4, CancelAllCalm DEF StopBegin, Owned
<1>5. CASE UndoLaunched
  <2> DEFINE mine == {r \in registry : rt[r].id \in launched}
  <2>1. mine \in SUBSET Owned /\ rt' = CancelAll(mine)
    BY <1>5 DEF UndoLaunched, Owned
  <2> HIDE DEF mine
  <2> QED BY <2>1, CancelAllCalm
<1>6. CASE \E e \in Entry : BootLaunch(e) \/ Launch(e) \/ Relaunch(e)
  <2>1. \/ rt' = rt
        \/ \E e \in Entry, v \in Views, r \in Slots : LaunchOk(e, v, r)
    BY <1>6, DocView DEF BootLaunch, Launch, Relaunch, LaunchUnknown, LaunchBroken, IInv, TypeOK
  <2> QED BY <2>1, LaunchCalm
<1>7. CASE \E r \in Slots : Device(r)
  BY <1>7, DeviceCalm DEF Calm
<1>8. CASE \/ BootFail \/ BootDone \/ ShutdownSignal \/ \E d \in Docs : Prepare(d)
           \/ CommitRefused \/ CommitBegin \/ SetGlobal \/ LaunchFailed \/ CommitOk \/ Insert
           \/ (\E id \in Ids : Detach(id) \/ ClearAlarm(id)) \/ RollbackDone \/ Terminated \/ UNCHANGED vars
  BY <1>8 DEF BootFail, BootDone, ShutdownSignal, Prepare, CommitRefused, CommitBegin, SetGlobal, LaunchFailed,
     LaunchBroken, CommitOk, Insert, Detach, ClearAlarm, RollbackDone, Terminated, vars
<1> QED BY <1>1, <1>2, <1>3, <1>4, <1>5, <1>6, <1>7, <1>8 DEF Next, App, Commit, Rollback

\* Before the root is cancelled only what is being stopped is cancelled.
LEMMA NextTokens ==
    ASSUME IInv, TokensLive, [Next]_vars
    PROVE  TokensLive'
<1> SUFFICES ASSUME ~root' PROVE \A r \in registry' \cup inserting' \cup fresh' : ~rt'[r].cancelled
  BY DEF TokensLive
<1>1. ~root /\ main \notin {"drain", "join"}
  BY RootStays DEF IInv, Phases
<1>2. \A r \in registry \cup inserting \cup fresh : r \in Slots /\ r \in Owned /\ ~rt[r].cancelled
  BY <1>1 DEF TokensLive, Owned, IInv, TypeOK
<1>3. CASE StopEnd \/ UndoStopped
  <2>1. \A x \in Slots \ stopping : rt'[x] = rt[x]
    BY <1>3, ReapedFacts DEF IInv, Owned, StopEnd, UndoStopped, Stopped
  <2>2. UNCHANGED <<registry, inserting, fresh>> /\ (registry \cup inserting \cup fresh) \cap stopping = {}
    BY <1>3 DEF StopEnd, UndoStopped, IInv, Ownership
  <2> QED BY <1>2, <2>1, <2>2
<1>4. CASE StopBegin
  <2>1. Calm(Slots \ stopping)
    BY <1>4, CancelAllCalm DEF StopBegin, Owned
  <2>2. UNCHANGED <<registry, inserting, fresh>> /\ (registry \cup inserting \cup fresh) \cap stopping = {}
    BY <1>4 DEF StopBegin, IInv, Ownership
  <2> QED BY <1>2, <2>1, <2>2 DEF Calm
<1>5. CASE UndoLaunched
  <2> DEFINE mine == {r \in registry : rt[r].id \in launched}
  <2>1. mine \in SUBSET Owned /\ rt' = CancelAll(mine) /\ registry' = registry \ mine /\ UNCHANGED <<inserting, fresh>>
    BY <1>5 DEF UndoLaunched, Owned
  <2>2. (inserting \cup fresh) \cap mine = {}
    BY DEF IInv, Ownership
  <2> HIDE DEF mine
  <2>3. Calm(Slots \ mine)
    BY <2>1, CancelAllCalm
  <2> QED BY <1>2, <2>1, <2>2, <2>3 DEF Calm
<1>6. CASE \E e \in Entry : BootLaunch(e) \/ Launch(e) \/ Relaunch(e)
  <2>1. \/ UNCHANGED <<rt, registry, inserting, fresh>>
        \/ \E e \in Entry, v \in Views, r \in Slots :
              /\ LaunchOk(e, v, r)
              /\ registry' \cup inserting' \cup fresh' \subseteq registry \cup inserting \cup fresh \cup {r}
    BY <1>6, DocView DEF BootLaunch, Launch, Relaunch, LaunchUnknown, LaunchBroken, IInv, TypeOK
  <2> QED BY <1>2, <2>1, LaunchCalm
<1>7. CASE \E r \in Slots : Device(r)
  <2>1. UNCHANGED <<registry, inserting, fresh>>
    BY <1>7 DEF Device, Connect, LinkLost, TaskEnd, devUnchanged
  <2> QED BY <1>2, <1>7, <2>1, DeviceCalm DEF Calm
<1>8. CASE \/ BootDone \/ \E d \in Docs : Prepare(d)
           \/ CommitRefused \/ CommitBegin \/ SetGlobal \/ LaunchFailed \/ CommitOk \/ Insert
           \/ (\E id \in Ids : Detach(id) \/ ClearAlarm(id)) \/ RollbackDone \/ Terminated \/ UNCHANGED vars
  <2>1. rt' = rt /\ registry' \cup inserting' \cup fresh' \subseteq registry \cup inserting \cup fresh
    BY <1>8 DEF BootDone, Prepare, CommitRefused, CommitBegin, SetGlobal, LaunchFailed,
       LaunchBroken, CommitOk, Insert, Detach, ClearAlarm, RollbackDone, Terminated, vars
  <2> QED BY <1>2, <2>1
<1>9. ~BootFail /\ ~ShutdownSignal /\ ~Drain /\ ~DrainStopped
  BY <1>1 DEF BootFail, ShutdownSignal, Drain, DrainStopped
<1> QED BY <1>3, <1>4, <1>5, <1>6, <1>7, <1>8, <1>9 DEF Next, App, Commit, Rollback

\* How the phases of an apply follow each other, and what each step may do to
\* the runtimes of instances that are going away.
LEMMA PhaseSteps ==
    ASSUME IInv, [Next]_vars
    PROVE  \/ pc' \in {"idle", "relaunch"}
           \/ \E d \in Docs : Prepare(d)
           \/ CommitBegin \/ CommitRefused \/ StopBegin \/ StopEnd \/ UndoLaunched
           \/ \E id \in Ids : Detach(id) \/ ClearAlarm(id)
           \/ \E e \in Entry : Launch(e)
           \/ \E r \in Slots : LinkLost(r)
           \/ /\ UNCHANGED <<plan, stopped, clearing, stopping, excused>> /\ alarm' \subseteq alarm
              /\ registry' \cup drained' \cup inserting' \subseteq registry \cup drained \cup inserting
              /\ pc = "launch" \/ registry' \cup drained' \subseteq registry \cup drained
              /\ \/ pc' = pc
                 \/ pc = "clear" /\ pc' = "launch"
                 \/ pc = "launch" /\ pc' = "undo"
           \/ DrainStopped
<1>1. CASE BootFail \/ BootDone \/ \E e \in Entry : BootLaunch(e)
  BY <1>1, InRun DEF BootFail, BootDone, BootLaunch
<1>2. CASE ShutdownSignal \/ Drain
  BY <1>2 DEF ShutdownSignal, Drain
<1>3. CASE SetGlobal \/ LaunchFailed
  BY <1>3 DEF SetGlobal, LaunchFailed
<1>4. CASE Insert
  BY <1>4 DEF Insert, IInv, Stages
<1>5. CASE CommitOk \/ RollbackDone \/ UndoStopped \/ \E e \in Entry : Relaunch(e)
  BY <1>5 DEF CommitOk, RollbackDone, Finished, UndoStopped, Stopped, Relaunch
<1>6. CASE \E r \in Slots : Connect(r) \/ TaskEnd(r)
  BY <1>6 DEF Connect, TaskEnd, devUnchanged
<1>7. CASE Terminated \/ UNCHANGED vars
  BY <1>7 DEF Terminated, vars
<1> QED BY <1>1, <1>2, <1>3, <1>4, <1>5, <1>6, <1>7 DEF Next, App, Commit, Rollback, Device

\* An instance that is going away is not launched again by its own commit.
LEMMA NextRemovedOnce ==
    ASSUME IInv, RemovedOnce, [Next]_vars
    PROVE  RemovedOnce'
<1> SUFFICES ASSUME pc' \in {"prepared", "detach"},
                    NEW r \in registry' \cup drained', NEW s \in registry' \cup drained',
                    rt'[r].id = rt'[s].id, rt'[r].id \in plan'.removed
             PROVE  r = s
  BY DEF RemovedOnce
<1>1. CASE \E d \in Docs : Prepare(d)
  <2>1. rt' = rt /\ registry' = registry /\ drained' = drained
    BY <1>1 DEF Prepare
  <2>2. CASE pc = "idle" /\ pc' = "prepared" /\ started /\ ~root
    <3>1. drained = {}
      BY <2>2, InRun DEF IInv, Phases
    <3> QED BY <2>1, <2>2, <3>1, RunningOnce
  <2> QED BY <1>1, <2>2 DEF Prepare, Reject
<1>2. CASE ~\E d \in Docs : Prepare(d)
  <2>1. /\ pc \in {"prepared", "detach"} /\ plan' = plan
        /\ registry' \cup drained' \subseteq registry \cup drained
    BY <1>2, PhaseSteps DEF CommitBegin, CommitRefused, StopBegin, StopEnd, Stopped, UndoLaunched, Detach, ClearAlarm,
       Launch, LinkLost, devUnchanged, DrainStopped
  <2>2. \A x \in registry' \cup drained' : rt'[x].id = rt[x].id
    BY <2>1, IdKept DEF Owned
  <2> QED BY <2>1, <2>2 DEF RemovedOnce
<1> QED BY <1>1, <1>2

\* The instances this apply removed stay removed while it lasts.
LEMMA NextRemovedGone ==
    ASSUME IInv, PlanApart, RemovedOnce, RemovedGone, [Next]_vars
    PROVE  RemovedGone'
<1> DEFINE Pc6 == {"detach", "stop", "clear", "launch", "undo", "undostop"}
           Held == registry \cup drained \cup inserting
<1>1. \A x \in (Held \cup stopping) \cap (Held' \cup stopping') : rt'[x].id = rt[x].id
  BY IdKept DEF Owned
<1>2. CASE pc' \notin Pc6
  BY <1>2 DEF RemovedGone
<1>3. CASE (\E d \in Docs : Prepare(d)) /\ pc' \in Pc6
  <2>1. UNCHANGED <<pc, plan, stopped>> \/ pc' = "prepared"
    BY <1>3 DEF Prepare, Reject
  <2>2. pc = "idle"
    BY <1>3 DEF Prepare
  <2> QED BY <1>3, <2>1, <2>2
<1>4. CASE CommitBegin \/ CommitRefused
  <2>1. stopped' = {} /\ pc' \notin {"undostop", "stop"}
    BY <1>4 DEF CommitBegin, CommitRefused, IInv, Stages
  <2>2. Removed' = {}
    BY <2>1 DEF Removed, IdsOf
  <2> QED BY <2>1, <2>2 DEF RemovedGone
<1>5. ASSUME NEW id \in Ids, Detach(id) PROVE RemovedGone'
  <2>1. pc = "detach" /\ pc' = "detach" /\ rt' = rt /\ plan' = plan /\ drained' = drained /\ inserting' = inserting /\ inserting = {}
    BY <1>5 DEF Detach, IInv, Stages
  <2>2. \A x \in Held : rt[x].id \notin plan.removed \cap IdsOf(stopped)
    BY <2>1 DEF RemovedGone, Removed
  <2>3. CASE UNCHANGED <<registry, stopped>>
    BY <2>1, <2>2, <2>3 DEF RemovedGone, Removed
  <2>4. ASSUME NEW q \in registry, rt[q].id = id, registry' = registry \ {q}, stopped' = stopped \cup Running({q})
        PROVE  RemovedGone'
    <3>1. Running({q}) = {[id |-> id, raw |-> rt[q].raw]}
      BY <2>4 DEF Running
    <3>2. IdsOf(stopped') = IdsOf(stopped) \cup {id}
      <4>1. \A i : i \in IdsOf(stopped') <=> \E e \in stopped' : e.id = i
        BY DEF IdsOf
      <4>2. \A i : i \in IdsOf(stopped) <=> \E e \in stopped : e.id = i
        BY DEF IdsOf
      <4>3. PICK x : x.id = id /\ stopped' = stopped \cup {x}
        BY <2>4, <3>1
      <4> QED BY <4>1, <4>2, <4>3
    <3>3. q \notin drained
      BY DEF IInv, Ownership
    <3>4. \A x \in registry' \cup drained : rt[x].id \notin plan.removed \cap {id}
      BY <2>1, <2>4, <3>3 DEF RemovedOnce
    <3> QED BY <2>1, <2>2, <2>4, <3>2, <3>4 DEF RemovedGone, Removed
  <2> QED BY <1>5, <2>3, <2>4 DEF Detach
<1>6. CASE StopBegin
  <2>1. pc = "detach" /\ pc' = "stop" /\ plan' = plan /\ stopped' = stopped /\ Held' = Held /\ clearing' = Removed
    BY <1>6 DEF StopBegin, Removed
  <2> QED BY <1>1, <2>1 DEF RemovedGone, Removed
<1>7. CASE UndoLaunched
  <2>1. /\ pc = "undo" /\ pc' = "undostop" /\ plan' = plan /\ stopped' = stopped
        /\ Held' \subseteq Held /\ stopping' \subseteq registry
    BY <1>7 DEF UndoLaunched
  <2> QED BY <1>1, <2>1 DEF RemovedGone, Removed
<1>8. ASSUME NEW e \in Entry, Launch(e) PROVE RemovedGone'
  <2>1. /\ pc = "launch" /\ pc' = pc /\ plan' = plan /\ stopped' = stopped /\ e \in starts
        /\ registry' = registry /\ drained' = drained /\ inserting = {}
    BY <1>8 DEF Launch, IsNext
  <2>2. e.id \notin plan.removed
    BY <2>1 DEF PlanApart, IdsOf
  <2>3. \A x \in inserting' : rt'[x].id = e.id
    <3>1. \A r \in Slots : LaunchOk(e, cand.view, r) => rt'[r].id = e.id
      BY LaunchCalm, DocView DEF IInv, TypeOK
    <3> QED BY <1>8, <2>1, <3>1 DEF Launch
  <2>4. \A x \in registry' \cup drained' : rt'[x].id = rt[x].id
    BY <1>1, <2>1
  <2> QED BY <2>1, <2>2, <2>3, <2>4 DEF RemovedGone, Removed
<1>9. CASE StopEnd \/ DrainStopped \/ (\E id \in Ids : ClearAlarm(id)) \/ \E r \in Slots : LinkLost(r)
  <2>1. /\ plan' = plan /\ stopped' = stopped /\ Held' \subseteq Held
        /\ pc' \in Pc6 => pc \in Pc6 /\ (pc' = "undostop" => pc = pc' /\ stopping' = stopping)
        /\ pc' = "stop" => pc = pc' /\ clearing' = clearing
    BY <1>9 DEF StopEnd, Stopped, DrainStopped, ClearAlarm, LinkLost, devUnchanged
  <2> QED BY <1>1, <2>1 DEF RemovedGone, Removed
<1>10. CASE /\ UNCHANGED <<plan, stopped, clearing, stopping>> /\ Held' \subseteq Held
            /\ \/ pc' = pc
               \/ pc = "clear" /\ pc' = "launch"
               \/ pc = "launch" /\ pc' = "undo"
  BY <1>1, <1>10 DEF RemovedGone, Removed
<1> QED BY <1>2, <1>3, <1>4, <1>5, <1>6, <1>7, <1>8, <1>9, <1>10, PhaseSteps

\* Nothing raises an alarm behind the clear: only a task that was aborted could.
LEMMA NextCleared ==
    ASSUME IInv, RemovedGone, AbortedExcused, RemovedAlarmCleared, [Next]_vars
    PROVE  RemovedAlarmCleared'
<1> DEFINE Pc4 == {"clear", "launch", "undo", "undostop"}
<1> SUFFICES ASSUME pc' \in Pc4, NEW id \in (plan'.removed \cap IdsOf(stopped')) \ clearing', id \in alarm'
             PROVE  id \in excused'
  BY DEF RemovedAlarmCleared
<1>1. CASE \E d \in Docs : Prepare(d)
  BY <1>1 DEF Prepare, Reject
<1>2. CASE CommitBegin \/ StopBegin \/ \E i \in Ids : Detach(i)
  BY <1>2 DEF CommitBegin, StopBegin, Detach
<1>3. CASE CommitRefused
  BY <1>3 DEF CommitRefused, IInv, Stages, IdsOf
<1>4. CASE StopEnd
  BY <1>4 DEF StopEnd, RemovedGone, Removed
<1>5. CASE \E i \in Ids : ClearAlarm(i)
  BY <1>5 DEF ClearAlarm, RemovedAlarmCleared
<1>6. CASE UndoLaunched \/ DrainStopped \/ \E e \in Entry : Launch(e)
  BY <1>6 DEF UndoLaunched, DrainStopped, Launch, RemovedAlarmCleared
<1>7. ASSUME NEW r \in Slots, LinkLost(r) PROVE id \in excused'
  <2>1. /\ UNCHANGED <<pc, plan, stopped, clearing, excused>> /\ alarm' = alarm \cup {rt[r].id}
        /\ rt[r].task = "live"
    BY <1>7 DEF LinkLost, devUnchanged, Session
  <2>2. CASE id \in alarm
    BY <2>1, <2>2 DEF RemovedAlarmCleared
  <2>3. CASE id = rt[r].id /\ rt[r].aborted
    BY <2>1, <2>3 DEF AbortedExcused
  <2>4. CASE id = rt[r].id /\ ~rt[r].aborted
    <3>1. r \in registry \cup drained \cup inserting \cup stopping
      BY <2>1, <2>4, InRun DEF IInv, LiveIsOwned, Owned
    <3>2. pc # "undostop" => stopping = {}
      BY <2>1 DEF IInv, Stages
    <3>3. rt[r].id \notin Removed
      BY <2>1, <3>1, <3>2 DEF RemovedGone
    <3> QED BY <2>1, <2>4, <3>3 DEF Removed
  <2> QED BY <2>1, <2>2, <2>3, <2>4
<1>8. CASE /\ UNCHANGED <<plan, stopped, clearing, excused>> /\ alarm' \subseteq alarm
           /\ \/ pc' = pc
              \/ pc = "clear" /\ pc' = "launch"
              \/ pc = "launch" /\ pc' = "undo"
  BY <1>8 DEF RemovedAlarmCleared
<1> QED BY <1>1, <1>2, <1>3, <1>4, <1>5, <1>6, <1>7, <1>8, PhaseSteps

\* What a plan keeps and what it removes stay apart, and a removed instance is
\* gone for good once it was stopped, in every phase of commit and rollback.
THEOREM RemovalInvariant == Spec => []AlarmInv
<1>1. Init => AlarmInv
  <2> SUFFICES ASSUME Init PROVE AlarmInv
    OBVIOUS
  <2>1. pc = "idle" /\ registry = {} /\ inserting = {} /\ fresh = {} /\ \A r \in Slots : rt[r] = Free
    BY DEF Init
  <2>2. ~Free.aborted
    BY DEF Free
  <2> QED BY <2>1, <2>2 DEF AlarmInv, PlanApart, TokensLive, RemovedOnce, RemovedGone, AbortedExcused, RemovedAlarmCleared
<1>2. IInv /\ AlarmInv /\ [Next]_vars => AlarmInv'
  BY NextPlanApart, NextTokens, NextRemovedOnce, NextRemovedGone, NextExcused, NextCleared DEF AlarmInv
<1> QED BY <1>1, <1>2, Invariance, PTL DEF Spec

\* Once a commit has sent the alarm clear of a removed instance, its alarm is
\* not latched again, unless its task was aborted or the clear did not go out.
THEOREM RemovedAlarmStaysCleared == Spec => []RemovedAlarmCleared
<1>1. AlarmInv => RemovedAlarmCleared
  BY DEF AlarmInv
<1> QED BY <1>1, RemovalInvariant, PTL

\* An apply never takes a kept instance out of the registry and never cancels
\* its token, whether it commits or rolls back, unless the component stops.
THEOREM KeptIsUndisturbed == Spec => KeptUndisturbed
<1>1. IInv /\ AlarmInv /\ AlarmInv' /\ [Next]_vars =>
         [\A r \in Slots : (pc # "idle" /\ ~root /\ r \in registry /\ rt[r].id \in plan.keep)
             => root' \/ (r \in registry' /\ ~rt'[r].cancelled)]_vars
  <2> SUFFICES ASSUME IInv, AlarmInv, AlarmInv', [Next]_vars, NEW r \in Slots,
                      pc # "idle", ~root, r \in registry, rt[r].id \in plan.keep, ~root'
               PROVE  r \in registry' /\ ~rt'[r].cancelled
    OBVIOUS
  <2>1. main \notin {"boot", "drain", "join"}
    BY InRun DEF IInv, Phases
  <2>2. rt[r].id \notin todo \cup launched
    BY DEF AlarmInv, PlanApart
  <2>3. r \in registry'
    <3>1. CASE App
      BY <2>1, <3>1 DEF App, BootLaunch, BootFail, BootDone, ShutdownSignal, Drain, DrainStopped
    <3>2. CASE Commit
      BY <2>2, <3>2 DEF Commit, CommitRefused, CommitBegin, StopBegin, StopEnd, SetGlobal, LaunchFailed, CommitOk,
         Insert, Detach, ClearAlarm, Launch
    <3>3. CASE Rollback
      BY <2>2, <3>3 DEF Rollback, UndoLaunched, UndoStopped, RollbackDone, Relaunch
    <3>4. CASE (\E d \in Docs : Prepare(d)) \/ (\E q \in Slots : Device(q)) \/ Terminated \/ UNCHANGED vars
      BY <3>4 DEF Prepare, Device, Connect, LinkLost, TaskEnd, devUnchanged, Terminated, vars
    <3> QED BY <3>1, <3>2, <3>3, <3>4 DEF Next
  <2> QED BY <2>3 DEF AlarmInv, TokensLive
<1> QED BY <1>1, Invariance, RemovalInvariant, PTL DEF Spec, KeptUndisturbed
=============================================================================
