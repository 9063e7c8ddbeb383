------------------------------ MODULE ReloadInv ------------------------------
(***************************************************************************)
(* The inductive invariant behind LiveIsOwned, OneSession and              *)
(* BoundToGeneration.  None of the three is inductive: each needs to know  *)
(* who owns a runtime in which phase of which process.  The two invariants *)
(* after it build on it: GenInv carries SetIsGeneration, AlarmInv carries  *)
(* RemovedAlarmCleared and KeptUndisturbed.                                *)
(***************************************************************************)
EXTENDS Reload

\* The phases of App::run: nothing is registered and no apply gets past its
\* gate before startup is over, and a drain pass has cancelled the root.
Phases ==
    /\ main = "boot" => ~started /\ ~root /\ registry = {}
    /\ main # "boot" => fresh = {} /\ boot = {}
    /\ main = "run" => started /\ ~root
    /\ main \in {"drain", "join", "exited"} => root
    /\ main # "join" => drained = {}
    /\ pc # "idle" => started
    /\ started => main # "boot"

\* The phases of a transaction.
Stages ==
    /\ pc \notin {"detach", "stop", "undostop"} => stopping = {}
    /\ pc \notin {"launch", "relaunch"} => inserting = {}
    /\ pc \in {"stop", "clear", "launch"} => todo = {}
    /\ pc \in {"idle", "undostop", "relaunch"} => launched = {}
    /\ pc \in {"prepared", "detach", "stop", "clear"} => launched = {}
    /\ pc \in {"idle", "prepared"} => stopped = {}

\* An owned runtime has one owner, occupies its slot and was not aborted.
Ownership ==
    /\ \A r \in Owned : rt[r].task \in {"live", "ended"} /\ ~rt[r].aborted
    /\ registry \cap fresh = {} /\ registry \cap stopping = {} /\ registry \cap drained = {}
    /\ registry \cap inserting = {} /\ fresh \cap stopping = {} /\ fresh \cap drained = {}
    /\ fresh \cap inserting = {} /\ stopping \cap drained = {} /\ stopping \cap inserting = {}
    /\ drained \cap inserting = {}

Quiet(r) == rt[r].link \in {"connecting", "none"}

\* Two owned runtimes of one instance exist only once the root is cancelled,
\* and then one of them was born cancelled and never leaves its first select.
Twins ==
    \A r, s \in Owned : (r # s /\ rt[r].id = rt[s].id) => root /\ (Quiet(r) \/ Quiet(s))

UniqueIds(S) == \A e, f \in S : e.id = f.id => e = f

\* What is still to be launched does not run: the rest of the startup set, ...
BootApart == /\ UniqueIds(boot)
             /\ \A e \in boot, r \in fresh : rt[r].id # e.id

\* ... the starts of the plan, unless they are still to be detached, ...
StartsApart ==
    /\ UniqueIds(starts)
    /\ (~root /\ pc \in {"prepared", "detach", "stop", "clear", "launch"}) =>
          \A e \in starts, r \in registry \cup inserting : rt[r].id = e.id => e.id \in todo

\* ... and the undo record, unless the commit launched a successor.
UndoApart ==
    /\ UniqueIds(stopped)
    /\ pc = "detach" => \A e \in stopped : e.id \notin todo
    /\ (~root /\ pc # "idle") =>
          \A e \in stopped, r \in registry \cup inserting : rt[r].id = e.id => rt[r].id \in launched

\* Which generation each runtime is bound to, in every phase of an apply.
Bound ==
    /\ \A r \in fresh : rt[r].view = prior.view
    /\ pc \notin {"launch", "undo", "undostop"} => global = prior.view
    /\ pc = "launch" => global = cand.view
    /\ ~root => \A r \in registry \cup inserting :
          rt[r].view = IF rt[r].id \in launched THEN cand.view ELSE prior.view
    /\ pc # "idle" /\ plan.keep # {} => cand.view = prior.view
    /\ (~root /\ pc \in {"prepared", "detach", "stop", "clear", "launch"}) =>
          \A r \in registry \cup inserting : rt[r].id \in todo \cup launched \cup plan.keep

IInv == TypeOK /\ Phases /\ Stages /\ Ownership /\ LiveIsOwned /\ Twins /\ BootApart /\ StartsApart
        /\ UndoApart /\ Bound
-----------------------------------------------------------------------------
(* What runs, measured against a document *)

\* The entries of a document that can run: parsed, with a known adapter token.
Launchable(doc) == {e \in parse_instances(doc) : e.raw \notin UnknownTok}

\* What startup launched and has still to launch make up the document.
BootGen ==
    main = "boot" => /\ Running(fresh) \cup {e \in boot : e.raw \notin UnknownTok} = Launchable(prior)
                     /\ lost = {}

\* At every point of an apply, what it did not launch and what it stopped make
\* up the running generation, less what rollbacks reported as lost.
UndoGen ==
    (started /\ ~root) =>
        {e \in Running(registry \cup inserting) : e.id \notin launched} \cup stopped
           = {e \in Launchable(prior) : e.id \notin lost}

\* While a commit goes forward, what it leaves running and what it has still to
\* start make up the candidate.
CommitGen ==
    (~root /\ pc \in {"prepared", "detach", "stop", "clear", "launch"}) =>
        {e \in Running(registry \cup inserting) : e.id \notin todo} \cup {e \in starts : e.raw \notin UnknownTok}
           = Launchable(cand)

\* `repoll` is a function of the generation's document alone.
RepollGen ==
    (started /\ ~root) =>
        repoll = (Launchable(prior) # {} /\ \A e \in Launchable(prior) : e.raw \in PushMode)

GenInv == BootGen /\ UndoGen /\ CommitGen /\ RepollGen

\* What a plan keeps it neither stops nor launches; what it removes it does
\* not launch.
PlanApart ==
    pc # "idle" => /\ plan.keep \cap (todo \cup launched \cup IdsOf(starts)) = {}
                   /\ plan.removed \cap IdsOf(starts) = {}

\* No token of a runtime that is not being stopped is cancelled before the root.
TokensLive == ~root => \A r \in registry \cup inserting \cup fresh : ~rt[r].cancelled

\* The instances this apply removes and has detached.
Removed == plan.removed \cap IdsOf(stopped)

\* An instance that is going away has one runtime, ...
RemovedOnce ==
    pc \in {"prepared", "detach"} =>
        \A r, s \in registry \cup drained : (rt[r].id = rt[s].id /\ rt[r].id \in plan.removed) => r = s

\* ... which nobody holds any more once the commit has stopped it.
RemovedGone ==
    /\ pc \in {"detach", "stop", "clear", "launch", "undo", "undostop"} =>
          \A r \in registry \cup drained \cup inserting : rt[r].id \notin Removed
    /\ pc = "undostop" => \A r \in stopping : rt[r].id \notin Removed
    /\ pc = "stop" => Removed \subseteq clearing

\* What outlived its stop budget was aborted and is excused.
AbortedExcused == \A r \in Slots : rt[r].aborted => rt[r].id \in excused

AlarmInv == PlanApart /\ TokensLive /\ RemovedOnce /\ RemovedGone /\ AbortedExcused /\ RemovedAlarmCleared
=============================================================================
