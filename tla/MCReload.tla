------------------------------ MODULE MCReload ------------------------------
(***************************************************************************)
(* Reload on two instances.  The documents cover every disposition of the  *)
(* plan: keep, change, add, remove, malformed, unknown adapter token, an   *)
(* entry without id, a duplicate id, a change outside component.instances, *)
(* an unparsable component.global and a document without a valid instance. *)
(*                                                                         *)
(* A behaviour keeps to one scope: a set of documents and its own bounds.  *)
(* The slots are interchangeable, so a launch takes the least free one.    *)
(***************************************************************************)
EXTENDS ReloadInv, TLC

CONSTANTS a, b, noid, Scopes

MCIds == {a, b}
MCRaws == {"poll", "poll2", "push", "typo", "junk"}
MCViews == {"v1", "v2", "bad"}

E(id, raw) == [id |-> id, raw |-> raw]
D(view, insts) == [view |-> view, insts |-> insts]

\* Every disposition and every rejection, for one apply.
DocsOne ==
    { D("v1", <<E(a, "poll"), E(b, "poll")>>),
      D("v1", <<E(a, "poll"), E(a, "push"), E(b, "typo")>>),
      D("v1", <<E(noid, "poll"), E(b, "junk"), E(a, "poll")>>),
      D("v1", <<E(a, "junk"), E(noid, "poll")>>),
      D("bad", <<E(a, "poll")>>),
      D("v2", <<E(a, "poll")>>) }

\* A change to an adapter nobody implements (what stays is all push), and a
\* change of view with a launch pass that starts nothing, for two applies.
DocsTwo ==
    { D("v1", <<E(a, "push"), E(b, "poll")>>),
      D("v1", <<E(b, "typo"), E(a, "push")>>),
      D("v2", <<E(a, "typo")>>) }

\* One instance changed and one removed or added while the component may stop.
DocsLive ==
    { D("v1", <<E(a, "poll")>>),
      D("v1", <<E(a, "poll2"), E(b, "poll")>>) }

Bounds == [one  |-> [docs |-> DocsOne, slots |-> 5, applies |-> 1, faults |-> 1],
           two  |-> [docs |-> DocsTwo, slots |-> 3, applies |-> 2, faults |-> 0],
           live |-> [docs |-> DocsLive, slots |-> 3, applies |-> 1, faults |-> 1]]

MCDocs == UNION {Bounds[s].docs : s \in Scopes}

VARIABLE scope

MCInit == scope \in Scopes /\ Init /\ prior \in Bounds[scope].docs

MCNext ==
    /\ Next /\ UNCHANGED scope
    /\ cand' \in Bounds[scope].docs
    /\ applies' <= Bounds[scope].applies /\ faults' <= Bounds[scope].faults
    /\ \A r \in Slots : (rt[r].task = "free" /\ rt'[r].task # "free")
                           => r <= Bounds[scope].slots /\ \A s \in 1..(r - 1) : rt[s].task # "free"

MCSpec == MCInit /\ [][MCNext]_<<vars, scope>>

\* Every step Fairness names is enabled within the bounds whenever it is enabled at all.
MCFairSpec == MCSpec /\ Fairness

\* A prepared apply ends, committed or rolled back, and a signalled shutdown
\* returns, whatever the other does: neither waits without bound for a device
\* task, a broker answer or the other (Reload!ApplyEnds, Reload!ShutdownEnds).
OperationsEnd == ApplyEnds /\ ShutdownEnds
=============================================================================
