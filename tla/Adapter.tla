------------------------------- MODULE Adapter -------------------------------
(***************************************************************************)
(* The adapter's services around a device task.  A behaviour is one of the *)
(* certificate lifecycle, of the command surface, of the metrics or of a   *)
(* poll session.                                                           *)
(***************************************************************************)
EXTENDS Integers, Sequences, FiniteSets

CONSTANTS
    Parts,                                                     \* the parts a run explores
    MaxFaults,                                                 \* of CertLifecycle and PollSession
    Ids, Cas, Day, Life, Renew, EstRenew, Backoff, Configs, MaxRotations, MaxDrops, \* of CertLifecycle
    Instances, Mode, Gens, Fields, Signals, Outputs, Allow, MaxPage, MAX_BROWSE_PAGES, Tags,
    Batches, BrowseKeys, MaxCommands,                          \* of Commands
    Devices, Push, SeqSpace, Budgets, MaxTime,                   \* of Metrics
    W, Bits, Counts, Cap, WriteLimit, Chunk, Symbols, MaxOps, MaxChanges \* of PollSession

VARIABLES
    part,
    cfg, vault, pc, since, last, exp, owed, fresh, alarm, status, reconnects, session, seen, known, ticked, used,
                                                                             \* of CertLifecycle
    reg, next, alive, cmd, request, landed, audit, walk, count,              \* of Commands
    pair, conn, io, link, plan, out, defined, store, told, budget, now, sent, unsent, ms, truth, \* of Metrics
    device, observed, op, res, bad, held, listing, line, faults, ops, changes \* of PollSession

certVars == <<cfg, vault, pc, since, last, exp, owed, fresh, alarm, status, reconnects, session, seen, known, ticked, used>>
cmdVars == <<reg, next, alive, cmd, request, landed, audit, walk, count>>
metricVars == <<pair, conn, io, link, plan, out, defined, store, told, budget, now, sent, unsent, ms, truth>>
pollVars == <<device, observed, op, res, bad, held, listing, line, faults, ops, changes>>

Cert == INSTANCE CertLifecycle

Command == INSTANCE Commands

Metric == INSTANCE Metrics WITH SeqMod <- SeqSpace, last <- told

Tag == INSTANCE PollSession WITH Usable <- WriteLimit, Instances <- Symbols, walk <- listing, link <- line

\* The class-1 sequence space: 2^16 in the code.
ASSUME SequenceSpace == SeqSpace \in Nat /\ SeqSpace > 2

\* The tables of the command surface: a generation's signals have a name each (the configuration
\* refuses a duplicate), batches are lists of entries, a page holds one field at least.
Distinct(s) == \A j, k \in DOMAIN s : s[j] = s[k] => j = k
ASSUME CommandTables ==
    /\ 1 \in Gens /\ \A g \in Gens : Signals[g] \in Seq(Fields) /\ Distinct(Signals[g])
    /\ \A b \in Batches : b \in Seq([field : Fields, form : STRING, value : BOOLEAN])
    /\ MaxPage \in Nat \ {0} /\ Tags \in Nat

\* The tag session: the words and the fragments have a size, a configured arrayCount is 1 or more
\* (config.rs), and the symbol instance ids are numbers up to a last one, 2^32 - 1 in the code.
ASSUME TagSizes ==
    /\ W \in Nat \ {0} /\ Bits \in Nat /\ Chunk \in Nat \ {0} /\ Counts \subseteq Nat \ {0}
    /\ Symbols \subseteq Nat /\ \E i \in Symbols : \A j \in Symbols : j <= i

-----------------------------------------------------------------------------

NoCertificate == /\ cfg = 0 /\ vault = 0 /\ pc = 0 /\ since = 0 /\ last = 0 /\ exp = 0 /\ owed = 0 /\ fresh = 0
                 /\ alarm = 0 /\ status = 0 /\ reconnects = 0 /\ session = 0 /\ seen = 0 /\ known = 0
                 /\ ticked = 0 /\ used = 0
NoCommand == /\ reg = 0 /\ next = 0 /\ alive = 0 /\ cmd = 0 /\ request = 0 /\ landed = 0 /\ audit = 0
             /\ walk = 0 /\ count = 0
NoMetrics == /\ pair = 0 /\ conn = 0 /\ io = 0 /\ link = 0 /\ plan = 0 /\ out = 0 /\ defined = 0 /\ store = 0
             /\ told = 0 /\ budget = 0 /\ now = 0 /\ sent = 0 /\ unsent = 0 /\ ms = 0 /\ truth = 0
NoSession == /\ device = 0 /\ observed = 0 /\ op = 0 /\ res = 0 /\ bad = 0 /\ held = 0 /\ listing = 0
             /\ line = 0 /\ faults = 0 /\ ops = 0 /\ changes = 0

AllInit ==
    /\ part \in Parts
    /\ IF part = "cert" THEN Cert!Init ELSE NoCertificate
    /\ IF part = "command" THEN Command!Init ELSE NoCommand
    /\ IF part = "metrics" THEN Metric!Init ELSE NoMetrics
    /\ IF part = "poll" THEN Tag!Init ELSE NoSession

AllNext ==
    /\ UNCHANGED part
    /\ \/ part = "cert" /\ Cert!Next /\ UNCHANGED <<cmdVars, metricVars, pollVars>>
       \/ part = "command" /\ Command!Next /\ UNCHANGED <<certVars, metricVars, pollVars>>
       \/ part = "metrics" /\ Metric!Next /\ UNCHANGED <<certVars, cmdVars, pollVars>>
       \/ part = "poll" /\ Tag!Next /\ UNCHANGED <<certVars, cmdVars, metricVars>>

all == <<part, certVars, cmdVars, metricVars, pollVars>>

AllSpec == AllInit /\ [][AllNext]_all

\* The fairness of the certificate lifecycle, while it is what runs.
While(p, A) == part = p /\ A
AllFairSpec ==
    /\ AllSpec
    /\ WF_certVars(While("cert", Cert!Tick)) /\ WF_certVars(While("cert", Cert!Issued \/ Cert!ExchangeFails))
    /\ WF_certVars(While("cert", Cert!Put)) /\ WF_certVars(While("cert", Cert!PutKey))
    /\ WF_certVars(While("cert", Cert!Watch \/ Cert!WatchFails)) /\ WF_certVars(While("cert", Cert!SendReconnect))
    /\ WF_certVars(While("cert", Cert!Connect)) /\ WF_certVars(While("cert", Cert!Reconnect))
    /\ WF_certVars(While("cert", Cert!Pass))

-----------------------------------------------------------------------------
(* Properties *)

\* A session does not outlive the material it was built from, and the operator
\* is told of each expiry state once (CertLifecycle!ObservedIsApplied, ExpiryToldOnce).
RotationIsApplied == part = "cert" => Cert!ObservedIsApplied /\ Cert!ExpiryToldOnce

\* With enrollment on, the client identity is always whole and in date again
\* (CertLifecycle!IdentityRecovers).
IdentityRecovers == []<>(part = "cert" => (Cert!Enrolls => Cert!Healthy))

\* What a command answers is what happened under the generation that served
\* it: writes are permitted there, the reply and the audit say what landed, and
\* walks are complete (Commands!WritesPermitted, ReplyTruthful, WalksComplete).
CommandsTruthful == part = "command" => Command!WritesPermitted /\ Command!ReplyTruthful /\ Command!WalksComplete

\* Every count is in one place, across intervals, emissions (what the service
\* failed to take is gone) and connections (Metrics!IntervalsAddUp, LinksAccounted).
CountsAddUp == part = "metrics" => Metric!IntervalsAddUp /\ Metric!LinksAccounted

\* Readings and writes of a poll session are whole, and on a device that answers
\* the counts of a packed tag in words a change of representation costs one
\* reading at most (PollSession!GoodIsWhole, WrittenIsApplied, OneSampleAtMost;
\* on other devices ConvergesEitherWay below is refuted).
SessionExact == part = "poll" => Tag!GoodIsWhole /\ Tag!WrittenIsApplied /\ Tag!OneSampleAtMost

\* A walk over the device's tag list in pages of any size meets every symbol,
\* and each once, unless the device cuts it short with an empty page that says
\* more follow (PollSession!WalkExact).
ListingExact == part = "poll" => Tag!WalkExact

-----------------------------------------------------------------------------
(* What the documentation says and the code does not do *)

\* DESIGN.md, D-EIP-35: asking a packed tag for N elements "converges either
\* way" (PollSession!ConvergesEitherWay).
ConvergesEitherWay == part = "poll" => Tag!ConvergesEitherWay
=============================================================================
