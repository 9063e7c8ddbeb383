--------------------------- MODULE CertLifecycle ---------------------------
(***************************************************************************)
(* The certificate lifecycle of one TLS instance: the driver loop of       *)
(* security_lifecycle.rs with the decision cores of eip/rotation.rs        *)
(* (CertWatcher) and eip/est.rs (EstScheduler, enroll_once), the vault it  *)
(* shares with the operator, and the session the connect path builds from  *)
(* the vault (eip/tls.rs). The EST server, the vault and the operator are  *)
(* external. Time is counted in fractions of a day: `left` is what is left *)
(* of the vault certificate's validity, so no clock grows.                 *)
(***************************************************************************)
EXTENDS Integers

CONSTANTS Ids,       \* certificates (and their keys), reused when nothing refers to them
          Cas,       \* contents of the trust store (security.ca, a source beside the client bundle)
          Day,       \* time units per day
          Life,      \* validity of an issued certificate, in time units
          Renew,     \* client.renewBeforeDays
          EstRenew,  \* est.renewBeforeDays
          Backoff,   \* est.retryBackoffMins, in time units
          Configs,   \* the configurations of a run
          MaxFaults, \* bound: failed vault reads and writes, failed exchanges and crashes
          MaxRotations, \* bound: what the operator changes
          MaxDrops   \* bound: sessions that end by themselves

NoCert == "no certificate"
NoFp == <<NoCert, "no observation">>
Down == <<NoCert, "no session">>

VARIABLES cfg,     \* est enabled, watcher on, write-back destination, EST authentication
          vault,   \* client certificate, its remaining validity, the key, the trust store
          pc,      \* where the driver is
          since,   \* time since the last enrollment attempt
          last,    \* CertWatcher::last_fingerprint
          exp,     \* CertWatcher::expiry_state
          owed,    \* the expiry event that follows a rotation's reconnect
          fresh,   \* the certificate an exchange obtained
          alarm,   \* the expiry event the operator saw last, until the watcher saw a healthy one
          status,  \* EstStatus::last_error: whether the most recent attempt failed
          reconnects, \* Reconnect requests in the control channel
          session, \* fingerprint of the material the session was built from
          seen,    \* history: the material of the last good re-read
          known,   \* history: the session was once built from the material seen
          ticked,  \* whether the driver ticked in this unit of time
          used     \* the bounded choices so far

driver == <<pc, since, last, exp, owed, fresh, status>>
vars == <<cfg, vault, driver, alarm, reconnects, session, seen, known, ticked, used>>

Vaults == [cert : Ids \cup {NoCert}, left : -Day..Life, key : Ids \cup {NoCert}, ca : Cas]

\* days_until: whole days, truncated towards zero.
days_until(n) == IF n >= 0 THEN n \div Day ELSE -((-n) \div Day)

\* What a session is built from: the client identity and the trust anchors.
Material(v) == <<v.cert, v.ca>>

\* Variant: the fingerprint covers the client certificate alone.
fingerprint_certOnly(v) == <<v.cert, CHOOSE c \in Cas : TRUE>>

\* The fingerprint of a vault's material: client certificate and trust store, not the key.
fingerprint(v) == <<v.cert, v.ca>>

\* A client identity can be sourced: both secrets exist.
Sourced(v) == v.cert # NoCert /\ v.key # NoCert

\* source_client_material and with_client_auth_cert succeed: the key belongs to the certificate.
Identity(v) == Sourced(v) /\ v.cert = v.key

FirstId == CHOOSE c \in Ids : TRUE

\* The driver starts with empty bookkeeping, and ends at once with nothing to do.
Fresh(c) == [pc |-> IF c.est \/ c.watch THEN "tick" ELSE "done", since |-> Backoff,
             last |-> NoFp, exp |-> "Unknown", owed |-> "none", fresh |-> NoCert,
             status |-> "untried"]

Started(d) == /\ pc' = d.pc /\ since' = d.since /\ last' = d.last /\ exp' = d.exp
              /\ owed' = d.owed /\ fresh' = d.fresh /\ status' = d.status

Init ==
    /\ cfg \in Configs
    /\ vault \in {v \in Vaults : /\ v.cert = v.key
                                 /\ v.cert \in {FirstId, NoCert}
                                 /\ v.cert = NoCert => v.left = 0
                                 /\ v.ca = CHOOSE a \in Cas : TRUE}
    /\ LET d == Fresh(cfg) IN
         /\ pc = d.pc /\ since = d.since /\ last = d.last /\ exp = d.exp /\ owed = d.owed
         /\ fresh = d.fresh /\ status = d.status
    /\ alarm = "none" /\ reconnects = 0 /\ session = Down /\ seen = NoFp /\ known = FALSE /\ ticked = FALSE
    /\ used = [faults |-> 0, rotations |-> 0, drops |-> 0]

\* A bounded choice of kind k is taken, or none is.
Spend(k, max) == used[k] < max /\ used' = [used EXCEPT ![k] = @ + 1]
Free == UNCHANGED used

----------------------------------------------------------------------------
\* The driver.

\* read_reload_state of what is in the vault: an error when a secret is missing.
read_reload_state == Sourced(vault)

\* Days of the current certificate, as the scheduler sees them; None when the read fails.
current_days(ok) == IF ok /\ read_reload_state THEN {days_until(vault.left)} ELSE {}

\* Variant: an attempt is due in the renew window only.
decide_noInitial(days) == IF since < Backoff THEN "Idle"
                          ELSE IF \E d \in days : d >= 0 /\ d <= EstRenew THEN "Reenroll" ELSE "Idle"

\* EstScheduler::decide.
decide(days) ==
    IF since < Backoff THEN "Idle"
    ELSE IF \A d \in days : d < 0 THEN "Enroll"
    ELSE IF \A d \in days : d <= EstRenew THEN "Reenroll"
    ELSE "Idle"

\* The identity an exchange presents can be built: Basic presents the current identity too when
\* both its secrets are there, a bootstrap identity is its own, and otherwise the current one
\* must exist.
EstClientBuilds == CASE cfg.auth = "bootstrap" -> TRUE
                     [] cfg.auth = "basic" -> Sourced(vault) => Identity(vault)
                     [] cfg.auth = "current" -> Identity(vault)

\* The error arm of enroll_once: told and surfaced; the loop goes on to the watcher.
EnrollFailed == status' = "failed" /\ pc' = "watch" /\ fresh' = NoCert

\* The top of a tick: the vault is read for the scheduler, which starts an exchange or not; the
\* attempt is stamped before it is made. The reading and the resolving may fail.
Tick ==
    /\ pc = "tick" /\ ~ticked
    /\ ticked' = TRUE
    /\ \E ok \in BOOLEAN :
         /\ IF ok THEN Free ELSE cfg.est /\ Spend("faults", MaxFaults)
         /\ IF ~cfg.est \/ decide(current_days(ok)) = "Idle"
            THEN pc' = "watch" /\ UNCHANGED <<since, fresh, status>>
            ELSE /\ since' = 0
                 /\ IF EstClientBuilds THEN pc' = "exchange" /\ UNCHANGED <<fresh, status>>
                    ELSE EnrollFailed
    /\ UNCHANGED <<cfg, vault, last, exp, owed, alarm, reconnects, session, seen, known>>

\* The EST server accepts a bootstrap identity, a password, or a certificate that is in date.
ServerAccepts == cfg.auth = "current" => vault.left >= 0

\* request_certificate: the server issues a certificate for the new key.
Issued ==
    /\ pc = "exchange" /\ ServerAccepts
    /\ \E c \in Ids \ {vault.cert, vault.key, last[1], session[1]} : fresh' = c
    /\ pc' = "write"
    /\ UNCHANGED <<cfg, vault, since, last, exp, owed, status, alarm, reconnects, session, ticked, used, seen, known>>

\* Transport error, timeout, 202, 401, another status or an undecodable body: is_transient only
\* changes the message.
ExchangeFails ==
    /\ pc = "exchange"
    /\ IF ServerAccepts THEN Spend("faults", MaxFaults) ELSE Free
    /\ EnrollFailed
    /\ UNCHANGED <<cfg, vault, since, last, exp, owed, alarm, reconnects, session, ticked, seen, known>>

\* The certificate of a write-back lands, with its key when both share one secret.  The trust store
\* is another secret; a caPem in the bundle itself, which the write drops, is SecurityConfig's.
put_cert(bundle) == vault' = [vault EXCEPT !.cert = fresh, !.left = Life,
                                           !.key = IF bundle THEN fresh ELSE @]

Enrolled == status' = "ok" /\ pc' = "watch" /\ fresh' = NoCert

\* write_enrolled: one put for a bundle; for a pair the certificate first, then the key. Other
\* tasks see the vault between the two.
Put ==
    /\ pc = "write"
    /\ put_cert(cfg.dest = "bundle")
    /\ IF cfg.dest = "bundle" THEN Enrolled ELSE pc' = "write_key" /\ UNCHANGED <<fresh, status>>
    /\ UNCHANGED <<cfg, since, last, exp, owed, alarm, reconnects, session, ticked, used, seen, known>>

PutKey ==
    /\ pc = "write_key"
    /\ vault' = [vault EXCEPT !.key = fresh]
    /\ Enrolled
    /\ UNCHANGED <<cfg, since, last, exp, owed, alarm, reconnects, session, ticked, used, seen, known>>

PutFails ==
    /\ pc \in {"write", "write_key"}
    /\ Spend("faults", MaxFaults)
    /\ EnrollFailed
    /\ UNCHANGED <<cfg, vault, since, last, exp, owed, alarm, reconnects, session, ticked, seen, known>>

\* The expiry state of a certificate with d days left.
Classify(d) == IF d < 0 THEN "Expired" ELSE IF d <= Renew THEN "Expiring" ELSE "Ok"

\* CertWatcher::observe records every transition.
expiry_state(now) == now

\* The event of a transition into a state, if it has one.
EventOf(now) == IF now # exp /\ now \in {"Expiring", "Expired"} THEN now ELSE "none"

\* An expiry event reaches the operator; one for a state already told is a repetition.
Told(event, now) == alarm' = IF event # "none" THEN (IF alarm = event THEN "repeated" ELSE event)
                             ELSE IF now = "Ok" THEN "none" ELSE alarm

\* The first observation is the baseline; after it every other fingerprint is a rotation.
Rotated(fp) == last # NoFp /\ last # fp

\* The second half of a tick: re-read, observe, act. A rotation is told and a reconnect sent before
\* the expiry event, which then waits for room in the control channel.
Watch ==
    /\ pc = "watch" /\ read_reload_state
    /\ LET fp == fingerprint(vault)
           now == Classify(days_until(vault.left))
       IN /\ last' = fp
          /\ exp' = expiry_state(now)
          /\ seen' = Material(vault)
          /\ known' = (known \/ (session # Down /\ session = seen'))
          /\ IF Rotated(fp)
             THEN /\ pc' = "send" /\ owed' = EventOf(now)
                  /\ Told("none", now)
             ELSE /\ pc' = "tick" /\ UNCHANGED owed
                  /\ Told(EventOf(now), now)
    /\ UNCHANGED <<cfg, vault, since, fresh, status, reconnects, session, ticked, used>>

\* A re-read that fails is ignored: the watcher keeps what it had.
WatchFails ==
    /\ pc = "watch"
    /\ IF read_reload_state THEN Spend("faults", MaxFaults) ELSE Free
    /\ pc' = "tick"
    /\ UNCHANGED <<cfg, vault, since, last, exp, owed, fresh, status, alarm, reconnects, session, ticked, seen, known>>

SendReconnect ==
    /\ pc = "send" /\ reconnects = 0
    /\ reconnects' = 1
    /\ pc' = "tick"
    /\ Told(owed, "") /\ owed' = "none"
    /\ UNCHANGED <<cfg, vault, since, last, exp, fresh, status, session, ticked, used, seen, known>>

\* The instance is torn down: a cancel at the tick boundary, an abort of an exchange or of a
\* blocked send, or a crash anywhere; its next life starts from what the vault holds.
Restart ==
    /\ Spend("faults", MaxFaults)
    /\ Started(Fresh(cfg))
    /\ session' = Down /\ reconnects' = 0 /\ alarm' = "none" /\ ticked' = FALSE
    /\ seen' = NoFp /\ known' = FALSE
    /\ UNCHANGED <<cfg, vault>>

----------------------------------------------------------------------------
\* The device task (DeviceTask in full) and the environment.

\* build_client_config succeeds and the peer accepts: the identity is whole, the certificate not
\* expired by whole days.
Usable(v) == Identity(v) /\ days_until(v.left) >= 0

\* The connect path rebuilds the configuration from the vault of the moment.
Connect ==
    /\ session = Down /\ Usable(vault)
    /\ session' = Material(vault)
    /\ known' = (session' = seen)
    /\ UNCHANGED <<cfg, vault, driver, alarm, reconnects, ticked, used, seen>>

\* A Reconnect request ends the session; with none it is answered and changes nothing.
Reconnect ==
    /\ reconnects = 1
    /\ reconnects' = 0 /\ session' = Down /\ known' = FALSE
    /\ UNCHANGED <<cfg, vault, driver, alarm, ticked, used, seen>>

Drop ==
    /\ session # Down
    /\ Spend("drops", MaxDrops)
    /\ session' = Down /\ known' = FALSE
    /\ UNCHANGED <<cfg, vault, driver, alarm, reconnects, ticked, seen>>

\* The operator rolls the trust store, or rotates the client certificate with its key.
OperatorRotates ==
    /\ Spend("rotations", MaxRotations)
    /\ \/ \E a \in Cas \ {vault.ca} : vault' = [vault EXCEPT !.ca = a]
       \/ \E c \in Ids \ {vault.cert, vault.key, last[1], session[1], fresh} :
            vault' = [vault EXCEPT !.cert = c, !.key = c, !.left = Life]
    /\ pc \notin {"write", "write_key"}
    /\ UNCHANGED <<cfg, driver, alarm, reconnects, session, ticked, seen, known>>

\* Time passes from one tick to the next, the unit of the cadence; an exchange is short.
Pass ==
    /\ (pc = "tick" /\ ticked) \/ pc = "done"
    /\ ticked' = FALSE
    /\ since' = IF since < Backoff THEN since + 1 ELSE since
    /\ vault' = IF vault.left > -Day THEN [vault EXCEPT !.left = @ - 1] ELSE vault
    /\ UNCHANGED <<cfg, pc, last, exp, owed, fresh, status, alarm, reconnects, session, used, seen, known>>

Next == \/ Tick \/ Issued \/ ExchangeFails \/ Put \/ PutKey \/ PutFails
        \/ Watch \/ WatchFails \/ SendReconnect \/ Restart
        \/ Connect \/ Reconnect \/ Drop \/ OperatorRotates \/ Pass

Fairness == /\ WF_vars(Tick) /\ WF_vars(Issued \/ ExchangeFails) /\ WF_vars(Put) /\ WF_vars(PutKey)
            /\ WF_vars(Watch \/ WatchFails) /\ WF_vars(SendReconnect)
            /\ WF_vars(Connect) /\ WF_vars(Reconnect) /\ WF_vars(Pass)

Spec == Init /\ [][Next]_vars /\ Fairness

----------------------------------------------------------------------------
\* What the operator was told about expiry is what the watcher last saw, each state once however
\* time, renewals and failed reads interleave (CertWatcher::observe's de-duplication).
ExpiryToldOnce == pc = "tick" /\ exp # "Unknown" => alarm = (IF exp = "Ok" THEN "none" ELSE exp)

\* A session that was once built from the material the watcher saw does not outlive it: when the
\* watcher sees other material, client certificate or trust store, a reconnect is on its way,
\* whatever drops, enrollments and restarts come between. Its own first observation excepted.
ObservedIsApplied == known /\ session # seen => pc = "send" \/ reconnects = 1

Healthy == Identity(vault) /\ vault.left >= 0
Enrolls == cfg.est /\ cfg.auth # "current" /\ cfg.dest = "bundle"

\* With enrollment on, an authentication that does not rest on the current certificate and a
\* bundle, the client identity is always whole and in date again: lost exchanges, failed vault calls,
\* restarts and a vault that starts empty or expired included.
IdentityRecovers == []<>(Enrolls => Healthy)

\* security_lifecycle.rs: the write-back is atomic and an interrupted enrollment simply enrolls
\* again, whichever destination and authentication is configured.
InterruptedEnrollmentRecovers == cfg.est /\ cfg.auth # "current" => []<>Healthy

\* tls.rs: a connect with an expired certificate is refused. It is not within the first day after.
ExpiredIsRefused == [][session = Down /\ session' # Down => vault.left >= 0]_vars
=============================================================================
