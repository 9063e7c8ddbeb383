------------------------------ MODULE Connect ------------------------------
(***************************************************************************)
(* One connect attempt of the EtherNet/IP backend under the ladder's       *)
(* deadline (eip/live.rs, eip/identity.rs; in enip, client/mod.rs,         *)
(* client/tls.rs, cip/security.rs): the TCP connection, the TLS handshake, *)
(* the registration and the class-3 open share one budget; then the        *)
(* diagnostics (security posture, identity) each run under the request     *)
(* time-out; a push device opens its class-1 connection last.  After a     *)
(* failed open the peer may be asked for its name over a connection of     *)
(* its own.  The device answers at any time or not at all.                 *)
(***************************************************************************)
EXTENDS Integers, FiniteSets

CONSTANTS
    ConnectTimeout,        \* timeouts.connectMs
    RequestTimeout,        \* timeouts.requestTimeoutMs
    LIST_IDENTITY_BUDGET,
    Attrs,                 \* attributes read of each of the three security objects, the first its state
    Shown,                 \* the <<object, attribute>> pairs the status shows
    Served                 \* the sets of attributes a device may serve of an object

VARIABLES
    mode,       \* "plain", "tls" or "push"
    connected,  \* connection.connected: open a class-3 connection too
    device,     \* per security object the attributes it serves in a form that decodes
    phase,      \* what the attempt is waiting for, or "done"
    attr,       \* the posture's current <<object, attribute>>
    now,        \* time since the attempt began
    due,        \* the deadline of what it is waiting for
    link,       \* "none", "up" or "broken": the session's transport
    got,        \* posture attributes read so far
    posture,    \* the posture reported
    opened,     \* history: the client opened a session
    err,        \* the error of the connect, "none" without one
    named,      \* the peer's name rides the error
    result      \* "none", "ok", "transient", "permanent", "unsupported" or "timeout"

vars == <<mode, connected, device, phase, attr, now, due, link, got, posture, opened, err, named, result>>

Objects == <<"cip", "eip", "cert">>

\* A device serves and the status shows attributes that are read.
Shows == /\ Attrs \in Nat /\ Attrs > 0 /\ ConnectTimeout \in Nat /\ RequestTimeout \in Nat
         /\ Shown \subseteq {"cip", "eip", "cert"} \X (1..Attrs)
Least(a, b) == IF a < b THEN a ELSE b

(***************************************************************************)
(* Classification.  A status names what the target says; a reject of the   *)
(* routing or resource kind may pass.                                      *)
(***************************************************************************)
RegisterErrors == {"encap_busy", "encap_refused", "violation", "unsupported", "lost", "io"}
TlsErrors == {"tls_io", "tls_unverified", "tls_no_overlap", "tls_failed"}
OpenErrors == {"open_busy", "open_refused", "violation", "lost"}

\* map_enip_error over EnipError::is_transient.
map_enip_error(e) ==
    IF e = "unsupported" THEN "unsupported"
    ELSE IF e \in {"io", "lost", "timeout_connect", "timeout_register", "timeout_tls",
                   "timeout_request", "encap_busy", "open_busy", "tls_io"}
    THEN "transient" ELSE "permanent"

\* An i/o error does not count: it is also what a refused TCP connection looks like.
is_registration_failure(e) ==
    e \in {"encap_busy", "encap_refused", "violation", "unsupported", "timeout_register", "lost"}

(***************************************************************************)
(* The end of the attempt and its failures.                                *)
(***************************************************************************)
End(r) == phase' = "done" /\ result' = r /\ due' = now
Goto(p, d) == phase' = p /\ due' = d /\ result' = result

\* What is left of the connect budget, at least one tick (the code's 1 ms).
Remaining == IF ConnectTimeout - now > 1 THEN ConnectTimeout - now ELSE 1

\* A failed connect of a plaintext poll device asks the peer for its name when the registration failed
\* and some of the budget is left.
identity_of_unregisterable_peer(e) ==
    /\ mode = "plain" /\ is_registration_failure(e)
    /\ Least(LIST_IDENTITY_BUDGET, ConnectTimeout - now) > 0

Fail(e) ==
    /\ err' = e /\ link' = "none"
    /\ IF identity_of_unregisterable_peer(e)
       THEN Goto("probe_tcp", now + Least(LIST_IDENTITY_BUDGET, ConnectTimeout - now))
       ELSE End(map_enip_error(e))

\* enrich_registration_failure: the name, if the probe yields one, and the class of the first error.
ProbeEnds(answered) ==
    /\ named' = answered
    /\ End(map_enip_error(err))

Same == UNCHANGED <<mode, connected, device, now>>
NoPosture == UNCHANGED <<attr, got, posture>>

(***************************************************************************)
(* EipClient::connect and connect_tls.                                     *)
(***************************************************************************)
\* What follows the open session: the identity for push, the posture for poll.
Opened ==
    /\ opened' = TRUE /\ link' = "up"
    /\ IF mode = "push" THEN Goto("identity", now + RequestTimeout)
       ELSE Goto("posture", now + RequestTimeout)

Tcp(e) ==
    /\ phase = "tcp"
    /\ IF e # "none" THEN Fail(IF mode = "tls" THEN "tls_io" ELSE e) /\ UNCHANGED opened
       ELSE /\ Goto(IF mode = "tls" THEN "tls" ELSE "register", now + Remaining)
            /\ UNCHANGED <<opened, err, link>>
    /\ Same /\ NoPosture /\ UNCHANGED named

\* connect_tls_over: the handshake; map_handshake_error and classify_rustls_error name its failures.
TlsHandshake(e) ==
    /\ phase = "tls"
    /\ IF e # "none" THEN Fail(e) ELSE Goto("register", due) /\ UNCHANGED <<err, link>>
    /\ Same /\ NoPosture /\ UNCHANGED <<opened, named>>

\* connect_over: RegisterSession and, over the new session, the class-3 ForwardOpen.
Register(e) ==
    /\ phase = "register"
    /\ IF e # "none" THEN Fail(e) /\ UNCHANGED opened
       ELSE IF connected THEN Goto("class3", Least(due, now + RequestTimeout)) /\ UNCHANGED <<opened, err, link>>
       ELSE Opened /\ UNCHANGED err
    /\ Same /\ NoPosture /\ UNCHANGED named

Class3(e) ==
    /\ phase = "class3"
    /\ IF e # "none" THEN Fail(e) /\ UNCHANGED opened ELSE Opened /\ UNCHANGED err
    /\ Same /\ NoPosture /\ UNCHANGED named

OpenTimeout ==
    /\ now >= due
    /\ \/ phase = "tcp" /\ Fail("timeout_connect")
       \/ phase = "tls" /\ Fail("timeout_tls")
       \/ phase = "register" /\ Fail(IF mode = "tls" THEN "timeout_tls" ELSE "timeout_register")
       \/ phase = "class3" /\ Fail(IF now < ConnectTimeout THEN "timeout_request"
                                   ELSE IF mode = "tls" THEN "timeout_tls" ELSE "timeout_register")
    /\ Same /\ NoPosture /\ UNCHANGED <<opened, named>>

(***************************************************************************)
(* The diagnostic after a failed registration.                             *)
(***************************************************************************)
ProbeTcp(ok) ==
    /\ phase = "probe_tcp"
    /\ IF ok THEN Goto("probe", due) /\ UNCHANGED named ELSE ProbeEnds(FALSE)
    /\ Same /\ NoPosture /\ UNCHANGED <<opened, err, link>>

list_identity_over(ok) ==
    /\ phase = "probe" /\ ProbeEnds(ok)
    /\ Same /\ NoPosture /\ UNCHANGED <<opened, err, link>>

ProbeTimeout ==
    /\ phase \in {"probe_tcp", "probe"} /\ now >= due /\ ProbeEnds(FALSE)
    /\ Same /\ NoPosture /\ UNCHANGED <<opened, err, link>>

(***************************************************************************)
(* read_security_posture: object by object, attribute by attribute.        *)
(***************************************************************************)
Object == Objects[attr[1]]
\* The state attribute of the two security objects decides whether they are there at all.
Gate == attr[2] = 1 /\ Object # "cert"

NextAttr(ok) ==
    IF (Gate /\ ~ok) \/ attr[2] = Attrs THEN <<attr[1] + 1, 1>> ELSE <<attr[1], attr[2] + 1>>

\* map_target_posture: none when no object is there; otherwise the attributes that are shown.
map_target_posture(g) == [there |-> g # {}, shown |-> g \cap Shown]

Identity == Goto("identity", now + RequestTimeout)

\* get_attr_optional: a value, or any CIP status, or a value that does not decode (no attribute).
PostureReply ==
    LET ok == attr[2] \in device[Object]
        g == IF ok THEN got \cup {<<Object, attr[2]>>} ELSE got
        next == NextAttr(ok)
    IN  /\ phase = "posture" /\ link = "up"
        /\ got' = g /\ attr' = next
        /\ IF next[1] > 3 THEN posture' = map_target_posture(g) /\ Identity
           ELSE posture' = posture /\ Goto("posture", now + RequestTimeout)
        /\ Same /\ UNCHANGED <<link, opened, err, named>>

\* Variant: what was read before the failure is shown.
PostureDropped_partial == posture' = map_target_posture(got)
PostureDropped == UNCHANGED posture

\* Any other failure of a request: the posture is dropped, the connect goes on.
PostureFails ==
    /\ phase = "posture" /\ (now >= due \/ link = "broken")
    /\ PostureDropped /\ Identity
    /\ Same /\ UNCHANGED <<attr, got, link, opened, err, named>>

(***************************************************************************)
(* read_identity and the rest of open_push.                                *)
(***************************************************************************)
IdentityEnds(ok) == IF mode = "push" THEN Goto("forward_open", now + RequestTimeout) ELSE End("ok")

\* The device may refuse; the request may time out or find the transport broken.
read_identity(ok) ==
    /\ phase = "identity"
    /\ ok => link = "up"
    /\ ~ok => link = "up" \/ link = "broken"
    /\ IdentityEnds(ok)
    /\ Same /\ NoPosture /\ UNCHANGED <<link, opened, err, named>>

IdentityTimeout ==
    /\ phase = "identity" /\ now >= due /\ link = "up" /\ IdentityEnds(FALSE)
    /\ Same /\ NoPosture /\ UNCHANGED <<link, opened, err, named>>

\* Bind the I/O socket and ForwardOpen.
ForwardOpen(e) ==
    /\ phase = "forward_open"
    /\ e = "none" => link = "up"
    /\ e = "closed" => link = "broken"
    /\ IF e = "none" THEN End("ok") /\ UNCHANGED <<err, link>> ELSE Fail(e)
    /\ Same /\ NoPosture /\ UNCHANGED <<opened, named>>

ForwardOpenTimeout ==
    /\ phase = "forward_open" /\ now >= due /\ Fail("timeout_request")
    /\ Same /\ NoPosture /\ UNCHANGED <<opened, named>>

(***************************************************************************)
(* The ladder's deadline, the peer's transport and time.                   *)
(***************************************************************************)
\* The ladder drops the attempt when its own time-out fires.
Elapsed ==
    /\ phase # "done" /\ now >= ConnectTimeout
    /\ End("timeout") /\ link' = "none"
    /\ Same /\ NoPosture /\ UNCHANGED <<opened, err, named>>

Breaks ==
    /\ link = "up" /\ phase # "done" /\ link' = "broken"
    /\ Same /\ NoPosture /\ UNCHANGED <<phase, due, opened, err, named, result>>

\* Time passes up to the next deadline.
Tick ==
    /\ phase # "done" /\ now < due /\ now < ConnectTimeout
    /\ now' = now + 1
    /\ UNCHANGED <<mode, connected, device, phase, attr, due, link, got, posture, opened, err, named, result>>

Init ==
    /\ mode \in {"plain", "tls", "push"} /\ connected \in BOOLEAN
    /\ device \in [{"cip", "eip", "cert"} -> Served]
    /\ phase = "tcp" /\ attr = <<1, 1>> /\ now = 0 /\ due = ConnectTimeout /\ link = "none"
    /\ got = {} /\ posture = map_target_posture({}) /\ opened = FALSE /\ err = "none" /\ named = FALSE /\ result = "none"

Next ==
    \/ \E e \in {"none", "io"} : Tcp(e)
    \/ \E e \in {"none"} \cup TlsErrors : TlsHandshake(e)
    \/ \E e \in {"none"} \cup RegisterErrors : Register(e)
    \/ \E e \in {"none"} \cup OpenErrors : Class3(e)
    \/ OpenTimeout
    \/ \E ok \in BOOLEAN : ProbeTcp(ok) \/ list_identity_over(ok)
    \/ ProbeTimeout
    \/ PostureReply \/ PostureFails
    \/ \E ok \in BOOLEAN : read_identity(ok)
    \/ IdentityTimeout
    \/ \E e \in {"none", "io", "closed"} \cup OpenErrors : ForwardOpen(e)
    \/ ForwardOpenTimeout
    \/ Elapsed \/ Breaks \/ Tick

Fairness == WF_vars(Tick) /\ WF_vars(Elapsed)
Spec == Init /\ [][Next]_vars /\ Fairness

(***************************************************************************)
(* Properties.                                                             *)
(***************************************************************************)
\* The posture a device is reported with is the whole of what it serves (read_security_posture,
\* read_target_posture): an object shows exactly the attributes it answers when its state can be read
\* and is absent otherwise, and a reading that broke off shows nothing.
PostureWhole ==
    posture.there =>
        posture.shown = {p \in Shown : p[2] \in device[p[1]] /\ (p[1] = "cert" \/ 1 \in device[p[1]])}

\* The diagnostics inform and the wire decides (identity.rs): a poll session that was opened fails its
\* connect only by running out of the ladder's time, a failure keeps the class of the error that caused
\* it, and the peer is asked for its name only after it accepted TCP and the session did not come up:
\* never for an i/o error, which a refused TCP connection looks like, nor where the target answered the
\* class-3 ForwardOpen with a status or not in time.  A peer that hangs up or violates the protocol in
\* that ForwardOpen is asked too, although it registered: is_registration_failure sees the error alone.
DiagnosticsInform ==
    /\ opened /\ mode # "push" /\ phase = "done" => result = "ok" \/ (result = "timeout" /\ now >= ConnectTimeout)
    /\ err # "none" /\ phase = "done" /\ result # "timeout" => result = map_enip_error(err)
    /\ named \/ phase \in {"probe_tcp", "probe"} =>
        ~opened /\ mode = "plain" /\ err \notin {"io", "timeout_connect", "open_busy", "open_refused", "timeout_request"}
=============================================================================
