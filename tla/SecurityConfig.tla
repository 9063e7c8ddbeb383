--------------------------- MODULE SecurityConfig ---------------------------
(***************************************************************************)
(* connection.security (eip/tls.rs) and its est block (eip/est.rs): what   *)
(* the start-up validation accepts, where the client identity and the      *)
(* trust anchors are read from, where an enrollment is written to, and what*)
(* client configuration the connect path builds. A configuration is a      *)
(* record whose client, ca, into, bootstrap and trust blocks are the sets  *)
(* of their present fields; the vault and the files are the sets of what   *)
(* they hold. Reading a field yields the material stored under its name.   *)
(***************************************************************************)
EXTENDS Integers, FiniteSets

Err(why) == [ok |-> FALSE, why |-> why, val |-> {}]
Ok(v) == [ok |-> TRUE, why |-> "", val |-> v]

ClientFields == {"certSecret", "certFile", "keyFile", "cert", "key"}  \* and "field", see Secret
CaFields == {"secret", "file", "cert", "trustStore", "list"}

\* The est block and the security block over given sub-blocks.
EstConfigs(servers, intos, auths, bootstraps, trusts) ==
    [enabled : BOOLEAN, server : servers, hasInto : BOOLEAN, into : intos, auth : auths,
     bootstrap : bootstraps, trust : trusts]
SecurityConfigs(clients, cas, ests) ==
    [tls : BOOLEAN, client : clients, ca : cas, verify_peer : BOOLEAN, check_expiration : BOOLEAN,
     suites : {"default", "unsupported"}, name : {"valid", "invalid"}, est : ests]

has_bundle(c) == "certSecret" \in c
has_files(c) == c \cap {"certFile", "keyFile"} # {}
has_inline(c) == c \cap {"cert", "key"} # {}
both_files(c) == {"certFile", "keyFile"} \subseteq c
both_inline(c) == {"cert", "key"} \subseteq c
is_complete(c) == has_bundle(c) \/ both_files(c) \/ both_inline(c)

client_styles(c) == Cardinality({s \in {"bundle", "files", "inline"} :
                       \/ s = "bundle" /\ has_bundle(c)
                       \/ s = "files" /\ has_files(c)
                       \/ s = "inline" /\ has_inline(c)})

style_count(ca) == Cardinality(ca)
is_configured(ca) == style_count(ca) > 0

\* EstConfig::resolve_destination: the explicit block, or the client's own vault secrets. A
\* destination is the set of the secrets written: the reference's own name, whatever field it reads.
resolve_destination(sec) ==
    LET into == sec.est.into
    IN CASE sec.est.hasInto /\ into = {"certSecret"} -> Ok({"into.certSecret"})
         [] sec.est.hasInto /\ into = {"cert", "key"} -> Ok({"into.cert", "into.key"})
         [] sec.est.hasInto -> Err("est.into empty or mixed")
         [] ~sec.est.hasInto /\ has_bundle(sec.client) -> Ok({"certSecret"})
         [] ~sec.est.hasInto /\ ~has_bundle(sec.client) /\ both_inline(sec.client) ->
              Ok(IF "field" \in sec.client THEN {"pair"} ELSE {"cert", "key"})
         [] OTHER -> Err("no derivable destination")

\* An authority host[:port], its port part absent, empty, digits in or over range, or other text, and
\* an IPv6 literal bracketed. parse_optional_port: a u16.
parse_optional_port(p) == CASE p = "absent" -> Ok(443) [] p = "digits" -> Ok(8443) [] OTHER -> Err("port")

\* EstEndpoint::parse: outside brackets a suffix that is no number stays part of the host.
EstEndpoint_parse(u) ==
    LET port == IF u.bracket \/ u.port \in {"digits", "over"} THEN parse_optional_port(u.port) ELSE Ok(443)
    IN CASE u.scheme # "https" -> Err("not https")
         [] u.scheme = "https" /\ ~u.host -> Err("no host")
         [] u.scheme = "https" /\ u.host /\ ~port.ok -> port
         [] OTHER -> Ok([port |-> port.val, plain |-> u.bracket \/ u.port \in {"absent", "digits"}])

\* tls.rs host_of: the endpoint's host without a numeric port; a bracketed literal loses its port.
host_of(u) == [host |-> u.host, plain |-> u.bracket \/ u.port \in {"absent", "digits", "over"}]

\* EstConfig::validate.
est_validate(sec) ==
    LET e == sec.est
    IN CASE ~e.enabled -> Ok({})
         [] e.enabled /\ e.server = "none" -> Err("est.server")
         [] e.enabled /\ e.server = "bad" -> Err("est.server url")
         [] e.enabled /\ e.server = "https" /\ {"bootstrap", "basic"} \subseteq e.auth -> Err("est.auth both")
         [] e.enabled /\ e.server = "https" /\ e.auth = {"bootstrap"} /\ ~is_complete(e.bootstrap) -> Err("est.auth.bootstrap")
         [] OTHER -> resolve_destination(sec)

\* The client block: at most one style, and that one complete.
client_validate(c) ==
    CASE client_styles(c) > 1 -> Err("client mixes styles")
      [] client_styles(c) <= 1 /\ has_files(c) /\ ~both_files(c) -> Err("certFile and keyFile")
      [] client_styles(c) <= 1 /\ has_inline(c) /\ ~both_inline(c) -> Err("cert and key")
      [] OTHER -> Ok({})

\* SecurityConfig::validate: the first complaint.
validate(sec, is_push) ==
    IF ~sec.tls THEN Ok({})
    ELSE IF is_push THEN Err("tls on push")
    ELSE IF ~client_validate(sec.client).ok THEN client_validate(sec.client)
    ELSE IF ~is_complete(sec.client) THEN Err("no client identity")
    ELSE IF style_count(sec.ca) > 1 THEN Err("ca mixes styles")
    ELSE IF sec.verify_peer /\ ~is_configured(sec.ca) /\ ~has_bundle(sec.client) THEN Err("no ca")
    ELSE est_validate(sec)

----------------------------------------------------------------------------
\* Sourcing. A world is [vault, json, cas, files, caPem, versions]: the secrets that exist with the
\* material each holds, those that are JSON objects, the CA secrets, the files, the CAs a bundle carries as caPem,
\* the trust store's retained versions.

Has(w, name) == name \in DOMAIN w.vault

\* The secret an inline reference names: its own, or with "field" in the block one that both share.
Secret(client, name) == IF "field" \in client THEN "pair" ELSE name

\* SecretRef::resolve: the whole value, or a field of a JSON object.
SecretRef_resolve(client, name, w) ==
    LET n == Secret(client, name)
    IN CASE ~Has(w, n) -> Err("not found")
         [] Has(w, n) /\ "field" \in client /\ n \notin w.json -> Err("field missing")
         [] OTHER -> Ok(w.vault[n])

\* source_client_material: the bundle first, then the inline references, then the files.
source_client_material(client, w) ==
    LET inline == [f \in {"cert", "key"} |-> SecretRef_resolve(client, f, w)]
    IN CASE has_bundle(client) ->
              IF Has(w, "certSecret") THEN Ok([cert |-> w.vault["certSecret"], key |-> w.vault["certSecret"], ca |-> w.caPem])
              ELSE Err("bundle not found")
         [] ~has_bundle(client) /\ both_inline(client) ->
              IF \A f \in {"cert", "key"} : inline[f].ok
              THEN Ok([cert |-> inline["cert"].val, key |-> inline["key"].val, ca |-> {}])
              ELSE Err("secret")
         [] ~has_bundle(client) /\ ~both_inline(client) /\ both_files(client) ->
              IF {"certFile", "keyFile"} \subseteq w.files THEN Ok([cert |-> "file", key |-> "file", ca |-> {}])
              ELSE Err("file")
         [] OTHER -> Ok([cert |-> "none", key |-> "none", ca |-> {}])

\* Variant: only the newest version of the trust store is trusted.
trust_store_newest(w) == {v \in w.versions : \A u \in w.versions : u <= v}

\* ca.trustStore: every retained version, so that the roots of a rollover overlap.
trust_store(w) == w.versions

\* source_ca_pems: the roots of the one configured style.
source_ca_pems(ca, w) ==
    CASE "secret" \in ca -> IF "ca.secret" \in DOMAIN w.cas THEN Ok({w.cas["ca.secret"]}) ELSE Err("ca.secret")
      [] "cert" \in ca /\ "secret" \notin ca -> IF "ca.cert" \in DOMAIN w.cas THEN Ok({w.cas["ca.cert"]}) ELSE Err("ca.cert")
      [] "file" \in ca /\ ca \cap {"secret", "cert"} = {} -> IF "ca" \in w.files THEN Ok({0}) ELSE Err("ca.file")
      [] "trustStore" \in ca /\ ca \cap {"secret", "cert", "file"} = {} ->
           IF w.versions # {} THEN Ok(trust_store(w)) ELSE Err("ca.trustStore")
      [] ca = {"list"} -> IF "ca.list" \in DOMAIN w.cas THEN Ok({w.cas["ca.list"]}) ELSE Err("ca.list")
      [] OTHER -> Ok({})

\* resolve_est_trust: the EST server's own anchors, or the device's.
resolve_est_trust(sec, w) ==
    IF sec.est.trust # {} THEN source_ca_pems(sec.est.trust, w)
    ELSE IF sec.ca # {} THEN source_ca_pems(sec.ca, w) ELSE Err("no EST trust")

\* resolve_auth_material: Basic with the current identity when there is one, the bootstrap identity,
\* or the current identity.
resolve_auth_material(sec, w) ==
    LET src == source_client_material(sec.client, w)
        current == IF src.ok /\ src.val.cert # "none" THEN {src.val} ELSE {}
    IN IF "basic" \in sec.est.auth
       THEN IF Has(w, "basic") THEN Ok(current) ELSE Err("basic secret")
       ELSE IF "bootstrap" \in sec.est.auth
       THEN LET b == source_client_material(sec.est.bootstrap, w)
            IN IF b.ok THEN Ok({b.val}) ELSE b
       ELSE IF current # {} THEN Ok(current) ELSE Err("nothing to re-enroll with")

\* EstClient::new: anchors for the server, and a client identity that is whole when one is presented.
EstClient_new(sec, w) ==
    LET trust == resolve_est_trust(sec, w)
        auth == resolve_auth_material(sec, w)
    IN IF ~trust.ok THEN trust
       ELSE IF trust.val = {} THEN Err("no EST trust anchors")
       ELSE IF ~auth.ok THEN auth
       ELSE IF \E m \in auth.val : m.cert # m.key THEN Err("EST client certificate/key")
       ELSE Ok({})

\* write_enrolled: the enrolled material replaces what the destination's secrets held. A bundle is
\* written as certPem and keyPem: a caPem it carried is gone. A pair's values are plain PEM; a secret
\* named by both references ends as the key alone.
write_enrolled(dest, new, w) ==
    [w EXCEPT !.vault = [n \in DOMAIN @ \cup dest |-> IF n \in dest THEN new ELSE @[n]],
              !.json = @ \ dest,
              !.caPem = IF "certSecret" \in dest THEN {} ELSE @]

----------------------------------------------------------------------------
\* The connect path.

\* provider_for: a suite list must name something rustls speaks.
provider_for(sec) == IF sec.suites = "unsupported" THEN Err("cipherSuites") ELSE Ok({})

\* resolve_server_name: serverName, or the endpoint's host, is an address or a DNS name.
resolve_server_name(sec) == IF sec.name = "invalid" THEN Err("serverName") ELSE Ok({})

\* build_client_config: identity, roots, expiry, suites, verifier, name; days is the leaf's.
build_client_config(sec, w, days) ==
    LET src == source_client_material(sec.client, w)
        cas == source_ca_pems(sec.ca, w)
        roots == src.val.ca \cup cas.val
    IN IF ~src.ok THEN src
       ELSE IF ~cas.ok THEN cas
       ELSE IF sec.check_expiration /\ days < 0 THEN Err("expired")
       ELSE IF ~provider_for(sec).ok THEN provider_for(sec)
       ELSE IF sec.verify_peer /\ roots = {} THEN Err("no CA certificates")
       ELSE IF src.val.cert # src.val.key THEN Err("key does not match")
       ELSE IF ~resolve_server_name(sec).ok THEN resolve_server_name(sec)
       ELSE Ok([roots |-> roots, verifier |-> IF ~sec.verify_peer THEN "NoVerify"
                                              ELSE IF sec.check_expiration THEN "WebPki"
                                              ELSE "ExpiryTolerant"])

\* ServerCertVerifier::verify_server_cert, given the first defect WebPki reports.
verify_server_cert(verifier, defects) ==
    CASE verifier = "NoVerify" -> TRUE
      [] verifier = "ExpiryTolerant" -> defects \in {"none", "Expired", "NotValidYet"}
      [] verifier = "WebPki" -> defects = "none"

\* classify_rustls_error: a verification failure, a suite mismatch (or the alert a CBC-only device
\* answers with), anything else; map_handshake_error makes a plain socket error Io.
classify_rustls_error(e) ==
    CASE e = "InvalidCertificate" -> "PeerUnverified"
      [] e \in {"NoCipherSuitesInCommon", "NoSignatureSchemesInCommon", "NoKxGroupsInCommon",
                "AlertHandshakeFailure"} -> "NoCipherOverlap"
      [] e = "socket" -> "Io"
      [] OTHER -> "HandshakeFailed"

\* decode_body: base64 only when the header says so; what it yields must be PKCS#7 with a certificate.
decode_body(base64, body) == IF base64 THEN (IF body = "base64 text" THEN "pkcs7" ELSE "error") ELSE body

\* interpret_enroll_response and EstError::is_transient.
interpret_enroll_response(status, base64, body) ==
    CASE status = 200 -> IF decode_body(base64, body) = "pkcs7" THEN "chain" ELSE "Parse"
      [] status = 202 -> "RetryAfter"
      [] status \in {401, 403} -> "Unauthorized"
      [] OTHER -> "Status"

is_transient(err, status) == err \in {"Io", "RetryAfter"} \/ (err = "Status" /\ status >= 500)

\* security_status: what sb/status says of a session: the policy of the moment it was built.
security_status(sec, built) == [tls |-> TRUE, peer_verified |-> sec.verify_peer, anchors |-> built.val.roots]

----------------------------------------------------------------------------
\* What the validation does not look at and the connect path refuses: a bundle without the caPem it
\* "may carry", a suite list that names nothing rustls speaks, a name that is none.
LeftToConnect(sec, w) ==
    \/ sec.verify_peer /\ sec.ca = {} /\ w.caPem = {}
    \/ sec.suites = "unsupported"
    \/ sec.name = "invalid"

\* A configuration the validation accepts for a poll instance can connect, once everything it names
\* exists and is in date, exactly when none of the three things left to the connect path stands
\* against it.  The session it yields is checked as the status claims, and trusts every retained
\* version of a trust store.
AcceptedConnects(sec, w) ==
    validate(sec, FALSE).ok /\ sec.tls
      => LET b == build_client_config(sec, w, 1)
         IN /\ b.ok <=> ~LeftToConnect(sec, w)
            /\ b.ok /\ security_status(sec, b).peer_verified
                 => \A d \in {"UnknownIssuer", "NotValidForName", "BadSignature"} :
                      ~verify_server_cert(b.val.verifier, d)
            /\ b.ok /\ "trustStore" \in sec.ca => w.versions \subseteq b.val.roots

\* A renewal that derives its destination from the client block is what the next connect presents,
\* certificate and key together.  The exception is an identity of two JSON fields of one secret:
\* write_enrolled leaves that secret the key alone, and the next connect finds no field in it.  (An
\* explicit destination may be elsewhere.)
RenewalIsPresented(sec, w) ==
    validate(sec, FALSE).ok /\ sec.tls /\ sec.est.enabled /\ ~sec.est.hasInto
      => LET m == source_client_material(sec.client, write_enrolled(resolve_destination(sec).val, "new", w))
         IN IF "field" \in sec.client THEN ~m.ok ELSE m.ok /\ m.val.cert = "new" /\ m.val.key = "new"

\* What enroll_once needs before the exchange is there.
CanEnroll(sec, w) == sec.est.enabled /\ EstClient_new(sec, w).ok

\* DESIGN.md: an enrollment is written back into the vault so that the watcher reloads it and
\* reconnects, no restart: what could connect before a renewal can connect after it.
RenewalConnects(sec, w) ==
    validate(sec, FALSE).ok /\ sec.tls /\ ~sec.est.hasInto /\ CanEnroll(sec, w)
      /\ build_client_config(sec, w, 1).ok
      => build_client_config(sec, write_enrolled(resolve_destination(sec).val, "new", w), 1).ok
=============================================================================
