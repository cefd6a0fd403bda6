---------------------------- MODULE ResourceDiff ----------------------------
(***************************************************************************)
(* How the cloud provider sees that a backend set or a listener is not as  *)
(* specified: hasBackendSetChanged and hasListenerChanged compare field by *)
(* field what OCI returns with what is to be sent.  OCI is external: it    *)
(* fills in what was left out, and returns backends in its own order but   *)
(* hostnames in that in which they came (the code compares them as texts). *)
(***************************************************************************)
EXTENDS IngressSpec

ASSUME NoneAssumption == None \notin BOOLEAN

-----------------------------------------------------------------------------
(* Backend sets *)

\* What OCI makes of one: return code 200, unless another was sent.
StoredBackendSet(details) ==
    [details EXCEPT !.backends = Reverse(@),
                    !.health.returnCode = IF @ = 0 THEN 200 ELSE @]

\* getHealthCheckerChanges: what is left to OCI is not compared.
HealthCheckerChanged(actual, desired) ==
    \/ \E f \in DOMAIN desired \ {"returnCode"} : actual[f] # desired[f]
    \/ desired.returnCode # 0 /\ actual.returnCode # desired.returnCode

\* hasBackendSetChanged: backends are compared as sets of addresses and ports;
\* that of the first is compared besides.  (Faulty variant: as lists.)
Addressed(backends) == {[ip |-> b.ip, port |-> b.port] : b \in ToSet(backends)}
BackendSetChangedInOrder(actual, desired) ==
    \/ HealthCheckerChanged(actual.health, desired.health)
    \/ actual.policy # desired.policy
    \/ actual.backends # desired.backends
BackendSetChanged(actual, desired) ==
    \/ HealthCheckerChanged(actual.health, desired.health)
    \/ /\ actual.backends # <<>> /\ desired.backends # <<>>
       /\ Head(actual.backends).port # Head(desired.backends).port
    \/ actual.policy # desired.policy
    \/ Addressed(actual.backends) # Addressed(desired.backends)

-----------------------------------------------------------------------------
(* Listeners *)

\* A redirector gets its hostnames from a map: they are sorted (the order that
\* SetToSeq chooses stands for that).  (Faulty variant: they are not.)
HostnameListsAsTheyCome(hosts) == SetToSeqs(hosts)
HostnameLists(hosts) == {SetToSeq(hosts)}

\* The details of a listener of IngressSpec.  The verify depth is sent because
\* OCI would fill in 1 for it.
SSL(certificate) ==
    [certificate |-> certificate, depth |-> 1, verify |-> None,
     suite |-> "oci-default-http2-ssl-cipher-suite-v1"]
ListenerDetails(l) ==
    {[backendSet |-> l.backendSet, port |-> l.port,
      protocol |-> IF l.certificate = None THEN "HTTP" ELSE "HTTP2",
      ssl |-> IF l.certificate = None THEN {} ELSE {SSL(l.certificate)},
      idleTimeout |-> None, hostnames |-> hostnames, policy |-> l.policy,
      ruleSets |-> l.ruleSets] : hostnames \in HostnameLists(l.hostnames)}
StoredListener(details) ==
    [details EXCEPT !.idleTimeout = IF @ = None THEN 60 ELSE @,
                    !.ssl = {[s EXCEPT !.verify = IF @ = None THEN FALSE ELSE @] : s \in @}]

\* getSSLConfigurationChanges: the cipher suite is not compared; nothing there
\* counts as 0 and as no.
SSLChanged(actual, desired) ==
    \/ (actual = {}) # (desired = {})
    \/ \E a \in actual, d \in desired :
           \/ a.certificate # d.certificate \/ a.depth # d.depth
           \/ (a.verify = TRUE) # (d.verify = TRUE)

\* getConnectionConfigurationChanges
ConnectionChanged(actual, desired) == desired # None /\ actual # desired

\* hasListenerChanged
ListenerChanged(actual, desired) ==
    \/ \E f \in {"backendSet", "port", "protocol", "hostnames", "policy", "ruleSets"} :
           actual[f] # desired[f]
    \/ SSLChanged(actual.ssl, desired.ssl)
    \/ ConnectionChanged(actual.idleTimeout, desired.idleTimeout)

\* It tells a listener that OCI has from one that is to be sent just when
\* IngressSpec does.
ToldRight(old, new) ==
    \A actual \in ListenerDetails(old), desired \in ListenerDetails(new) :
        ListenerChanged(StoredListener(actual), desired) <=> old # new
=============================================================================
