----------------------------- MODULE IngressSpec -----------------------------
(***************************************************************************)
(* What NewIngressLBSpec makes of an ingress: the load balancer it asks    *)
(* for, as a function from sub-resources to their contents.                *)
(*                                                                         *)
(* A sub-resource is <<kind, name>>.  Names derived from a host stand for  *)
(* the host, a certificate's name for the certificate (it ends in a digest *)
(* of it).  The paths of a rule are seen as the backends they lead to, in  *)
(* order; a service has one port.  The subnets, fixed once the load        *)
(* balancer exists like its being internal, are left out beside that.      *)
(***************************************************************************)
EXTENDS Naturals, Sequences, SequencesExt

CONSTANTS
    Hosts,          \* hosts of rules and TLS entries
    NoHost,         \* the host of a rule that names none
    Services,
    Certificates,   \* contents of the secrets
    Addresses,      \* reserved addresses
    None

ASSUME NamesAssumption ==
    /\ NoHost \notin Hosts
    /\ None \notin Hosts \cup {NoHost} \cup Services \cup Certificates \cup Addresses

\* An ingress, with the nodes and secrets it is built with.  tls[h]: the
\* certificate in the secret of the TLS entry with host h.
Rule == [host : Hosts \cup {NoHost}, to : Seq(Services)]
Ingress ==
    [rules : Seq(Rule), default : Services \cup {None},
     tls : [Hosts -> Certificates \cup {None}], redirect : BOOLEAN,
     nodes : Nat, shape : {"flexible", "fixed"},
     address : Addresses \cup {None}, internal : BOOLEAN]

RuleHosts(ing) == {ing.rules[n].host : n \in DOMAIN ing.rules}
TLSHosts(ing) == {h \in Hosts : ing.tls[h] # None}
CertificateOf(ing, h) == IF h \in Hosts THEN ing.tls[h] ELSE None

\* The services processBackendSpec has looked up.
UsedServices(ing) ==
    (UNION {ToSet(ing.rules[n].to) : n \in DOMAIN ing.rules}) \cup ({ing.default} \ {None})

\* GetLoadBalancerIP refuses a reserved address for an internal load balancer:
\* there is no specification then.
Buildable(ing) == ing.address = None \/ ~ing.internal

Dummy == "dummy"
Redirects(ing) == TLSHosts(ing) # {} /\ ing.redirect

-----------------------------------------------------------------------------
(* The sub-resources and their contents *)

\* setupBackendSetsForSpec
BackendSet(ing, s) == IF s = Dummy THEN 0 ELSE ing.nodes

\* The routing policy of a host: its rules, those of a second rule with the
\* same host behind, and the default backend last.  (Faulty variants: a second
\* rule with the same host replaces the first; the default backend comes first.)
RoutingPolicyReplaced(ing, h) ==
    LET policy[n \in 0..Len(ing.rules)] ==
            IF n = 0 THEN <<>>
            ELSE IF ing.rules[n].host # h THEN policy[n - 1]
            ELSE ing.rules[n].to
    IN  policy[Len(ing.rules)] \o IF ing.default = None THEN <<>> ELSE <<ing.default>>
RoutingPolicyDefaultFirst(ing, h) ==
    LET policy[n \in 0..Len(ing.rules)] ==
            IF n = 0 THEN IF ing.default = None THEN <<>> ELSE <<ing.default>>
            ELSE IF ing.rules[n].host # h THEN policy[n - 1]
            ELSE policy[n - 1] \o ing.rules[n].to
    IN  policy[Len(ing.rules)]
RoutingPolicy(ing, h) ==
    LET policy[n \in 0..Len(ing.rules)] ==
            IF n = 0 THEN <<>>
            ELSE IF ing.rules[n].host # h THEN policy[n - 1]
            ELSE policy[n - 1] \o ing.rules[n].to
    IN  policy[Len(ing.rules)] \o IF ing.default = None THEN <<>> ELSE <<ing.default>>

\* createListenerDetails
HostListener(ing, h) ==
    [backendSet |-> Dummy,
     port |-> IF CertificateOf(ing, h) = None THEN 80 ELSE 443,
     hostnames |-> {h} \ {NoHost}, certificate |-> CertificateOf(ing, h),
     policy |-> h, ruleSets |-> {}]

\* createDefaultBackendListenerDetails, createSansVirtualHostListenerDetails
DefaultListener(ing) ==
    [backendSet |-> IF ing.default = None THEN Dummy ELSE ing.default,
     port |-> 80, hostnames |-> {}, certificate |-> None, policy |-> None,
     ruleSets |-> {}]
DefaultListenerName(ing) ==
    IF ing.default = None THEN "Sans-VirtualHost-HTTP" ELSE "DefaultBackend-http"

\* Not so called is the listener of a host: GetListenerName puts the host in
\* lower case.
ASSUME DefaultListenerAssumption ==
    {"Sans-VirtualHost-HTTP", "DefaultBackend-http"} \cap (Hosts \cup {NoHost}) = {}

\* createListenerDetailsAndRulesetDetailsForHTTPSRedirect
RedirectorName == "http-to-https-redirector"
ASSUME RedirectorAssumption == RedirectorName \notin Hosts \cup {NoHost}
Redirector(ing) ==
    [backendSet |-> Dummy, port |-> 80, hostnames |-> TLSHosts(ing),
     certificate |-> None, policy |-> None, ruleSets |-> {"https_redirection"}]

Listeners(ing) ==
    RuleHosts(ing) \cup {DefaultListenerName(ing)}
        \cup (IF Redirects(ing) THEN {RedirectorName} ELSE {})
Listener(ing, n) ==
    CASE n = RedirectorName -> Redirector(ing)
      [] n = DefaultListenerName(ing) -> DefaultListener(ing)
      [] OTHER -> HostListener(ing, n)

\* The hosts that get a hostname are those of the rules.  (Faulty variant:
\* the dummy backend set is forgotten.)
SubResourcesNoDummy(ing) ==
         {<<"backendSet", s>> : s \in UsedServices(ing)}
    \cup {<<"policy", h>> : h \in RuleHosts(ing)}
    \cup {<<"hostname", h>> : h \in RuleHosts(ing) \ {NoHost}}
    \cup {<<"certificate", ing.tls[h]>> : h \in RuleHosts(ing) \cap TLSHosts(ing)}
    \cup (IF Redirects(ing) THEN {<<"ruleSet", "https_redirection">>} ELSE {})
    \cup {<<"listener", n>> : n \in Listeners(ing)}
    \cup {<<"shape", "shape">>, <<"address", "address">>, <<"network", "network">>}
SubResources(ing) ==
         {<<"backendSet", s>> : s \in UsedServices(ing) \cup {Dummy}}
    \cup {<<"policy", h>> : h \in RuleHosts(ing)}
    \cup {<<"hostname", h>> : h \in RuleHosts(ing) \ {NoHost}}
    \cup {<<"certificate", ing.tls[h]>> : h \in RuleHosts(ing) \cap TLSHosts(ing)}
    \cup (IF Redirects(ing) THEN {<<"ruleSet", "https_redirection">>} ELSE {})
    \cup {<<"listener", n>> : n \in Listeners(ing)}
    \cup {<<"shape", "shape">>, <<"address", "address">>, <<"network", "network">>}

\* NewIngressLBSpec
LBSpec(ing) ==
    [x \in SubResources(ing) |->
        CASE x[1] = "backendSet" -> BackendSet(ing, x[2])
          [] x[1] = "policy" -> RoutingPolicy(ing, x[2])
          [] x[1] = "listener" -> Listener(ing, x[2])
          [] x[1] = "shape" -> ing.shape
          [] x[1] = "address" -> ing.address
          [] x[1] = "network" -> ing.internal
          [] OTHER -> x[2]]

\* What a sub-resource with these contents refers to.
References(x, contents) ==
    CASE x[1] = "listener" ->
            {<<"backendSet", contents.backendSet>>}
       \cup {<<"hostname", h>> : h \in contents.hostnames}
       \cup {<<"certificate", c>> : c \in {contents.certificate} \ {None}}
       \cup {<<"policy", p>> : p \in {contents.policy} \ {None}}
       \cup {<<"ruleSet", r>> : r \in contents.ruleSets}
      [] x[1] = "policy" -> {<<"backendSet", s>> : s \in ToSet(contents)}
      [] OTHER -> {}

-----------------------------------------------------------------------------
(* What a load balancer does with a request *)

ListenerIds(lb) == {x \in DOMAIN lb : x[1] = "listener"}

\* The listeners that take a request for a host (one of Hosts) on a port: those
\* with that virtual hostname or, if there are none, those without any.
Takes(lb, port, host) ==
    LET at == {x \in ListenerIds(lb) : lb[x].port = port}
        virtual == {x \in at : host \in lb[x].hostnames}
    IN  IF virtual # {} THEN virtual ELSE {x \in at : lb[x].hostnames = {}}

\* The backends a listener tries, in order; none when it redirects.
Backends(lb, x) ==
    IF lb[x].ruleSets # {} THEN <<>>
    ELSE (IF lb[x].policy = None THEN <<>> ELSE lb[<<"policy", lb[x].policy>>])
             \o <<lb[x].backendSet>>

\* What an ingress asks for, without regard to listeners: the backends to try,
\* in order, for a request for host h on a port; <<>> to redirect it.  Nobody
\* is asked to serve 443 for a host without TLS.
RulesFor(ing, h) ==
    FlattenSeq([n \in DOMAIN ing.rules |->
                   IF ing.rules[n].host = h THEN ing.rules[n].to ELSE <<>>])
Fallback(ing) == IF ing.default = None THEN <<>> ELSE <<ing.default>>
Secured(ing, h) == h \in TLSHosts(ing)
Asked(ing, port, h) ==
    IF port = 80 /\ Secured(ing, h) /\ ing.redirect THEN <<>>
    ELSE IF h \in RuleHosts(ing) /\ (port = 443 <=> Secured(ing, h))
         THEN RulesFor(ing, h) \o Fallback(ing) \o <<Dummy>>
         ELSE IF ing.default = None THEN <<Dummy>> ELSE Fallback(ing)
Served(ing, port, h) == port = 80 \/ h \in RuleHosts(ing) \cap TLSHosts(ing)

\* A load balancer does with requests what an ingress asks for.
Serves(lb, ing, port, h) ==
    LET t == Takes(lb, port, h) IN
    IF Served(ing, port, h)
    THEN \E x \in t : t = {x} /\ Backends(lb, x) = Asked(ing, port, h)
    ELSE t = {}
=============================================================================
