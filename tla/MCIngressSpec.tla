---------------------------- MODULE MCIngressSpec ----------------------------
(* IngressCases for all ingresses of a small cluster, short paths, few          *)
(* bandwidths, services with one or two ports on up to two nodes.               *)
EXTENDS IngressCases, FiniteSets

CONSTANTS
    MaxRules,       \* bound: rules of an ingress
    MaxText,        \* bound: characters of a path
    MaxMbps,        \* bound: bandwidths of annotations
    h1, Letter, Wildcard, p, q, n1, n2, ip1, ip2

Targets == {<<s>> : s \in Services} \cup {<<s, t>> : s, t \in Services}
Rules == [host : Hosts \cup {NoHost}, to : Targets]
SmallIngress ==
    {i \in [rules : UNION {[1..n -> Rules] : n \in 0..MaxRules},
            default : Services \cup {None},
            tls : [Hosts -> Certificates \cup {None}], redirect : BOOLEAN,
            nodes : {0}, shape : {"flexible"}, address : {None}, internal : {FALSE}] :
        i.rules # <<>> \/ i.default # None}
PlainIngress ==
    [rules |-> <<[host |-> h1, to |-> <<CHOOSE s \in Services : TRUE>>]>>, default |-> None,
     tls |-> [h \in Hosts |-> None], redirect |-> FALSE,
     nodes |-> 0, shape |-> "flexible", address |-> None, internal |-> FALSE]

SmallAlphabet == {Slash, Letter, Star}
Texts(chars, n) == UNION {[1..k -> chars] : k \in 0..n}
RootPath == TextPath("Prefix", <<Slash>>, h1)
SmallPath ==
    {TextPath(type, <<Slash>> \o text, host) : type \in {"Exact", "Prefix"},
        text \in Texts(SmallAlphabet, MaxText - 1), host \in {h1, Wildcard}}
    \cup {TextPath("ImplementationSpecific", text, host) :
        text \in Texts(SmallAlphabet, MaxText), host \in {h1, Wildcard}}
    \cup {ConditionPath(quantifier, predicates, host) :
        quantifier \in Quantifier, predicates \in {{p}, {p, q}}, host \in {h1, Wildcard}}

Mbps == -1..MaxMbps
NoAnnotations == [shape |-> Absent, min |-> Absent, max |-> Absent]
SmallAnnotations ==
    [shape : {Absent, Flexible, Capitalized} \cup FixedShapes,
     min : Mbps \cup {Absent, Garbage}, max : Mbps \cup {Absent, Garbage}]

\* Services as the API server accepts them: names and node ports differ, and so
\* do numbers with the same protocol.
Numbers == {53, 80}
PortNames == {"dns", "web"}
NodePortsDiffer(ports) ==
    \A j, k \in DOMAIN ports :
        j # k => ports[j].nodePort # ports[k].nodePort \/ ports[j].nodePort = 0
SmallPort ==
    [protocol : {"TCP", "UDP"}, port : Numbers, name : PortNames, nodePort : {0, 30001, 30002}]
SmallPorts == {ports \in UNION {[1..n -> SmallPort] : n \in 1..2} :
                   Valid(ports) /\ NodePortsDiffer(ports)}
SmallAsking ==
    [number : Numbers, name : {""}] \cup [number : {0}, name : PortNames]

NoHealthAnnotations == [f \in HealthField |-> Unset]
PlainCluster ==
    [ports |-> <<[protocol |-> "TCP", port |-> 80, name |-> "web", nodePort |-> 30001]>>,
     type |-> "NodePort", local |-> FALSE, checkPort |-> 0,
     annotations |-> NoHealthAnnotations, address |-> (n1 :> ip1 @@ n2 :> ip2),
     order |-> <<n1, n2>>, policy |-> Unset]
SomeNodes ==
    {f \in UNION {[ns -> {ip1, ip2, Unset}] : ns \in SUBSET {n1, n2}} :
        \A m, n \in DOMAIN f : f[m] = f[n] /\ m # n => f[m] = Unset}
SmallCluster ==
    {[PlainCluster EXCEPT !.ports = ports] : ports \in SmallPorts}
    \cup UNION {{[PlainCluster EXCEPT !.address = f, !.order = seq, !.policy = policy] :
                    seq \in SetToSeqs(DOMAIN f), policy \in {Unset, "IP_HASH", "RANDOM"}} :
                f \in SomeNodes}
    \cup {[PlainCluster EXCEPT !.type = t[1], !.local = t[2], !.checkPort = t[3],
                               !.annotations[f] = value] :
             t \in {<<"NodePort", TRUE, 0>>, <<"LoadBalancer", FALSE, 0>>,
                    <<"LoadBalancer", TRUE, 30003>>},
             f \in HealthField, value \in {Unset, Invalid, 5}}

Requested == {<<Slash>> \o t : t \in Texts({Slash, Letter}, MaxText - 1)}
PlainCase ==
    [ing |-> PlainIngress, path |-> RootPath, annotations |-> NoAnnotations,
     cluster |-> PlainCluster]
=============================================================================
