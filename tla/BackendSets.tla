----------------------------- MODULE BackendSets -----------------------------
(***************************************************************************)
(* The backend sets of a service, which two parts of the code work out for *)
(* themselves: processBackendSpec follows the backend of an ingress to a   *)
(* port of the service and names the backend set of that port, for rules   *)
(* and listeners to refer to; GetBackendSets makes one backend set of each *)
(* port the service has, and names them too.                               *)
(*                                                                         *)
(* Names of different services differ and are left out.  The API server    *)
(* vouches for a service's ports: different names, no number twice with    *)
(* the same protocol.                                                      *)
(***************************************************************************)
EXTENDS Integers, Sequences, SequencesExt

CONSTANTS
    Unset,          \* no such annotation, no such address
    Invalid         \* annotation that cannot be read

\* A port of the service, and what an ingress names it by: its number, or its
\* name when the number is 0.
ServicePort ==
    [protocol : {"TCP", "UDP"}, port : Nat \ {0}, name : STRING, nodePort : Nat]
Backend == [number : Nat, name : STRING]
Valid(ports) ==
    \A j, k \in DOMAIN ports : j # k =>
        /\ ports[j].name # ports[k].name
        /\ ports[j].port # ports[k].port \/ ports[j].protocol # ports[k].protocol

\* What backend sets are made of: the service's ports, type, traffic policy and
\* annotations, the nodes' addresses in the order in which the map of nodes is
\* gone through (any), the ingress's annotation for the policy.
HealthField == {"retries", "interval", "timeout"}
Policies == {"ROUND_ROBIN", "LEAST_CONNECTIONS", "IP_HASH"}
IsCluster(c) ==
    /\ c.ports \in Seq(ServicePort) /\ Valid(c.ports)
    /\ c.order \in Seq(DOMAIN c.address) /\ ToSet(c.order) = DOMAIN c.address

-----------------------------------------------------------------------------
(* processBackendSpec *)

\* GetBackendSetName.  (Faulty variant: it leaves out the protocol.)
BackendSetNameNoProtocol(protocol, port) == <<port>>
BackendSetName(protocol, port) == <<protocol, port>>

\* The TCP port and its node port, -1 if there is none.  Once a port's name has
\* been found, its number is what is compared.
Consider(found, p, name) ==
    IF p.protocol # "TCP" \/ (IF found.port = 0 THEN p.name # name ELSE p.port # found.port)
    THEN found
    ELSE [port |-> p.port, nodePort |-> IF p.nodePort > 0 THEN p.nodePort ELSE found.nodePort]
Resolve(ports, backend) ==
    LET found[k \in 0..Len(ports)] ==
            IF k = 0 THEN [port |-> backend.number, nodePort |-> -1]
            ELSE Consider(found[k - 1], ports[k], backend.name)
    IN  found[Len(ports)]
Found(ports, backend) == Resolve(ports, backend).nodePort # -1
BackendSetOf(ports, backend) == BackendSetName("TCP", Resolve(ports, backend).port)

-----------------------------------------------------------------------------
(* GetBackendSets *)

\* getBackends: the nodes that have an internal address.
BackendOn(c, n, nodePort) == [ip |-> c.address[n], port |-> nodePort, weight |-> 1]
ReadyBackends(c, nodePort) ==
    LET backends[k \in 0..Len(c.order)] ==
            IF k = 0 THEN <<>>
            ELSE IF c.address[c.order[k]] = Unset THEN backends[k - 1]
            ELSE Append(backends[k - 1], BackendOn(c, c.order[k], nodePort))
    IN  backends[Len(c.order)]

\* getHealthChecker.  Kube-proxy's port tells that a node is there; the port of
\* the service, if it has one, that a pod is there, too.
Default == [retries |-> 3, interval |-> 10000, timeout |-> 3000]
KubeProxyPort == 10256
NeedsHealthCheck(c) == c.type = "LoadBalancer" /\ c.local
Setting(c, f) == IF c.annotations[f] = Unset THEN Default[f] ELSE c.annotations[f]
HealthChecker(c) ==
    [port |-> IF NeedsHealthCheck(c) /\ c.checkPort # 0 THEN c.checkPort ELSE KubeProxyPort,
     path |-> "/healthz", protocol |-> "HTTP", returnCode |-> 0,
     retries |-> Setting(c, "retries"), interval |-> Setting(c, "interval"),
     timeout |-> Setting(c, "timeout")]

\* getLoadBalancerPolicy
Policy(c) == IF c.policy = Unset THEN "ROUND_ROBIN" ELSE c.policy

\* There are backend sets: every annotation can be read.
Readable(c) ==
    c.policy \in Policies \cup {Unset} /\ \A f \in HealthField : c.annotations[f] # Invalid

\* setupBackendSetsForSpec, but for the dummy.  Of ports of the same name, the
\* last stays.
NameOf(c, k) == BackendSetName(c.ports[k].protocol, c.ports[k].port)
BackendSetDetails(c, k) ==
    [policy |-> Policy(c), backends |-> ReadyBackends(c, c.ports[k].nodePort),
     health |-> HealthChecker(c)]
BackendSets(c) ==
    [name \in {NameOf(c, k) : k \in DOMAIN c.ports} |->
        BackendSetDetails(c, CHOOSE k \in DOMAIN c.ports :
            /\ NameOf(c, k) = name
            /\ \A j \in DOMAIN c.ports : NameOf(c, j) = name => j <= k)]
=============================================================================
