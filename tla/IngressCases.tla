----------------------------- MODULE IngressCases -----------------------------
(***************************************************************************)
(* What an ingress, one of its paths, its annotations and a service behind *)
(* it come to, in the modules that say how the code works each of them     *)
(* out, and what has to be true of it, case by case.  Users edit the       *)
(* ingress and the service; nothing depends on two of the four.            *)
(***************************************************************************)
EXTENDS ResourceDiff, RoutingRules, Shape, BackendSets

CONSTANTS
    Ingresses, Paths, SomeAnnotations, Clusters,    \* the cases
    Requests,       \* paths of requests
    Asking,         \* how backends of ingresses name a port of the service
    Plain           \* the case of each that stays while another one changes

ASSUME CasesAssumption ==
    /\ Ingresses \subseteq Ingress /\ \A i \in Ingresses : IsFiniteSet(TLSHosts(i))
    /\ Paths \subseteq Path(Hosts)
    /\ SomeAnnotations \subseteq Annotations
    /\ \A c \in Clusters : IsCluster(c)
    /\ Requests \subseteq {r \in Seq(Characters) : r # <<>> /\ r[1] = Slash}
    /\ Asking \subseteq Backend
    /\ Plain.ing \in Ingresses /\ Plain.path \in Paths
    /\ Plain.annotations \in SomeAnnotations /\ Plain.cluster \in Clusters

VARIABLES
    ing,
    path,           \* one of its paths
    annotations,    \* those that ask for a shape
    cluster         \* one of its services, and the nodes
vars == <<ing, path, annotations, cluster>>

Init ==
    /\ ing \in Ingresses /\ path = Plain.path
    /\ annotations = Plain.annotations /\ cluster = Plain.cluster

Edit ==
    \/ \E d \in Services \cup {None} : ing' = [ing EXCEPT !.default = d]
    \/ ing' = [ing EXCEPT !.redirect = ~@]
    \/ \E h \in Hosts, c \in Certificates \cup {None} : ing' = [ing EXCEPT !.tls[h] = c]
    \/ \E n \in DOMAIN ing.rules, h \in Hosts \cup {NoHost} :
           ing' = [ing EXCEPT !.rules[n].host = h]
Next ==
    \/ /\ path = Plain.path /\ annotations = Plain.annotations /\ cluster = Plain.cluster
       /\ Edit /\ ing' \in Ingresses
       /\ UNCHANGED <<path, annotations, cluster>>
    \/ /\ ing = Plain.ing /\ path = Plain.path /\ annotations = Plain.annotations
       /\ cluster' \in Clusters
       /\ UNCHANGED <<ing, path, annotations>>
    \/ /\ ing = Plain.ing /\ annotations = Plain.annotations /\ cluster = Plain.cluster
       /\ path' \in IF path = Plain.path THEN Paths ELSE {Plain.path}
       /\ UNCHANGED <<ing, annotations, cluster>>
    \/ /\ ing = Plain.ing /\ path = Plain.path /\ cluster = Plain.cluster
       /\ annotations' \in IF annotations = Plain.annotations
                           THEN SomeAnnotations ELSE {Plain.annotations}
       /\ UNCHANGED <<ing, path, cluster>>

Spec == Init /\ [][Next]_vars

\* Whatever a listener or a routing policy refers to is part of the same spec
\* (spec.go:224-308, 437-450), except the hostnames of a redirector for hosts
\* with TLS that no rule mentions.
ReferencesResolve ==
    TLSHosts(ing) \subseteq RuleHosts(ing) \/ ~ing.redirect =>
        \A x \in SubResources(ing) :
            References(x, LBSpec(ing)[x]) \subseteq SubResources(ing)

\* A load balancer configured as specified does with a request what the ingress
\* says: it has one listener for it, which tries the backends of the host's
\* rules, of all of them, in order, then the default backend, or redirects
\* (spec.go:224-308, helpers.go:16-111).  A rule without a host is excepted.
RoutesAsAsked ==
    NoHost \notin RuleHosts(ing) =>
        \A port \in {80, 443}, h \in Hosts : Serves(LBSpec(ing), ing, port, h)

\* What a text with wildcards means: which first parts of the path, by their
\* lengths, the first i characters of it fit.
Fits(text, request) ==
    LET fits[i \in 0..Len(text)] ==
            IF i = 0 THEN {0}
            ELSE IF text[i] = Star
            THEN {j \in 0..Len(request) : \E k \in fits[i - 1] : k <= j}
            ELSE {j \in 1..Len(request) : text[i] = request[j] /\ j - 1 \in fits[i - 1]}
    IN  Len(request) \in fits[Len(text)]

\* Two cases in which the condition does not mean that: the texts before and
\* after a star overlap in the path; of several stars at an end, all but the
\* outermost are taken for characters.
Overlap(text, request) == InMiddle(text) /\ Len(request) < Len(text) - 1
Doubled(text) == \E k \in 2..Len(text) : {k - 1, k} \subseteq Stars(text)

Request(text, host, port, satisfies) ==
    [path |-> text, host |-> host, port |-> port, satisfies |-> satisfies]

\* A path is matched by the requests it describes (routing_rule.go:28-79,
\* 117-150): an exact one by itself, a prefix by everything below it, one with
\* wildcards by what it fits, but for the cases above; the default backend's
\* rule by everything.
PathsAsWritten ==
    \A text \in Requests, host \in Hosts :
        LET matched == Satisfies(Request(text, host, "", {}), RuleCondition(path))
            below == path.text = <<Slash>> \/ text = path.text
                        \/ IsPrefix(path.text \o <<Slash>>, text)
        IN  /\ Satisfies(Request(text, host, "", {}), DefaultCondition)
            /\ path.host \in Unnamed \cup {host} =>
                  /\ path.type = "Exact" => (matched <=> text = path.text)
                  /\ path.type = "Prefix" => (below => matched)
                  /\ path.type = "ImplementationSpecific" /\ Accepted(path.text)
                        /\ ~Overlap(path.text, text) /\ ~Doubled(path.text)
                        => (matched <=> Fits(path.text, text))

\* A rule never matches a request for another host or another port, nor one that
\* does not satisfy the user's condition, and it matches one for its host that
\* names no port (routing_rule.go:34-68, 81-115); "any", "not any" and "not all"
\* stand for themselves, without the host.  The ports of HTTP and HTTPS are left
\* to HostConditionAsTested.
HeaderPorts == {"", "8080"}
CustomHolds(satisfies) ==
    CASE path.quantifier \in {"none", "all"} -> path.predicates \subseteq satisfies
      [] path.quantifier = "any" -> path.predicates \cap satisfies # {}
      [] path.quantifier = "not any" -> path.predicates \cap satisfies = {}
      [] path.quantifier = "not all" -> ~(path.predicates \subseteq satisfies)
HostsAsWritten ==
    \A host \in Hosts, port \in HeaderPorts, satisfies \in SUBSET Predicates :
        LET text == IF path.type = "condition" THEN <<Slash>> ELSE path.text
            matched == Satisfies(Request(text, host, port, satisfies), RuleCondition(path))
            hostFits == (path.host = host /\ port = "") \/ path.host \in Unnamed
        IN  CASE path.type \in {"Exact", "Prefix"} -> matched <=> hostFits
              [] path.type = "ImplementationSpecific" ->
                    Accepted(path.text) => (matched => hostFits)
              [] OTHER ->
                    matched <=> /\ CustomHolds(satisfies)
                                /\ path.quantifier \in {"none", "all"} => hostFits

\* The condition on a host holds for the requests whose header names the host and
\* no port: "http.request.headers[(i 'Host')] eq (i 'foo')"
\* (routing_rule_test.go:72, of createHostnameCondition).
HostConditionAsTested ==
    path.host \notin Unnamed =>
        \A host \in Hosts, port \in {"", "80", "443"} :
            Satisfies(Request(<<Slash>>, host, port, {}), HostCondition(path.host))
                <=> host = path.host /\ port = ""

\* ShapeInBounds for the annotations at hand.
ShapesInBounds == ShapeInBounds(annotations)

\* The port of the service that a backend of an ingress stands for.
Meant(backend) ==
    {k \in DOMAIN cluster.ports :
        /\ cluster.ports[k].protocol = "TCP" /\ cluster.ports[k].nodePort > 0
        /\ IF backend.number = 0 THEN cluster.ports[k].name = backend.name
                                 ELSE cluster.ports[k].port = backend.number}

\* The backend set that rules and listeners refer to is one of those made, and
\* leads to the port the ingress means, on every node with an address; an
\* ingress with a backend that means no port is refused (spec.go:177-226,
\* load_balancer_spec.go:183-221).
BackendsAsMeant ==
    Readable(cluster) =>
        \A backend \in Asking :
            /\ Found(cluster.ports, backend) <=> Meant(backend) # {}
            /\ \A k \in Meant(backend) :
                   LET name == BackendSetOf(cluster.ports, backend)
                       nodes == {n \in DOMAIN cluster.address : cluster.address[n] # Unset}
                   IN  /\ name \in DOMAIN BackendSets(cluster)
                       /\ Addressed(BackendSets(cluster)[name].backends) =
                              {[ip |-> cluster.address[n], port |-> cluster.ports[k].nodePort] :
                                  n \in nodes}

\* What there is to a backend set, whatever the order of its nodes.
Substance(details) ==
    <<Addressed(details.backends), details.policy, details.health>>

\* A backend set is found changed when there is something to it that is new, and
\* never because of the order of a map or of what OCI filled in
\* (load_balancer_util.go:157-260; "it could cause unwanted change detection
\* during next reconciliation", spec.go:442).
BackendSetChangesSeen ==
    [][Readable(cluster) /\ Readable(cluster') =>
        LET old == BackendSets(cluster)
            new == BackendSets(cluster')
        IN  \A name \in DOMAIN old \cap DOMAIN new :
                BackendSetChanged(StoredBackendSet(old[name]), new[name])
                    <=> Substance(old[name]) # Substance(new[name])]_vars

\* A listener is found changed when the ingress asks for another one
\* (load_balancer_util.go:383-464, helpers.go:16-111): what IngressSpec tells
\* apart, the comparison tells apart, and nothing else.
ListenerChangesSeen ==
    [][\A n \in Listeners(ing) \cap Listeners(ing') :
            ToldRight(Listener(ing, n), Listener(ing', n))]_ing

\* "If a listener has no virtual hostname specified, that listener is the
\* default for the assigned port" (spec.go:276): there is at most one such
\* listener on a port.
OneDefaultListener ==
    \A x, y \in ListenerIds(LBSpec(ing)) :
        /\ LBSpec(ing)[x].hostnames = {} /\ LBSpec(ing)[y].hostnames = {}
        /\ LBSpec(ing)[x].port = LBSpec(ing)[y].port
        => x = y
=============================================================================
