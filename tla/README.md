# A TLA+ model of the OCI load balancer ingress controller

This directory holds TLA+ specifications of `oci-lb-ingress-controller`, TLC
configurations that check them on small instances, and proofs checked by TLAPS.
Paths below are those of the repository; `manager.go` is `src/manager/manager.go`,
`loadbalancer.go` the one of the cloud provider under `pkg/cloudprovider/providers/oci/`.

## The system

A Kubernetes controller that gives every Ingress of the class `oci` a load balancer
in Oracle's cloud (OCI). One process, one worker.

| Component | State | Operations | Talks to |
|---|---|---|---|
| Control loop: `src/controller/`, its handlers, `ingress/object.go` | informer caches, work queue (client-go) | events of ingresses, nodes and secrets to queue entries; `Reconcile`; retry or forget an error | API server (watch), manager |
| Manager: `src/manager/` | a mutex; per update an `ActionDispatcher` | `UpdateOrCreateIngress`, `DeleteIngress`, create, update, status | ingress spec, cloud provider, OCI client, API server |
| Ingress spec: `src/ingress/spec.go`, `helpers.go`, `routing_rule.go`, `sharable_helpers.go` | none | ingress, services, nodes, secrets to the wanted load balancer | informer cache (reads), OCI client (subnets) |
| TLS: `src/ingress/tls.go` | none | secret to certificate bundle, its digest | informer cache |
| Cloud provider: `loadbalancer.go`, `load_balancer_util.go` | none | compare, sort and carry out changes of backend sets, listeners, shape | OCI client |
| OCI client: `pkg/oci/client/` | token buckets, subnet cache | one API call each; wait for work requests; classify errors | OCI |
| Configuration, start-up, metadata, helpers | read once | flags and file to defaults | |

What is hard here:

* The object in the cache is not the one in the API server, nor the one the worker
  holds, nor the one on the load balancer; objects are deleted and created again under
  the same name.
* Most errors are turned into success (`ignoreNonRetriableError`) and only the resync
  of the informers, every ten hours, makes up for it. Nothing makes up for a lost deletion.
* The process dies at any point; a call may take effect and its answer be lost.
* An update is up to dozens of API calls, in an order that OCI enforces, the first pass
  of which may fail without anybody noticing (`manager.go:249-254`).
* The code for listeners comes from a controller for Services, with other names.

What makes each part correct:

* Control loop: no update and no deletion gets lost, other than by a forgotten error or
  something unwatched; a load balancer never goes back to an older version; it is
  deleted only when its ingress is gone; everything settles in the end.
* Spec: it refers to nothing it does not contain; requests get where the ingress says;
  a backend set leads to the port of the service that is meant.
* Update: at every moment a sub-resource is as it was or as it shall be, and goes from the
  one to the other once; success means that everything is done; half an update is completed
  by a later one. The comparison with what OCI has finds all differences, and only those.
* Rules and shape: a path matches the requests it describes, a rule no request for another
  host; a bandwidth is one that OCI has.
* OCI client: waiting for a work request ends, and never for want of a token; nobody
  disturbs a work request of its own making; caching never mixes up networks.
* Certificates: what a host shows after an update is what the update read; a certificate
  is never changed in place, since it cannot be.

## Modules

| Module | Models |
|---|---|
| `IngressLB` | abstract specification: what a user of the controller may rely on |
| `Controller` | the control loop, the manager call by call as far as a load balancer as a whole is concerned, crashes; refines `IngressLB` |
| `ControllerInv` | the inductive invariant of `Controller` |
| `ControllerProofs`, `VersionProofs`, `AccountProofs` | the proofs about `Controller`: its types; versions, and that it implements `IngressLB`; the accounts of what is pending |
| `IngressSpec` | `NewIngressLBSpec`, as a function from an ingress to sub-resources, and what a load balancer does with a request |
| `BackendSets` | the ports of a service, the name of a backend set, its backends and health check |
| `RoutingRules` | the conditions that `routing_rule.go` makes of paths, and what satisfies them |
| `Shape` | `getLBShape` and the comparison of shapes |
| `IngressCases` | an ingress, a path, a shape and a service while users edit them, and what is to be true of what the code makes of each |
| `IngressSpecProofs` | the proofs about `IngressSpec`, as functions of an ingress; the inductions |
| `IngressCasesProofs` | the proofs about `IngressCases` and the pure modules under it |
| `LBDiff` | comparison of a load balancer with its specification, order of the actions |
| `ResourceDiff` | the comparison of one backend set or listener, field by field |
| `LBUpdate` | `createLoadBalancer` and `updateLoadBalancer` call by call, on `IngressSpec` and `LBDiff`; refines `LBGradual` |
| `LBGradual` | abstract specification: what a user of a load balancer may rely on while it is updated |
| `LBUpdateProofs` | the proofs about `LBUpdate` |
| `Certificates`, `CertificatesProofs` | secrets, certificate names, certificates on the load balancer, and proofs about them |
| `OciClient`, `OciClientProofs` | token buckets, the subnet cache, the wait for work requests, and proofs about them |
| `MC*` | instances for TLC |

### Controller

An ingress is its incarnation (`uid`, the version that created it), its version (`gen`),
its class and the address in its status. Versions come from a clock that ticks at every
write. A write reaches `watch`, then (`Receive`) the cache and `notes`, then
(`IngressHandler`) the queue `dirty`. Nodes and secrets have no contents: `ChangeDependency` makes
what was built from them stale (`fresh` of a load balancer and of the spec the worker
holds) and leaves a note for the handler, which says nothing if listing the ingresses fails
(`handlers/node.go:51-53`); `ChangeUnwatched` is a change that no handler
looks at (`handlers/node.go:42-47`, `handlers/secret.go`, Services).

The worker's `pc` follows the code: `Reconcile` (`reconciller.go`), `BuildSpec` to
`UpdateStatus` (`manager.go:106-273`), `LookupToDelete` to `AwaitDelete`
(`manager.go:71-103`). Reading the cache may fail with an error that is not retriable
(`reconciller.go:46-50`), every call of OCI or the API server may fail, with an error that is retried or forgotten
(`Finish`, `controller/helpers.go`), and the creation and deletion calls may succeed with their answer
lost. OCI's lifecycle of a load balancer is external (`CreationEnds`, `DeletionEnds`).
`last`, `lost` and `silent` are history variables: how the last reconciliation of an
ingress ended, whose deletion reached no handler, who depends on something that changed
unwatched or unheard.

### IngressSpec

A sub-resource is a kind and a name; names derived from a host stand for it, since the
names of `ingress/helpers.go` are injective on hosts up to digests. The contents of a
listener, a backend set and a routing policy are what the properties need: ports,
hostnames, certificate, policy, rule sets; the number of backends; the backends a
policy's rules lead to. Shape, reserved address and "network" (internal or not) are
sub-resources as well, so that an update can meet changes of them. A reserved address for
an internal load balancer is no specification (`Buildable`). `Takes` and `Backends` say what a load balancer does with a
request, and `Asked` what the ingress wants, without mentioning listeners; `Serves` compares
the two, for the specification (`RoutesAsAsked`) and for a load balancer after an update
(`SuccessServes`).

### BackendSets and ResourceDiff

`NewIngressLBSpec` names the backend set that an ingress's backend refers to
(`processBackendSpec`, here `Resolve`); `GetBackendSets` makes one of each port of the
service, whether referred to or not, and names it by itself. `BackendsAsMeant` says that
the two agree, whatever the protocols, numbers, names and node ports of a service that the
API server accepts. The nodes come out of a Go map: `order` is any order of them.

`ResourceDiff` is what `LBDiff` calls "not equal". `StoredBackendSet` and `StoredListener`
say what OCI makes of what it is sent: it fills in the return code, the idle timeout and
the like, and returns backends in an order of its own. `BackendSetChangesSeen` and
`ListenerChangesSeen` compare the specification before a change, as OCI then has it, with
the one after it: the code finds them different just when they are, so `LBDiff` may
compare contents as a whole. Weights and cipher suites, which the code does not compare, are always the same.

### RoutingRules and Shape

Both are pure functions, like `IngressSpec`, `BackendSets` and `ResourceDiff`. `IngressCases` holds one argument
of each, an ingress, a path, the shape's annotations and a service with the nodes, edits them one at
a time, and states the properties of all five modules; the run `spec` is an instance of it. A path is a
sequence of characters of which only `*` and `/` mean something; a condition is a set of
predicates, all of which hold for a request that the rule matches (`Satisfies`, OCI's
meaning of `sw`, `ew`, `cw`, `eq`). `PathsAsWritten` compares the conditions with a direct
definition of wildcards (`Fits`) and excepts what the code gets wrong or leaves open:
the texts before and after a star may overlap in a request's path (`Overlap`), and of
several stars at an end all but one are taken for characters (`Doubled`). A prefix
matches text, not elements of a path as Kubernetes has it (`/ab` is matched by `/a`), so
only that nothing below it is missed is claimed. A condition `any(...)`, `not any(...)` or `not all(...)` of the
user's replaces the one on the host (the TODO in `routing_rule.go:54`).

The header of a request may name a port after the host. `createHostnameCondition` accepts
none, 443 and 80; its test (`routing_rule_test.go:72`, and the conditions in lines 96-103)
expects the bare host, so the test fails on this code. Which of them is meant is not
settled here: `HostsAsWritten` speaks of headers without a port and with one of no scheme,
where the two agree, and the run `host_header` shows where they do not.

In `Shape`, bandwidths are integers or absent or garbage; a fixed shape is a name.

### OciClient

The client as the only worker uses it. `reads` and `writes` are the tokens left, `Tick` adds
`PerTick` to both up to `Bucket`; a call without a token fails at once ("limited"). `pc`
goes through a reconciliation: discovery of the subnet (`tryFindLoadbalancerSubnet`, when
none is configured), `GetLoadBalancerByName` page by page, then any sequence of reads and
writes. A write starts a work request, and is refused while another one of the load
balancer runs ("conflict"). The worker then waits (`AwaitWorkRequest`), polling after
every `PollTicks`, or does not (`ChangeUnawaited`: shape, network security groups). An
answer may be lost, with and without effect. After an error the update ends or, as its
first pass does, goes on. `left` is history: nobody waits for the running request,
because its call is not awaited, its answer was lost or its wait failed.

`cache` maps a subnet's key to the subnet stored under it. `ListSubnets` stores the
address of its loop variable, so all keys of the list get the last subnet (`go.mod` asks
for Go 1.18). `GetSubnet` may hence return another subnet of the same network, and
`FoundIsOwn` says that this does no harm, because only the network of the result is
used. An update reads its subnets once more in each pass (`GetSubnets`). An error of
`GetSubnet` in the discovery is a nil pointer in `spec.go:372`: the process restarts with
full buckets and an empty cache. A list of subnets fits on one page.

### LBDiff and LBUpdate

`oci` is the load balancer, a function from sub-resources to contents. `phase` follows
`updateLoadBalancer`: first pass of the cloud provider's `UpdateLoadBalancer`, re-read,
creations, policy updates, second pass, updates, deletions. `todo` is what the phase has
left; `Run(a)` carries one action out, lets OCI refuse it, lets it fail before or after
it took effect. A listener is created without its rule sets (`Bare`), so for want of them OCI
cannot refuse it. A change of shape is not awaited (`loadbalancer.go:838-845`): the call leaves
`reshaping` behind, and `ReshapeEnds` makes it true at any later moment, perhaps in another
update, or lets it fail. Whether it may be changed at all is judged by the load balancer as
the pass has read it. The comparison of policies, rule sets, hostnames and certificates is
made before the first pass and never again (`seen`), that of backend sets, listeners and
shape before each pass, on the load balancer as then read (`reread`). Listeners are
matched by sanitized names (`Sanitized`, a constant). A load balancer with another
reserved address makes both passes fail at their start (`AddressFits`), of which only the
second is noticed; that it is internal is never looked at (`Updatable`).

`LBGradual` forgets the phases: an update has one goal, and each of its steps makes one
sub-resource what it is in the goal, or what `CreateListener` makes of it (`Forms`), or
gives up. `Gradual` is that specification, with the load balancer and the wanted one for
its variables, both without the shape. The shape is left out of `NothingInBetween`,
`NeverUndone` and `SuccessMeansDone` as well: a change begun by one update can arrive in
the next, which wants another, and an update may report success before it arrives. That it is as
the ingress says in the end is part of `EventuallyAsSpecified`.

Two properties say what all this means to a request. `SuccessServes`: after an update that
reports success, the request is taken by one listener and tries what the ingress asks for, in
order, unless the listener still lacks its rule sets. It does if it was created in the second
pass, since the second pass completes what the first one created: a redirector for hosts
that had names before is created bare in the first pass, found without its rule set in the second
one and updated; a redirector that names a new host waits until the names are created, between
the passes, and stays bare (the run `redirect`) until the next reconciliation. `Undisturbed`: while
the update is at work, a request that the same listener takes before and after it is taken by
it all along, and tries the same backends if it did before and shall after. That is
not obvious, for a listener and its policy are changed in different phases, the listener first:
it holds because the policy is named after the host, not after its contents, so an update that leaves
the rules alone leaves the policy alone. What a crashed update has left is
covered: "before" is what the update found. Excepted is a listener that gets its policy only
now, as all of a new load balancer's do.

OCI refuses what refers to something missing, and the deletion of what a listener refers
to; both follow from the code's own workarounds. Whether a policy keeps its backend sets
from being deleted cannot be told from the code, so both are checked (`pins`).

### Certificates

A secret has two lists of certificates. The name of a certificate is the secret's and a
digest, which stands for what is digested: the leaf's and the chain's signatures. What
is compared is the text of `tls.crt` and of `ca.crt`, here the lists. Each host's entry
reads its secret by itself, and secrets change between the reads. The process panics at
a malformed `tls.crt` (`tls.go:131`) and at a changed certificate (`manager.go:446-449`).

## What TLC checks

| Run | Module, instance | Shows |
|---|---|---|
| `one` | Controller, 1 ingress, 3 writes, 1 fault, fairness | `TypeOK`, `ServedOrAccounted`, `GoneOrAccounted`; `Inv`, the invariant behind the proofs; `Promised`: it implements `IngressLB`; `EventuallyServed`, `EventuallyGone` |
| `two` | Controller, 2 ingresses, one uses the secret, 3 writes | `ServedOrAccounted` with a shared worker and handlers that fan out |
| `spec` | IngressCases, all ingresses of 2 hosts, 2 services, 1 certificate, up to 2 rules | `ReferencesResolve`, `RoutesAsAsked`; for all paths of up to 5 characters `PathsAsWritten`, `HostsAsWritten`; for all annotations `ShapesInBounds`; for services of up to two ports and two nodes `BackendsAsMeant`; for each change of one ingress or service `BackendSetChangesSeen`, `ListenerChangesSeen` |
| `update` | LBUpdate, 12 ingresses, 2 changes, 1 fault, fairness | `NothingInBetween`, `NeverUndone`, `SuccessMeansDone`, `EventuallyAsSpecified`; of requests, `SuccessServes` and `Undisturbed`; `Gradual`: it implements `LBGradual` |
| `certificates` | 2 hosts, 2 secrets, 6 contents, 2 changes, 1 fault, fairness | `SuccessMeansShown`, `EventuallyShown` |
| `client` | OciClient, 3 subnets of 2 networks, buckets of 3, 2 faults, fairness | `TypeOK`, `RunningIsAwaited`, `FoundIsOwn`, `WaitNeverLimited`, `WaitEnds` |

Six runs find the code in disagreement with what it says of itself:

| Run | Disagreement |
|---|---|
| `default_listener` | A rule without host gives a second listener without hostname on port 80 (`spec.go:276`, `spec.go:299`). |
| `twice` | `action.do` has a value receiver: finished actions are run again, policy updates in every update (`actions.go:24-30`, `manager.go:260,266`). |
| `redirect` | `CreateListener` drops the rule sets, so a redirector first created in the second pass, for a host that is new, does not redirect when the update reports success (`pkg/oci/client/loadbalancer.go:290`, `main.go:47`). |
| `host_header` | The condition on a host accepts `host:443` and `host:80` too, its test expects the host alone (`routing_rule.go:113`, `routing_rule_test.go:72`). |
| `collide` | Listeners of hosts like `my-app-one.example.com` and `my-app-two.example.com` are taken for each other (`load_balancer_util.go:559`). |
| `clash` | A chain moved between `tls.crt` and `ca.crt` changes a certificate but not its name, and every reconciliation panics (`tls.go:35`, `manager.go:448`). |

Every property of a passing run has a faulty variant of a modelled operator, next to the
operator in its module, with which the same run fails.

### Bounds

* Writes (`MaxEdits`): three cover creation, change and deletion, or deletion
  and a second incarnation, of one ingress, each at any moment of a reconciliation; with two
  ingresses, a write for each and a dependency's change.
* Faults (`MaxFaults`): one, to leave something half done. A crash is a fault. In `one`, a second
  fault to hit the repair was checked too, without fairness, and the theorems are about any number. In `LBUpdate` and `Certificates` calls that OCI refuses fail
  without being counted, so that a repair meets failures as well.
* `IngressSpec`: two rules, so that they may have the same or different hosts;
  two paths per rule, so that order matters; one default backend.
* `LBUpdate`: one ingress for each kind of change, among them a reserved address together
  with a route, and an internal load balancer; two changes, so that an update to a
  third ingress starts from what a failed update from the first to the second left. (Two faults
  were checked as well, for the safety properties.)
* `RoutingRules`: five characters allow for a slash, two stars and two letters; a
  path, a shape's annotations, a service and an ingress are varied one at a time, since nothing depends on two of them.
* `BackendSets`: two ports may have the same number (TCP and UDP), one of them may have no node port or be
  asked for by name, two nodes come in either order, with and without an address.
* `Shape`: OCI's range is 2..5 in the run, annotations -1..7; the proof is for all ranges.
* `OciClient`: a bucket of three empties within a lookup and two reads, and a poll comes
  every two ticks; two faults, so that a lost answer meets a failing wait; the worker reconciles
  again and again without a bound. (In the code: 5 tokens, 20 per second, a poll every 5
  seconds.)
* `Certificates`: a renewed leaf, another CA, the chain in either place or none, no
  certificate; two hosts that share a secret or not.

The runs on `Controller` do not check for deadlock: with writes and faults used up and everything
settled, the model stops, as the system rests. Everywhere else it is checked.

### Fairness

In `Controller`: goroutines of informers and handlers get to run; a delay of the queue
ends; the worker goes on; OCI ends a work request; Kubernetes restarts the pod; the
informer resyncs (`SyncPeriod`, ten hours by default). `Take` is strongly fair, because
the queue is first-in first-out: a name in it has its turn, although the worker, busy with
others, disables `Take` again and again. Faults and writes are bounded, not fair: the
liveness properties speak of the time after them. In `LBUpdate` and `Certificates` the
worker goes on and the resync brings it back; in `LBUpdate`, OCI ends a change of shape. In
`OciClient` time passes, work requests
end and a poll that is due is made; nothing else is fair, the worker may rest between
two calls for ever.

What the liveness properties except is what the code cannot do, and is listed in the
definitions: a FAILED load balancer; deletions forgotten; a flexible shape made fixed
again; a reserved address changed or wanted for an internal load balancer; a redirector for
a host no rule mentions; `PinnedForever`; certificates that
are `Stuck`.

## What is proved

Every safety invariant and every action property that a passing run checks, for all values
of the constants and all bounds, and both refinements. `tlapm` checks every proof to
the last leaf.

| Theorem | States |
|---|---|
| `ControllerProofs!TypeCorrect` | `Spec => []TypeOK` |
| `VersionProofs!PromiseKept` | `Spec => Promised`: the loop implements `IngressLB` |
| `AccountProofs!AccountInvariant` | `Spec => []Inv` |
| `AccountProofs!ServedCorrect` | `Spec => []ServedOrAccounted` |
| `AccountProofs!GoneCorrect` | `Spec => []GoneOrAccounted` |
| `IngressSpecProofs!PolicyIsAsAsked` | a host's policy is the host's rules and the default backend, in order |
| `IngressCasesProofs!SpecificationsResolve` | `Spec => []ReferencesResolve` |
| `IngressCasesProofs!RequestsGoAsAsked` | `Spec => []RoutesAsAsked` |
| `IngressCasesProofs!ListenerChangesAreSeen` | `Spec => ListenerChangesSeen` |
| `IngressCasesProofs!BackendSetChangesAreSeen` | `Spec => BackendSetChangesSeen` |
| `IngressCasesProofs!BackendsMeanWhatTheySay` | `Spec => []BackendsAsMeant` |
| `IngressCasesProofs!PathsMatchAsWritten` | `Spec => []PathsAsWritten` |
| `IngressCasesProofs!RulesKeepToTheirHosts` | `Spec => []HostsAsWritten` |
| `IngressCasesProofs!ShapesStayInBounds` | `Spec => []ShapesInBounds` |
| `LBUpdateProofs!UpdateLeavesNothingInBetween` | `ToldApart => (Spec => []NothingInBetween)` |
| `LBUpdateProofs!SuccessIsComplete` | `ToldApart => (Spec => []SuccessMeansDone)` |
| `LBUpdateProofs!SuccessServesRequests` | `ToldApart => (Spec => []SuccessServes)` |
| `LBUpdateProofs!UpdateDisturbsNothing` | `ToldApart => (Spec => []Undisturbed)` |
| `LBUpdateProofs!UpdateUndoesNothing` | `ToldApart => (Spec => NeverUndone)` |
| `LBUpdateProofs!UpdateIsGradual` | `ToldApart => (Spec => Gradual)`: an update implements `LBGradual` |
| `CertificatesProofs!SuccessIsShown` | `Spec => []SuccessMeansShown` |
| `OciClientProofs!ClientTypeCorrect` | `Spec => []TypeOK` |
| `OciClientProofs!WaitsAreNotLimited` | `Spec => WaitNeverLimited` |
| `OciClientProofs!RunningRequestsAreAwaited` | `Spec => []RunningIsAwaited` |
| `OciClientProofs!DiscoveryFindsOwn` | `Spec => []FoundIsOwn` |

### Assumptions

On the constants, each named in the module that declares them and evaluated by TLC in
the runs:

* `NamesAssumption`, `DefaultListenerAssumption`, `RedirectorAssumption` (`IngressSpec`): "none" and
  "no host" are no hosts, services, certificates or addresses, and no host's listener has
  the name of the redirector or of a default listener (`GetListenerName` adds port and protocol).
* `NoneAssumption` (`ResourceDiff`): "none" is no Boolean. `CharactersAssumption`
  (`RoutingRules`): star and slash are two characters. `ShapeAssumption` (`Shape`): OCI's range is
  not empty, and neither a shape's name nor a number is mistaken for an absent annotation.
* `CasesAssumption` (`IngressCases`), `IngressesAssumption` (`LBUpdate`): the cases are
  ingresses, paths, annotations and services as the API server accepts them, with finitely many TLS
  entries. Any rules, any number of them.
* The rest are bounds (`MaxEdits`, `MaxFaults`: any natural number) and, in `OciClient`, buckets and
  ticks that are not zero.

`ToldApart`, the hypothesis of the theorems about updates, says that the listeners of all
ingresses at hand have different sanitized names; the run `collide` shows why, and TLC
checks the same properties under it in `update`, whose names are distinct.

### The control loop

Of `Controller`, neither property is inductive. "Quiet implies configured" says nothing of the moments
when something is on its way, so the invariant follows a version along its path: API
server, watch, cache, worker, load balancer.

* `VersionInv` (`VersionProofs`): what an event stream says last is what its source
  holds (`Streams`); everything carries versions that were written (`Stamps`); versions
  grow from the load balancer to the API server and leap over incarnations that ended
  (`Versions`). It is inductive by itself, and the refinement follows: a step of the
  worker that provisions uses a version at least as new as the load balancer's, one that
  tears down finds the incarnation gone.
* `Inv` (`AccountProofs`): in addition, the worker acts on what the cache holds, or the
  name is queued again (`Work`); what it has done so far (`Progress`); and the two
  properties for an ingress that nothing mentions (`Served`, `Gone`).

The proof that a step keeps an invariant has one case per action. `TypeOK` is proved
first and used in both layers.

### What is specified

The state of `IngressCases` is the argument of the functions, so its type, which every edit keeps, is
the whole invariant, and the work is in lemmas about the functions for all arguments.
They are folds over rules, ports and nodes, written as recursive functions on `0..n`. The
library's induction theorems cannot be used (they take an operator), so an induction is a set of
numbers that contains zero and the successor of each of its members; `Recursion` says
that such a function satisfies its equation.

* Requests (`SpecificationServes`, `SpecificationResolves`): the merge of the rules of a
  host, whatever comes between them, is their concatenation (`PolicyIsAsAsked`), and a policy
  holds services that the ingress uses; then by cases on which listener takes the request.
* Ports: after the first `k` ports, `Consider` holds the port that the backend means if it is
  one of them, and the backend's number otherwise; the last TCP port of a number is the only one.
  Backends, by induction over the nodes, are those with an address.
* Paths: `fits[i]` of the definition of wildcards is a single length up to the star and
  everything from there on after it, which is what the one or two conditions of the code say.
* Comparisons: the list that a finite set of hostnames is sent as gives back the set
  (`SameList`), and each field is told by a field of what is sent (`ComparisonIsExact`),
  defaults that OCI fills in not among them. The shape's theorem is a case analysis on
  `Clamp` and `Upper`.

### An update

`IInv` of `LBUpdateProofs` says of an update how far each sub-resource has come, which none of
its properties does: `Planned`, every action still to be done is about a sub-resource of its
own name, and deletes it just when it is not specified; `PhaseOf(x)`, the phase that sees to
`x`; and `Accounted`, once that phase has come (`Reached`), `x` is as specified or an action
for it is still in `todo`, the shape aside. So at the end everything is as specified. The lemmas beneath it
say what `Creates`, `Updates`, `Deletes` and `ListenerActions` are about and what a call
changes (`EffectOfCall`); the refinement is that lemma read in the terms of `LBGradual`. Where
`ToldApart` comes in: the winner among listeners of the same sanitized name is the listener itself.

`SuccessServes` joins this with `SpecificationServes`: at the end the load balancer is the
specification but for rule sets and what the code never touches, and `Serves` does not see the
difference. `Undisturbed` needs more than `NothingInBetween`, which compares sub-resources one by one:
`RoutingInv` adds, of the load balancer and of what the update found alike, that listeners
have their fields, that those without hostnames have the name of one that shall have none, that the
policy a listener names is there, and that policies are sequences of services (`Routing`); and that
what is there before and after is there all along (`Kept`).

### Certificates and the client

`IInv` of `CertificatesProofs` adds to the property that a name says what is shown under
it (`Named`), whoever read the secret and when: two hosts that see different contents
of a secret take different names for them.

`ClientInv` (`OciClientProofs`) adds to the properties of `OciClient` that a wait which
is more than no tick old has a token (`TokenForPoll`; a tick brings one, and the worker
reads nothing while it waits), that a cached subnet is one of its key's network (`CacheKeepsVcn`)
and that a list has subnets of the instance's network only (`ListOwnVcn`).

### Only model-checked

Liveness (`EventuallyServed`, `EventuallyGone`, `EventuallyAsSpecified`, `EventuallyShown`,
`WaitEnds`), which under fairness is out of the prover's reach, and whether a certificate
is ever to be updated (`NothingToUpdate`) and the other disagreements, which are counterexamples.

## Not modelled

* Security lists (`load_balancer_security_lists.go`): the ingress spec uses the NOOP
  manager (`spec.go:335`), and nothing in the repository calls the others, so there is no
  state of the program to start from. `load_balancer_spec.go`, but for `GetBackendSets`,
  `GetLoadBalancerIP` and `IsInternalLB`: for Services, not called. Most of
  `loadbalancer.go` is commented out.
* Network security groups: never set by the ingress spec. Subnets of nodes
  (`getSubnetsForNodes`): the ingress spec names no nodes to it.
* The look-ups of Services and of the subnets that annotations name, before an update: one
  that fails ends the update before it changed anything.
* The digest that names a routing rule, what `url.Parse` decodes, PEM and SAN parsing, log texts.
* The attempts of the SDK's retry policy one by one: they take time, but no tokens.
* A second worker: `controller.go:53` asks for one, `DeleteIngress` takes no mutex.
* Configuration, metadata: read once, no behaviour of their own.

## Plan

Done: 1. `Controller` with `IngressLB` and proofs; 2. `IngressSpec`, `LBDiff`,
`LBUpdate`; 3. `Certificates`; 4. `RoutingRules`; 5. `Shape`; 6. `OciClient`
with proofs; 7. `ResourceDiff` and `BackendSets`; 8. `LBGradual`, implemented by `LBUpdate`;
9. proofs about `LBUpdate` and `Certificates`; 10. `IngressCases` and proofs about everything the
specification of an ingress is made of; 11. requests during and after an update.

Left: the `updating` phase of `Controller`, which says of an update only that it is under way,
finished or broken off, as an implementation of `LBGradual`; the same update with the tokens
of `OciClient`, where it can now fail anywhere. The classes of errors (`errors.go`) would add
nothing to either: every call can fail with one that is retried and with one that is not.
