------------------------------ MODULE LBUpdate ------------------------------
(***************************************************************************)
(* How lbManager brings one load balancer to what an ingress specifies, by *)
(* one API call after the other: createLoadBalancer, updateLoadBalancer    *)
(* (with its ActionDispatcher) and UpdateLoadBalancer of the cloud         *)
(* provider, which it calls twice.  The ingress changes meanwhile; calls   *)
(* fail, before or after they took effect, and the process may die.        *)
(*                                                                         *)
(* OCI is external: it refuses to let a sub-resource refer to one that is  *)
(* not there (the workaround of manager.go:189-192 and the FIXME of        *)
(* manager.go:249 exist because of that) and to delete one that a listener *)
(* refers to (the TODO of manager.go:429, sortAndCombineActions).  Whether *)
(* a routing policy pins its backend sets too, the code does not tell.     *)
(***************************************************************************)
EXTENDS IngressSpec, LBDiff

CONSTANTS
    Ingresses,      \* the ingress as it is from time to time
    MaxEdits,       \* bound: changes of the ingress
    MaxFaults       \* bound: failed calls and crashes

ASSUME IngressesAssumption == Ingresses \subseteq Ingress
ASSUME LimitsAssumption == MaxEdits \in Nat /\ MaxFaults \in Nat

VARIABLES
    ing,            \* the ingress
    edits,          \* how often it has changed
    faults,         \* how many calls have failed, and crashes
    pins,           \* OCI refuses to delete a backend set a policy refers to
    oci,            \* the load balancer; no sub-resources: there is none
    reshaping,      \* the shape that OCI is changing it to, or None
    spec,           \* what the running update makes of it
    seen,           \* the load balancer as the update found it
    reread,         \* the load balancer as read after the first pass
    phase,          \* where the update is
    todo,           \* actions of this phase not done yet
    ran             \* history: actions the ActionDispatcher has run

envVars == <<ing, edits, pins>>
vars == <<envVars, faults, oci, reshaping, spec, seen, reread, phase, todo, ran>>

None0 == [x \in {} |-> x]

Phase == {"idle", "pass1", "reread", "create", "updatePolicies", "pass2",
          "update", "delete", "done"}
Dispatched == {"policy", "ruleSet", "hostname", "certificate"}
DispatcherPhases == {"create", "updatePolicies", "update", "delete"}

Init ==
    /\ ing \in Ingresses /\ edits = 0 /\ faults = 0 /\ pins \in BOOLEAN
    /\ oci = None0 /\ reshaping = None
    /\ spec = None0 /\ seen = None0 /\ reread = None0
    /\ phase = "idle" /\ todo = {} /\ ran = {}

-----------------------------------------------------------------------------
(* OCI *)

\* lb with sub-resource x created or updated, or deleted.
With(lb, x, contents) == [y \in DOMAIN lb \cup {x} |-> IF y = x THEN contents ELSE lb[y]]
Without(lb, x) == [y \in DOMAIN lb \ {x} |-> lb[y]]

\* The sub-resources y refers to that may not be deleted meanwhile.
Pins(lb, y) == IF y[1] = "policy" /\ ~pins THEN {} ELSE References(y, lb[y])

\* The call as the client makes it: CreateListener does not pass rule sets on.
\* (Faulty variants: it does not pass the certificate on either; UpdateListener
\* does not pass the routing policy on.)
BareNoCertificate(x) ==
    IF x[1] = "listener" THEN [spec[x] EXCEPT !.ruleSets = {}, !.certificate = None]
                         ELSE spec[x]
Bare(x) == IF x[1] = "listener" THEN [spec[x] EXCEPT !.ruleSets = {}] ELSE spec[x]

Permits(lb, a) ==
    CASE a.verb = "create" -> a.id \notin DOMAIN lb /\ References(a.id, Bare(a.as)) \subseteq DOMAIN lb
      [] a.verb = "update" -> a.id \in DOMAIN lb /\ References(a.id, spec[a.as]) \subseteq DOMAIN lb
      [] a.verb = "delete" -> a.id \in DOMAIN lb /\ \A y \in DOMAIN lb : a.id \notin Pins(lb, y)

EffectNoPolicy(lb, a) ==
    CASE a.verb = "create" -> With(lb, a.id, Bare(a.as))
      [] a.verb = "update" ->
            With(lb, a.id, IF a.id[1] = "listener" THEN [spec[a.as] EXCEPT !.policy = None]
                                                   ELSE spec[a.as])
      [] a.verb = "delete" -> Without(lb, a.id)
Effect(lb, a) ==
    CASE a.verb = "create" -> With(lb, a.id, Bare(a.as))
      [] a.verb = "update" -> With(lb, a.id, spec[a.as])
      [] a.verb = "delete" -> Without(lb, a.id)

\* updateLoadbalancerShape gives up on its own: no way back from flexible.
Possible(lb, a) == ~(a.id[1] = "shape" /\ lb[a.id] = "flexible" /\ spec[a.as] = "fixed")

\* What OCI has done of an accepted call when the update goes on: all of it, but
\* updateLoadbalancerShape does not wait for its work request.
Accepted(a) ==
    \/ a.id[1] = "shape" /\ reshaping' = spec[a.as] /\ UNCHANGED oci
    \/ a.id[1] # "shape" /\ oci' = Effect(oci, a) /\ UNCHANGED reshaping

-----------------------------------------------------------------------------
(* The ingress and the process *)

\* An update works on the ingress it was called with; a change in the meantime
\* is seen by the next update only, and may as well come between the two.
EditIngress ==
    /\ phase = "idle" /\ edits < MaxEdits
    /\ edits' = edits + 1
    /\ ing' \in Ingresses \ {ing}
    /\ UNCHANGED <<pins, faults, oci, reshaping, spec, seen, reread, phase, todo, ran>>

Fault == faults < MaxFaults /\ faults' = faults + 1

\* The update is over; what it knew is forgotten.
Forget ==
    /\ phase' = "idle" /\ todo' = {} /\ ran' = {}
    /\ spec' = None0 /\ seen' = None0 /\ reread' = None0

Crash ==
    /\ phase # "idle"
    /\ Fault /\ Forget
    /\ UNCHANGED <<envVars, oci, reshaping>>

\* The work request of the shape ends, perhaps in an update that found the old
\* shape, or of an ingress that has got another one since; or it fails.
ReshapeEnds ==
    /\ reshaping # None /\ reshaping' = None
    /\ \/ oci' = With(oci, <<"shape", "shape">>, reshaping) /\ UNCHANGED faults
       \/ Fault /\ UNCHANGED oci
    /\ UNCHANGED <<envVars, spec, seen, reread, phase, todo, ran>>

\* UpdateOrCreateIngress has looked the load balancer up: lb.  The first pass
\* ends at once, and nobody notices, if the address is another.
Begin(lb) ==
    /\ spec' = LBSpec(ing) /\ seen' = lb
    /\ IF AddressFits(lb, LBSpec(ing))
       THEN phase' = "pass1" /\ todo' \in Passes(lb, LBSpec(ing))
       ELSE phase' = "reread" /\ todo' = {}
    /\ UNCHANGED <<envVars, faults, reshaping, reread, ran>>

\* createLoadBalancer: all but the routing policies, which are taken off the
\* listeners; the update follows.
Created(s) ==
    [x \in {y \in DOMAIN s : y[1] # "policy"} |->
        IF x[1] = "listener" THEN [s[x] EXCEPT !.policy = None] ELSE s[x]]
Complete(lb) == \A x \in DOMAIN lb : References(x, lb[x]) \subseteq DOMAIN lb
CreateLoadBalancer ==
    /\ phase = "idle" /\ oci = None0 /\ Buildable(ing)
    /\ \/ /\ Complete(Created(LBSpec(ing)))
          /\ oci' = Created(LBSpec(ing))
          /\ \/ Begin(oci')
             \/ Fault /\ Forget /\ UNCHANGED <<envVars, reshaping>>     \* awaiting it fails
       \/ /\ ~Complete(Created(LBSpec(ing)))           \* refused
          /\ UNCHANGED vars

\* NewIngressLBSpec fails, before anything is looked up.
NoSpecification == phase = "idle" /\ ~Buildable(ing) /\ UNCHANGED vars

BeginUpdate ==
    /\ phase = "idle" /\ oci # None0 /\ Buildable(ing)
    /\ Begin(oci)
    /\ UNCHANGED oci

-----------------------------------------------------------------------------
(* updateLoadBalancer *)

\* The phase is over after an error: the first pass hides it.  (Faulty variant:
\* so does the second.)
AbortHidden ==
    \/ /\ phase \in {"pass1", "pass2"} /\ todo' = {}
       /\ phase' = IF phase = "pass1" THEN "reread" ELSE phase
       /\ UNCHANGED <<spec, seen, reread, ran>>
    \/ phase \notin {"pass1", "pass2"} /\ Forget
Abort ==
    \/ /\ phase = "pass1" /\ phase' = "reread" /\ todo' = {}
       /\ UNCHANGED <<spec, seen, reread, ran>>
    \/ phase # "pass1" /\ Forget

\* One action, of those that come first: the call and the wait for its work
\* request, either of which may fail (also because OCI changes the shape
\* meanwhile).  Whether a change of shape is possible is judged by what the pass
\* has read.
Succeed(a) ==
    /\ todo' = todo \ {a}
    /\ ran' = IF a.id[1] \in Dispatched THEN ran \cup {a} ELSE ran
    /\ UNCHANGED <<spec, seen, reread, phase, faults>>
Run(a) ==
    LET legal == Possible(IF phase = "pass1" THEN seen ELSE reread, a) /\ Permits(oci, a) IN
    /\ \A b \in todo : Rank(a) <= Rank(b)
    /\ \/ legal /\ Accepted(a) /\ (Succeed(a) \/ (Fault /\ Abort))
       \/ Fault /\ Abort /\ UNCHANGED <<oci, reshaping>>
       \/ ~legal /\ Abort /\ UNCHANGED <<oci, reshaping, faults>>
    /\ UNCHANGED envVars

Goto(p, actions) ==
    /\ phase' = p /\ todo' = actions
    /\ UNCHANGED <<envVars, oci, reshaping, spec, seen, ran>>

\* The actions the dispatcher has of a verb: a finished one stays.
QueuedCreates == UNION {Creates(seen, spec, k) : k \in Dispatched}
QueuedUpdates(kinds) == UNION {Updates(seen, spec, k) : k \in kinds}
QueuedDeletes == UNION {Deletes(seen, spec, k) : k \in Dispatched}

\* GetLoadBalancer between the passes; its error is ignored as well.
Reread ==
    /\ phase = "reread"
    /\ (reread' = oci /\ UNCHANGED faults) \/ (reread' = None0 /\ Fault)
    /\ Goto("create", QueuedCreates)

\* On to the next phase.
Proceed(from, to, actions) ==
    phase = from /\ todo = {} /\ Goto(to, actions) /\ UNCHANGED <<reread, faults>>
FirstPassOver == Proceed("pass1", "reread", {})
CreatesOver == Proceed("create", "updatePolicies", QueuedUpdates({"policy"}))
\* UpdateLoadBalancer dereferences what was read: the process dies if nothing.
\* Another address is an error now.
PoliciesOver ==
    IF reread = None0 \/ ~AddressFits(reread, spec)
    THEN phase = "updatePolicies" /\ todo = {} /\ Forget
         /\ UNCHANGED <<envVars, faults, oci, reshaping>>
    ELSE \E actions \in Passes(reread, spec) : Proceed("updatePolicies", "pass2", actions)
SecondPassOver == Proceed("pass2", "update", QueuedUpdates({"policy", "ruleSet"}))
UpdatesOver == Proceed("update", "delete", QueuedDeletes)
DeletesOver == Proceed("delete", "done", {})
Return == phase = "done" /\ Forget /\ UNCHANGED <<envVars, faults, oci, reshaping>>

Step ==
    \/ NoSpecification \/ CreateLoadBalancer \/ BeginUpdate
    \/ \E a \in todo : Run(a)
    \/ Reread
    \/ FirstPassOver \/ CreatesOver \/ PoliciesOver \/ SecondPassOver
    \/ UpdatesOver \/ DeletesOver \/ Return

Next == EditIngress \/ Crash \/ ReshapeEnds \/ Step

Spec == Init /\ [][Next]_vars

\* The worker goes on; the resync brings the ingress back to it; OCI ends what it
\* has begun.
FairSpec == Spec /\ WF_vars(Step) /\ WF_vars(ReshapeEnds)

-----------------------------------------------------------------------------
(* Properties *)

At(lb, x) == IF x \in DOMAIN lb THEN {lb[x]} ELSE {}

\* x as it shall be, or as CreateListener leaves it, without its rule sets.
AsSpecified(x) == At(oci, x) = At(spec, x) \/ (x \in DOMAIN spec /\ At(oci, x) = {Bare(x)})

\* The load balancer but for its shape, which an earlier update may have changed.
Settled(lb) == [x \in {y \in DOMAIN lb : y[1] # "shape"} |-> lb[x]]

\* During an update, whatever fails, every sub-resource is as it was or as it
\* shall be: nothing that is in both is ever missing, so no host loses its
\* listener (manager.go:240-273, loadbalancer.go:480-580).  The shape is not a
\* matter of the update alone: a change that nobody waited for may arrive.
NothingInBetween ==
    phase # "idle" =>
        \A x \in DOMAIN seen \cup DOMAIN spec \cup DOMAIN oci :
            x[1] # "shape" => At(oci, x) = At(seen, x) \/ AsSpecified(x)

\* An update never undoes what is as it shall be.
NeverUndone ==
    [][phase # "idle" /\ phase' # "idle" =>
        \A x \in DOMAIN seen \cup DOMAIN spec :
            x[1] # "shape" /\ At(oci, x) = At(spec, x) => At(oci', x) = At(spec, x)]_vars

\* The same at a glance, as an abstract specification: an update moves one
\* sub-resource after the other to where it shall be (manager.go:240-273,
\* loadbalancer.go:480-580).
Forms(x, s) == IF x[1] = "listener" THEN {[s[x] EXCEPT !.ruleSets = {}]} ELSE {}
Promise == INSTANCE LBGradual WITH
    lb <- Settled(oci), goal <- Settled(spec), Nothing <- None0, Forms <- Forms,
    Starts <- Created, Goals <- {Settled(LBSpec(i)) : i \in Ingresses}
Gradual == Promise!Spec

\* What an update is about: nothing looks at whether the load balancer is
\* internal once it exists, or at its subnets.  The shape is not awaited.
Updatable(lb) == {x \in DOMAIN lb : x[1] # "network"}
Awaited(lb) == {x \in Updatable(lb) : x[1] # "shape"}

\* An update that ends without an error leaves nothing undone of what it waits
\* for, but for the rule sets of listeners that it has created in the second pass
\* (manager.go:240-273).
SuccessMeansDone ==
    phase = "done" =>
        \A x \in Awaited(spec) \cup Awaited(oci) : AsSpecified(x)

\* After such an update requests go where the ingress says, up to the listener
\* that takes them and the backends it tries, in order (spec.go:224-308 and
\* manager.go:240-273 together); but for listeners without their rule sets.
SuccessServes ==
    phase = "done" /\ NoHost \notin RuleHosts(ing) =>
        \A port \in {80, 443}, h \in Hosts :
            \/ Serves(oci, ing, port, h)
            \/ \E x \in Takes(oci, port, h) : oci[x].ruleSets # spec[x].ruleSets

\* An update does not disturb what it does not change, whatever fails: a request
\* that the same listener takes before and after is taken by it all along, and if
\* the listener tries the same backends before and after, it does so all along,
\* although listeners and policies are not changed together (manager.go:240-273,
\* loadbalancer.go:480-580).  A listener may lack its policy after a creation.
Undisturbed ==
    phase # "idle" =>
        \A port \in {80, 443}, h \in Hosts :
            LET t == Takes(seen, port, h) IN
            Takes(spec, port, h) = t =>
                /\ Takes(oci, port, h) = t
                /\ \A x \in t :
                      seen[x].policy = spec[x].policy /\ Backends(seen, x) = Backends(spec, x)
                          => Backends(oci, x) = Backends(seen, x)

\* "If set HTTPS Redirection will be forced" (main.go:47): after an update that
\* ends without an error, the redirector redirects.
RedirectionForced ==
    phase = "done" =>
        \A x \in ListenerIds(spec) : spec[x].ruleSets \subseteq oci[x].ruleSets

\* "shouldn't be called a finished action twice" (actions.go:29).
FinishedActionsNotCalledAgain == phase \in DispatcherPhases => todo \cap ran = {}

\* A policy to be removed refers to a backend set to be removed: if OCI minds,
\* the second pass fails for ever, and the policy is removed after it only.
PinnedForever ==
    /\ pins
    /\ \E p \in Of(oci, "policy") \ DOMAIN LBSpec(ing) :
           ~(References(p, oci[p]) \subseteq DOMAIN LBSpec(ing))

\* Once nothing changes and nothing fails, the load balancer becomes what the
\* ingress specifies, whatever it was: half an update's work included.
\* Excepted is what the code cannot do: back to a fixed shape, another reserved
\* address or one for an internal load balancer, a redirector for hosts that no
\* rule mentions, and what PinnedForever describes.
Impossible ==
    \/ ~Buildable(ing)
    \/ /\ oci # None0
       /\ \/ oci[<<"shape", "shape">>] = "flexible" /\ ing.shape = "fixed"
          \/ ~AddressFits(oci, LBSpec(ing))
    \/ Redirects(ing) /\ ~(TLSHosts(ing) \subseteq RuleHosts(ing))
    \/ PinnedForever
EventuallyAsSpecified ==
    <>[](\/ /\ oci # None0
            /\ \A x \in Updatable(oci) \cup Updatable(LBSpec(ing)) :
                   At(oci, x) = At(LBSpec(ing), x)
         \/ Impossible)
=============================================================================
