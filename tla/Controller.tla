----------------------------- MODULE Controller -----------------------------
(***************************************************************************)
(* The control loop: watch events of ingresses, nodes and secrets feed a   *)
(* work queue, one worker takes an ingress name at a time and reconciles   *)
(* the OCI load balancer of that name with what the informer cache says.   *)
(* The load balancer is seen as a whole here: the version of the ingress   *)
(* it carries and its lifecycle state.                                     *)
(*                                                                         *)
(* The API server, the informers, the work queue and OCI are not part of   *)
(* the repository; they are modelled by what the repository's code relies  *)
(* on.  The worker runs alone (controller.New is given no                  *)
(* MaxConcurrentReconciles), so lbManager's mutex is never contended.      *)
(***************************************************************************)
EXTENDS Naturals, Sequences

CONSTANTS
    Ingresses,      \* namespaced names of ingress objects
    SecretUsers,    \* those whose spec.tls names the secret that may change
    None,           \* no ingress: the worker is idle
    MaxEdits,       \* bound: writes to the cluster (ingresses, nodes, secrets)
    MaxFaults       \* bound: failed calls, failed work requests and crashes

ASSUME SecretUsersAssumption == SecretUsers \subseteq Ingresses
ASSUME NoneAssumption == None \notin Ingresses
ASSUME BoundsAssumption == MaxEdits \in Nat /\ MaxFaults \in Nat

VARIABLES
    \* the cluster
    edits,          \* number of writes so far; the last version handed out
    api,            \* api[i]: the ingress object in the API server
    \* the controller process: informers and handlers
    up,             \* the process runs and its caches have synced
    watch,          \* watch[i]: events not yet received by the ingress informer
    cache,          \* cache[i]: the ingress in the informer's cache
    notes,          \* notes[i]: events received, their handler still to run
    depNotes,       \* kinds of dependency whose handler is still to run
    \* the controller process: work queue and worker
    dirty,          \* ingresses in the queue
    backoff,        \* ingresses to be queued again after a delay
    pc,             \* where the worker is
    cur,            \* the ingress it reconciles
    snap,           \* the object cache.Get() returned
    fresh,          \* the LB spec it built still agrees with nodes and secrets
    \* OCI
    lb,             \* lb[i]: the load balancer named after i
    faults,         \* number of faults so far
    \* history
    last,           \* last[i]: how the last reconciliation of i ended
    lost,           \* ingresses whose deletion never reached the queue
    silent          \* ingresses a dependency of which changed and nobody queued them

clusterVars == <<edits, api>>
feedVars == <<up, watch, cache, notes, depNotes>>
queueVars == <<dirty, backoff>>
workVars == <<pc, cur, snap, fresh>>
ociVars == <<lb, faults>>
histVars == <<last, lost, silent>>
vars == <<clusterVars, feedVars, queueVars, workVars, ociVars, histVars>>

-----------------------------------------------------------------------------
(* Data *)

\* An ingress object.  uid: the version that created it; gen: the version of
\* its spec; oci: its class is "oci"; ip: the uid tagged on the load balancer
\* whose address its status shows (0 = no address).
Object == [uid : Nat, gen : Nat, oci : BOOLEAN, ip : Nat]
NoObject == [uid |-> 0, gen |-> 0, oci |-> FALSE, ip |-> 0]
Present(o) == o.uid > 0

EventType == {"create", "update", "delete"}
Event == [type : EventType, obj : Object]
After(e) == IF e.type = "delete" THEN NoObject ELSE e.obj

\* A load balancer.  tag: the freeform tag IngressUID it was created with;
\* gen: the version last applied to it, or being applied; done: that version
\* was applied in full; fresh: with the nodes and secrets as they are now.
LBState == {"none", "CREATING", "ACTIVE", "DELETING", "FAILED"}
LoadBalancer ==
    [state : LBState, tag : Nat, gen : Nat, done : BOOLEAN, fresh : BOOLEAN]
NoLB == [state |-> "none", tag |-> 0, gen |-> 0, done |-> FALSE, fresh |-> FALSE]

PC == {"idle", "reconcile",
       "spec", "lookup", "create", "awaitCreate", "update", "updating", "status",
       "lookupToDelete", "delete", "awaitDelete"}
Outcome == {"none", "ok", "retry", "drop"}
DepKind == {"node", "secret"}

\* IsOCILoadbalancerIngress
IsOCI(o) == o.oci

TypeOK ==
    /\ edits \in Nat /\ faults \in Nat
    /\ api \in [Ingresses -> Object]
    /\ up \in BOOLEAN
    /\ watch \in [Ingresses -> Seq(Event)]
    /\ cache \in [Ingresses -> Object]
    /\ notes \in [Ingresses -> Seq(Event)]
    /\ depNotes \subseteq DepKind
    /\ dirty \subseteq Ingresses /\ backoff \subseteq Ingresses
    /\ pc \in PC
    /\ cur \in Ingresses \cup {None}
    /\ snap \in Object
    /\ fresh \in BOOLEAN
    /\ lb \in [Ingresses -> LoadBalancer]
    /\ last \in [Ingresses -> Outcome]
    /\ lost \subseteq Ingresses /\ silent \subseteq Ingresses

Init ==
    /\ edits = 0 /\ faults = 0
    /\ api = [i \in Ingresses |-> NoObject]
    /\ up = TRUE
    /\ watch = [i \in Ingresses |-> <<>>]
    /\ cache = [i \in Ingresses |-> NoObject]
    /\ notes = [i \in Ingresses |-> <<>>]
    /\ depNotes = {}
    /\ dirty = {} /\ backoff = {}
    /\ pc = "idle" /\ cur = None /\ snap = NoObject /\ fresh = FALSE
    /\ lb = [i \in Ingresses |-> NoLB]
    /\ last = [i \in Ingresses |-> "none"]
    /\ lost = {} /\ silent = {}

-----------------------------------------------------------------------------
(* The cluster *)

\* The API server stores o as i and tells whoever watches.
Store(i, type, o) ==
    /\ api' = [api EXCEPT ![i] = IF type = "delete" THEN NoObject ELSE o]
    /\ watch' = IF up THEN [watch EXCEPT ![i] = Append(@, [type |-> type, obj |-> o])]
                      ELSE watch

UserWrite(i, type, o) ==
    /\ edits < MaxEdits
    /\ edits' = edits + 1
    /\ Store(i, type, o)
    /\ UNCHANGED <<up, cache, notes, depNotes, queueVars, workVars, ociVars, histVars>>

CreateIngress(i) ==
    /\ ~Present(api[i])
    /\ \E c \in BOOLEAN : UserWrite(i, "create",
           [uid |-> edits + 1, gen |-> edits + 1, oci |-> c, ip |-> 0])

\* The spec, or the class, of an ingress changes.
EditIngress(i) ==
    /\ Present(api[i])
    /\ \E c \in BOOLEAN : UserWrite(i, "update",
           [api[i] EXCEPT !.gen = edits + 1, !.oci = c])

DeleteIngress(i) ==
    /\ Present(api[i])
    /\ UserWrite(i, "delete", api[i])

\* Every load balancer in A, and the spec the worker holds, is out of date.
Outdate(A) ==
    /\ lb' = [i \in Ingresses |->
                 IF i \in A THEN [lb[i] EXCEPT !.fresh = FALSE] ELSE lb[i]]
    /\ fresh' = (fresh /\ cur \notin A)

Impacted(kind) == IF kind = "node" THEN Ingresses ELSE SecretUsers

\* A node joins or leaves; the secret is added or its contents change.
ChangeDependency(kind) ==
    /\ edits < MaxEdits
    /\ edits' = edits + 1
    /\ Outdate(Impacted(kind))
    /\ depNotes' = IF up THEN depNotes \cup {kind} ELSE depNotes
    /\ UNCHANGED <<api, up, watch, cache, notes, queueVars, pc, cur, snap,
                   faults, histVars>>

\* A node changes its address, the secret is removed, a service changes: the
\* first two handlers are empty, and services are not watched.
ChangeUnwatched(i) ==
    /\ edits < MaxEdits
    /\ edits' = edits + 1
    /\ Outdate({i})
    /\ silent' = silent \cup {i}
    /\ UNCHANGED <<api, feedVars, queueVars, pc, cur, snap, faults, last, lost>>

-----------------------------------------------------------------------------
(* Informers and event handlers *)

\* The ingress informer takes the next watch event into its cache.
Receive(i) ==
    /\ up /\ watch[i] # <<>>
    /\ cache' = [cache EXCEPT ![i] = After(Head(watch[i]))]
    /\ notes' = [notes EXCEPT ![i] = Append(@, Head(watch[i]))]
    /\ watch' = [watch EXCEPT ![i] = Tail(@)]
    /\ UNCHANGED <<clusterVars, up, depNotes, queueVars, workVars, ociVars, histVars>>

\* SyncPeriod has passed: the informer repeats what it knows as an update.
Resync(i) ==
    /\ up /\ Present(cache[i]) /\ notes[i] = <<>>
    /\ notes' = [notes EXCEPT ![i] = <<[type |-> "update", obj |-> cache[i]]>>]
    /\ UNCHANGED <<clusterVars, up, watch, cache, depNotes, queueVars, workVars,
                   ociVars, histVars>>

\* ingressEventHandler.Create, Update and Delete: Update looks at the new
\* object twice and never at the old one.  (Faulty variants, by which the runs
\* are seen to notice: a handler without Update, and one without Delete.)
AcceptsNoUpdate(e) == IsOCI(e.obj) /\ e.type # "update"
AcceptsNoDelete(e) == IsOCI(e.obj) /\ e.type # "delete"
Accepts(e) == IsOCI(e.obj)
IngressHandler(i) ==
    /\ up /\ notes[i] # <<>>
    /\ LET e == Head(notes[i]) IN
           /\ dirty' = IF Accepts(e) THEN dirty \cup {i} ELSE dirty
           /\ lost' = IF e.type = "delete" /\ ~IsOCI(e.obj) THEN lost \cup {i} ELSE lost
    /\ notes' = [notes EXCEPT ![i] = Tail(@)]
    /\ UNCHANGED <<clusterVars, up, watch, cache, depNotes, backoff, workVars,
                   ociVars, last, silent>>

\* enqueueImpactedIngresses, of the nodes' and of the secrets' handler.
\* (Faulty variant: it returns after the first match.)
NodeImpactFirst ==
    LET all == {i \in Ingresses : IsOCI(cache[i])} IN
    IF all = {} THEN {} ELSE {CHOOSE i \in all : TRUE}
NodeImpact == {i \in Ingresses : IsOCI(cache[i])}
SecretImpact == {i \in SecretUsers : IsOCI(cache[i])}

DependencyHandler(kind, impact) ==
    /\ up /\ kind \in depNotes
    /\ depNotes' = depNotes \ {kind}
    /\ \/ dirty' = dirty \cup impact /\ UNCHANGED <<faults, silent>>
       \/ /\ faults < MaxFaults /\ faults' = faults + 1  \* cache.List fails: silence
          /\ silent' = silent \cup impact
          /\ UNCHANGED dirty
    /\ UNCHANGED <<clusterVars, up, watch, cache, notes, backoff, workVars, lb, last, lost>>

NodeHandler == DependencyHandler("node", NodeImpact)
SecretHandler == DependencyHandler("secret", SecretImpact)

-----------------------------------------------------------------------------
(* Work queue *)

\* The delay of a rate-limited retry is over.
BackoffOver(i) ==
    /\ i \in backoff
    /\ backoff' = backoff \ {i}
    /\ dirty' = dirty \cup {i}
    /\ UNCHANGED <<clusterVars, feedVars, workVars, ociVars, histVars>>

\* The worker gets a name from the queue.
Take(i) ==
    /\ up /\ pc = "idle" /\ i \in dirty
    /\ dirty' = dirty \ {i}
    /\ pc' = "reconcile" /\ cur' = i
    /\ UNCHANGED <<clusterVars, feedVars, backoff, snap, fresh, ociVars, histVars>>

\* Reconcile() returned: a retriable error comes back after a delay, any other
\* error is turned into success and forgotten (ignoreNonRetriableError).
\* (Faulty variant: every error is forgotten.)
FinishForgetful(outcome) ==
    /\ pc' = "idle" /\ cur' = None /\ snap' = NoObject /\ fresh' = FALSE
    /\ last' = [last EXCEPT ![cur] = outcome]
    /\ backoff' = backoff
Finish(outcome) ==
    /\ pc' = "idle" /\ cur' = None /\ snap' = NoObject /\ fresh' = FALSE
    /\ last' = [last EXCEPT ![cur] = outcome]
    /\ backoff' = IF outcome = "retry" THEN backoff \cup {cur} ELSE backoff

ErrorOutcome == {"retry", "drop"}

-----------------------------------------------------------------------------
(* The worker: one action per call that can be interrupted *)

\* A step of the worker that only moves on to another step.
Goto(label) ==
    /\ pc' = label
    /\ UNCHANGED <<clusterVars, feedVars, queueVars, cur, snap, fresh, ociVars, histVars>>

Return(outcome) ==
    /\ Finish(outcome)
    /\ UNCHANGED <<clusterVars, feedVars, dirty, ociVars, lost, silent>>

\* The call fails: a service error may be retriable, an error of the client's
\* rate limiter, of the network or of a work request is not.
Fail(outcomes) ==
    /\ faults < MaxFaults
    /\ faults' = faults + 1
    /\ \E o \in outcomes : Finish(o)
    /\ UNCHANGED <<clusterVars, feedVars, dirty, lb, lost, silent>>

\* Reconcile: cache.Get, whose errors are no service errors.
Reconcile ==
    /\ pc = "reconcile"
    /\ \/ /\ snap' = cache[cur]
          /\ pc' = IF Present(cache[cur]) THEN "spec" ELSE "lookupToDelete"
          /\ UNCHANGED <<clusterVars, feedVars, queueVars, cur, fresh, ociVars, histVars>>
       \/ Fail({"drop"})

\* NewIngressLBSpec, under the manager's mutex.  (Faulty variant: the spec of
\* an earlier reconciliation is reused.)
BuildSpecReused ==
    /\ pc = "spec"
    /\ \/ /\ pc' = "lookup" /\ fresh' \in BOOLEAN
          /\ silent' = silent \ {cur}
          /\ UNCHANGED <<clusterVars, feedVars, queueVars, cur, snap, ociVars, last, lost>>
       \/ Fail(ErrorOutcome)
BuildSpec ==
    /\ pc = "spec"
    /\ \/ /\ pc' = "lookup" /\ fresh' = TRUE
          /\ silent' = silent \ {cur}
          /\ UNCHANGED <<clusterVars, feedVars, queueVars, cur, snap, ociVars, last, lost>>
       \/ Fail(ErrorOutcome)

\* tryGetLoadBalancerByNamespacedName and the branch on what it found.
Lookup ==
    /\ pc = "lookup"
    /\ \/ lb[cur].state = "none" /\ Goto("create")
       \/ lb[cur].state \in {"FAILED", "DELETING"} /\ Return("drop")
       \/ lb[cur].state \in {"CREATING", "ACTIVE"} /\ Goto("update")
       \/ Fail(ErrorOutcome)

\* createLoadBalancer: OCI accepts.  What the creation call can carry is all
\* there is to the spec (done) only if it has no routing policy.  (Faulty
\* variant: without freeform tags.)
NewLBUntagged(whole) ==
    [state |-> "CREATING", gen |-> snap.gen, done |-> whole, fresh |-> fresh]
NewLB(whole) ==
    [state |-> "CREATING", tag |-> snap.uid, gen |-> snap.gen,
     done |-> whole, fresh |-> fresh]
CreateLoadBalancer ==
    /\ pc = "create"
    /\ \/ /\ \E whole \in BOOLEAN : lb' = [lb EXCEPT ![cur] = NewLB(whole)]
          /\ \/ /\ pc' = "awaitCreate"
                /\ UNCHANGED <<queueVars, cur, snap, fresh, faults, histVars>>
             \/ /\ faults < MaxFaults /\ faults' = faults + 1  \* answer lost
                /\ Finish("drop")
                /\ UNCHANGED <<dirty, lost, silent>>
          /\ UNCHANGED <<clusterVars, feedVars>>
       \/ Fail(ErrorOutcome)

AwaitCreate ==
    /\ pc = "awaitCreate"
    /\ \/ lb[cur].state = "ACTIVE" /\ Goto("update")
       \/ lb[cur].state = "FAILED" /\ Return("drop")
       \/ Fail(ErrorOutcome)   \* of the poll, or of GetLoadBalancer after it

\* updateLoadBalancer, its first call: nothing to do when the load balancer
\* already is as specified (two specs that are both out of date may agree or
\* not); OCI refuses (409, retriable) while it is not ACTIVE.  (Faulty variant:
\* the comparison misses that the spec is another one.)
AgreesBlindly(b) == b.done
Agrees(b) == b.done /\ b.gen = snap.gen /\ (fresh => b.fresh)
Differs(b) == ~(b.done /\ b.gen = snap.gen /\ b.fresh)
BeginUpdate ==
    /\ pc = "update"
    /\ \/ Agrees(lb[cur]) /\ Goto("status")
       \/ /\ Differs(lb[cur]) /\ lb[cur].state = "ACTIVE"
          /\ lb' = [lb EXCEPT ![cur] = [@ EXCEPT !.gen = snap.gen, !.done = FALSE]]
          /\ pc' = "updating"
          /\ UNCHANGED <<clusterVars, feedVars, queueVars, cur, snap, fresh, faults, histVars>>
       \/ Differs(lb[cur]) /\ lb[cur].state # "ACTIVE" /\ Return("retry")
       \/ Fail(ErrorOutcome)

\* Its last call.
EndUpdate ==
    /\ pc = "updating"
    /\ \/ /\ lb' = [lb EXCEPT ![cur] = [@ EXCEPT !.done = TRUE, !.fresh = fresh]]
          /\ pc' = "status"
          /\ UNCHANGED <<clusterVars, feedVars, queueVars, cur, snap, fresh, faults, histVars>>
       \/ Fail(ErrorOutcome)

\* updateIngressStatus: no address yet, a conflict with a later write, or a
\* failed call are all errors that are not retried.  An unchanged status is
\* no write.
UpdateStatus ==
    /\ pc = "status"
    /\ \/ lb[cur].state = "CREATING" /\ Return("drop")
       \/ api[cur] # snap /\ Return("drop")
       \/ api[cur] = snap /\ snap.ip = lb[cur].tag /\ Return("ok")
       \/ /\ api[cur] = snap /\ snap.ip # lb[cur].tag
          /\ Store(cur, "update", [snap EXCEPT !.ip = lb[cur].tag])
          /\ Finish("ok")
          /\ UNCHANGED <<edits, up, cache, notes, depNotes, dirty, ociVars, lost, silent>>
       \/ Fail({"drop"})

\* DeleteIngress returns without an error.
Deleted ==
    /\ Finish("ok")
    /\ lost' = lost \ {cur}
    /\ UNCHANGED <<clusterVars, feedVars, dirty, ociVars, silent>>

\* DeleteIngress: the lookup.
LookupToDelete ==
    /\ pc = "lookupToDelete"
    /\ \/ lb[cur].state = "none" /\ Deleted
       \/ lb[cur].state # "none" /\ Goto("delete")
       \/ Fail(ErrorOutcome)

\* DeleteIngress: the call.  OCI refuses (409, retriable) to delete what is
\* being created or deleted; 404 means somebody was faster.
DeleteLoadBalancer ==
    /\ pc = "delete"
    /\ \/ /\ lb[cur].state \in {"ACTIVE", "FAILED"}
          /\ lb' = [lb EXCEPT ![cur] = [@ EXCEPT !.state = "DELETING"]]
          /\ \/ /\ pc' = "awaitDelete"
                /\ UNCHANGED <<queueVars, cur, snap, fresh, faults, histVars>>
             \/ /\ faults < MaxFaults /\ faults' = faults + 1  \* answer lost
                /\ Finish("drop")
                /\ UNCHANGED <<dirty, lost, silent>>
          /\ UNCHANGED <<clusterVars, feedVars>>
       \/ lb[cur].state \in {"CREATING", "DELETING"} /\ Return("retry")
       \/ lb[cur].state = "none" /\ Deleted
       \/ Fail(ErrorOutcome)

AwaitDelete ==
    /\ pc = "awaitDelete"
    /\ \/ lb[cur].state = "none" /\ Deleted
       \/ lb[cur].state \in {"ACTIVE", "FAILED"} /\ Return("drop")
       \/ Fail({"drop"})

WorkerStep ==
    /\ up
    /\ \/ Reconcile \/ BuildSpec \/ Lookup
       \/ CreateLoadBalancer \/ AwaitCreate
       \/ BeginUpdate \/ EndUpdate \/ UpdateStatus
       \/ LookupToDelete \/ DeleteLoadBalancer \/ AwaitDelete

-----------------------------------------------------------------------------
(* OCI carries out work requests; the process dies and comes back *)

CreationEnds(i) ==
    /\ lb[i].state = "CREATING"
    /\ \/ lb' = [lb EXCEPT ![i].state = "ACTIVE"] /\ UNCHANGED faults
       \/ /\ faults < MaxFaults /\ faults' = faults + 1
          /\ lb' = [lb EXCEPT ![i].state = "FAILED"]
    /\ UNCHANGED <<clusterVars, feedVars, queueVars, workVars, histVars>>

DeletionEnds(i) ==
    /\ lb[i].state = "DELETING"
    /\ \/ lb' = [lb EXCEPT ![i] = NoLB] /\ UNCHANGED faults
       \/ /\ faults < MaxFaults /\ faults' = faults + 1
          /\ lb' = [lb EXCEPT ![i].state = "ACTIVE"]
    /\ UNCHANGED <<clusterVars, feedVars, queueVars, workVars, histVars>>

Crash ==
    /\ up /\ faults < MaxFaults
    /\ faults' = faults + 1
    /\ up' = FALSE
    /\ watch' = [i \in Ingresses |-> <<>>]
    /\ cache' = [i \in Ingresses |-> NoObject]
    /\ notes' = [i \in Ingresses |-> <<>>]
    /\ depNotes' = {} /\ dirty' = {} /\ backoff' = {}
    /\ pc' = "idle" /\ cur' = None /\ snap' = NoObject /\ fresh' = FALSE
    /\ UNCHANGED <<clusterVars, lb, histVars>>

\* The caches are filled from a list before the worker starts; everything
\* listed is announced as created.  What is gone is not announced.  (Faulty
\* variant: nobody waits for the caches to sync.)
RestartUnsynced ==
    /\ ~up
    /\ up' = TRUE
    /\ notes' = [i \in Ingresses |->
                    IF Present(api[i]) THEN <<[type |-> "create", obj |-> api[i]]>>
                                       ELSE <<>>]
    /\ depNotes' = DepKind
    /\ UNCHANGED <<clusterVars, watch, cache, queueVars, workVars, ociVars, histVars>>
Restart ==
    /\ ~up
    /\ up' = TRUE
    /\ cache' = api
    /\ notes' = [i \in Ingresses |->
                    IF Present(api[i]) THEN <<[type |-> "create", obj |-> api[i]]>>
                                       ELSE <<>>]
    /\ depNotes' = DepKind
    /\ lost' = lost \cup {i \in Ingresses : ~Present(api[i]) /\ lb[i].state # "none"}
    /\ UNCHANGED <<clusterVars, watch, queueVars, workVars, ociVars, last, silent>>

-----------------------------------------------------------------------------

Next ==
    \/ \E i \in Ingresses :
           \/ CreateIngress(i) \/ EditIngress(i) \/ DeleteIngress(i)
           \/ ChangeUnwatched(i)
           \/ Receive(i) \/ Resync(i) \/ IngressHandler(i)
           \/ BackoffOver(i) \/ Take(i)
           \/ CreationEnds(i) \/ DeletionEnds(i)
    \/ \E kind \in DepKind : ChangeDependency(kind)
    \/ NodeHandler \/ SecretHandler
    \/ WorkerStep
    \/ Crash \/ Restart

Spec == Init /\ [][Next]_vars

\* Goroutines get to run, delays and work requests end, the pod is restarted,
\* the informer resyncs; the queue is first-in first-out, so that a name in it
\* is taken although others are taken before it.
Fairness ==
    /\ \A i \in Ingresses :
           /\ WF_vars(Receive(i)) /\ WF_vars(IngressHandler(i)) /\ WF_vars(Resync(i))
           /\ WF_vars(BackoffOver(i)) /\ SF_vars(Take(i))
           /\ WF_vars(CreationEnds(i)) /\ WF_vars(DeletionEnds(i))
    /\ WF_vars(NodeHandler) /\ WF_vars(SecretHandler)
    /\ WF_vars(WorkerStep) /\ WF_vars(Restart)

FairSpec == Spec /\ Fairness

-----------------------------------------------------------------------------
(* Properties *)

\* Nothing is on its way that will reconcile i.
Quiet(i) ==
    /\ up /\ watch[i] = <<>> /\ notes[i] = <<>> /\ depNotes = {}
    /\ i \notin dirty \cup backoff /\ cur # i

\* The load balancer of i carries the ingress o, whose status shows its address.
Carries(i, o) ==
    /\ lb[i].state \notin {"none", "DELETING"}
    /\ lb[i].gen = o.gen /\ lb[i].done /\ lb[i].fresh
    /\ o.ip = lb[i].tag
Configured(i) == Carries(i, api[i])

\* No update is lost: when nothing is on its way for an ingress of the class,
\* its load balancer is as it should be, unless the last reconciliation ended
\* in an error that ignoreNonRetriableError() forgot or something changed that
\* no handler looks at, or that one did not because listing the ingresses failed
\* (handlers/*.go, reconciller.go:46-62).
ServedOrAccounted ==
    \A i \in Ingresses :
        Quiet(i) /\ IsOCI(api[i]) => Configured(i) \/ last[i] = "drop" \/ i \in silent

\* No load balancer is left behind: when nothing is on its way for an ingress
\* that is gone, so is its load balancer, unless an error was forgotten or the
\* deletion was seen by nobody (the controller was down, or the object had
\* left the class; reconciller.go:51-56, handlers/ingress.go:52-58).
GoneOrAccounted ==
    \A i \in Ingresses :
        Quiet(i) /\ ~Present(api[i]) =>
            lb[i].state = "none" \/ last[i] = "drop" \/ i \in lost

\* The controller keeps the promises of IngressLB.
Promise == INSTANCE IngressLB WITH
    clock <- edits,
    obj <- [i \in Ingresses |-> [uid |-> api[i].uid, gen |-> api[i].gen]],
    have <- [i \in Ingresses |->
                IF lb[i].state \in {"none", "DELETING"} THEN 0 ELSE lb[i].gen]
Promised == Promise!Spec

\* Once the writes and the faults are over, every ingress of the class ends up
\* with a load balancer that is as it should be: the resync makes up for every
\* forgotten error, except that a FAILED load balancer is left to a human
\* (manager.go:133-136).
EventuallyServed ==
    \A i \in Ingresses :
        <>[](IsOCI(api[i]) => Configured(i) \/ lb[i].state = "FAILED")

\* And every load balancer whose ingress is gone is deleted, except those that
\* GoneOrAccounted excepts: no resync mentions an ingress that is gone.
EventuallyGone ==
    \A i \in Ingresses :
        <>[](~Present(api[i]) =>
                lb[i].state = "none" \/ last[i] = "drop" \/ i \in lost)
=============================================================================
