---------------------------- MODULE ControllerInv ----------------------------
(***************************************************************************)
(* The inductive invariant of Controller.  It follows an ingress along the *)
(* way its versions travel,                                                *)
(*                                                                         *)
(*     API server -> watch -> cache -> snap (the worker) -> load balancer  *)
(*                          `-> notes -> queue                             *)
(*                                                                         *)
(* and says that versions only grow along it (Versions), that whatever     *)
(* leaves the cache ahead of the worker is on its way to the queue (Work), *)
(* and what is left when nothing is on its way (Served, Gone).             *)
(***************************************************************************)
EXTENDS Controller

Provisioning ==
    {"spec", "lookup", "create", "awaitCreate", "update", "updating", "status"}
Deleting == {"lookupToDelete", "delete", "awaitDelete"}

\* A dependency of i has changed and its handler has not run.
DepPending(i) == \E kind \in depNotes : i \in Impacted(kind)

\* e happened before somebody wrote the object o: o has a later version, of a
\* later incarnation if e deleted the one before.
Before(e, o) ==
    /\ e.obj.gen <= o.gen
    /\ e.type = "delete" => e.obj.gen < o.uid

\* The worker's variables agree with where it is.
Shape ==
    /\ pc = "idle" <=> cur = None
    /\ pc \in {"idle", "reconcile"} => snap = NoObject /\ fresh = FALSE
    /\ pc \in Provisioning => Present(snap)
    /\ ~up => /\ pc = "idle" /\ dirty = {} /\ backoff = {} /\ depNotes = {}
              /\ \A i \in Ingresses : watch[i] = <<>> /\ notes[i] = <<>>

\* What an event stream says last is what its source holds.
StreamsOf(i) ==
    /\ up /\ watch[i] = <<>> => cache[i] = api[i]
    /\ watch[i] # <<>> => After(watch[i][Len(watch[i])]) = api[i]
    /\ notes[i] # <<>> => After(notes[i][Len(notes[i])]) = cache[i]
    /\ \A n \in 1..Len(notes[i]) : Present(notes[i][n].obj)
Streams == \A i \in Ingresses : StreamsOf(i)

\* Objects and load balancers carry versions that were written.
Stamped(o) == IF Present(o) THEN o.uid <= o.gen /\ o.gen <= edits
                            ELSE o = NoObject
StampsOf(i) ==
    /\ Stamped(api[i]) /\ Stamped(cache[i])
    /\ \A n \in 1..Len(watch[i]) :
           Present(watch[i][n].obj) /\ Stamped(watch[i][n].obj)
    /\ lb[i].gen <= edits
    /\ lb[i].state = "none" <=> lb[i].gen = 0
Stamps ==
    /\ Stamped(snap) /\ (pc \in Deleting => snap = NoObject)
    /\ \A i \in Ingresses : StampsOf(i)

\* The versions that i's load balancer carries, or is about to.
Applied(i) == {lb[i].gen} \cup IF cur = i THEN {snap.gen} ELSE {}

\* Versions grow from the load balancer to the worker, the cache, the watch and
\* the API server, and leap over an incarnation that ended.
VersionsOf(i) ==
    /\ \A m, n \in 1..Len(watch[i]) : m < n => Before(watch[i][m], watch[i][n].obj)
    /\ Present(cache[i]) =>
           /\ \A v \in Applied(i) : v <= cache[i].gen
           /\ \A n \in 1..Len(watch[i]) : cache[i].gen <= watch[i][n].obj.gen
    /\ up /\ ~Present(cache[i]) =>
           \A n \in 1..Len(watch[i]), v \in Applied(i) : v < watch[i][n].obj.uid
    /\ Present(api[i]) => lb[i].gen <= api[i].gen
    /\ cur = i /\ pc \in Provisioning => lb[i].gen <= snap.gen
    /\ cur = i /\ pc \in {"lookupToDelete", "delete"} /\ Present(api[i]) =>
           lb[i].gen < api[i].uid
Versions == \A i \in Ingresses : VersionsOf(i)

\* The worker acts on what the cache holds, or the name is queued again.
WorkOf(i) ==
    cur = i /\ pc # "reconcile" /\ notes[i] = <<>> /\ i \notin dirty =>
        /\ IsOCI(cache[i]) => snap = cache[i]
        /\ IsOCI(cache[i]) /\ pc \in Provisioning \ {"spec"} =>
               fresh \/ i \in silent \/ DepPending(i)
Work == \A i \in Ingresses : WorkOf(i)

\* What the worker has done so far.
Progress ==
    /\ pc \in {"update", "updating", "status"} => lb[cur].state \notin {"none", "DELETING"}
    /\ pc = "awaitCreate" => lb[cur].state \notin {"none", "DELETING"}
    /\ pc = "updating" => lb[cur].gen = snap.gen
    /\ pc = "status" => lb[cur].gen = snap.gen /\ lb[cur].done /\ (fresh => lb[cur].fresh)

\* Nothing in the controller mentions i.
Idle(i) ==
    /\ up /\ watch[i] = <<>> /\ notes[i] = <<>>
    /\ i \notin dirty \cup backoff /\ cur # i

ServedOf(i) ==
    Idle(i) /\ ~DepPending(i) /\ IsOCI(api[i]) =>
        Configured(i) \/ last[i] = "drop" \/ i \in silent
Served == \A i \in Ingresses : ServedOf(i)

GoneOf(i) ==
    Idle(i) /\ ~Present(api[i]) =>
        lb[i].state = "none" \/ last[i] = "drop" \/ i \in lost
Gone == \A i \in Ingresses : GoneOf(i)

\* The induction is checked and proved in two layers: what holds of versions,
\* and, on top of it, what holds of the work left to do.
VersionInv == TypeOK /\ Shape /\ Streams /\ Stamps /\ Versions
Inv == VersionInv /\ Work /\ Progress /\ Served /\ Gone
=============================================================================
