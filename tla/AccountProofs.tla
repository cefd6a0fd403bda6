---------------------------- MODULE AccountProofs ----------------------------
(***************************************************************************)
(* The second layer of the invariant, and what follows from it: every      *)
(* ingress is served, and every ingress that is gone has no load balancer, *)
(* or it is accounted for.                                                 *)
(***************************************************************************)
EXTENDS VersionProofs

(* Progress: what the worker has done so far *)

LEMMA ProgressOfWorker ==
  ASSUME VersionInv, Progress, WorkerStep
  PROVE  Progress'
<1>0. TypeOK /\ up /\ cur \in Ingresses
  BY WorkerCases DEF VersionInv
<1>a. ASSUME pc' \in {"idle", "reconcile", "spec", "lookup", "create"} \cup Deleting
      PROVE  Progress'
  BY <1>a DEF Progress, Deleting
<1>b. ASSUME Finish("ok") \/ Finish("retry") \/ Finish("drop")
      PROVE  Progress'
  BY <1>b, <1>a DEF Finish
<1>c. ASSUME Fail(ErrorOutcome) \/ Fail({"drop"}) \/ Return("ok") \/ Return("retry")
             \/ Return("drop") \/ Deleted
      PROVE  Progress'
  BY <1>b, <1>c DEF Fail, Return, Deleted, ErrorOutcome
<1>1. ASSUME Reconcile \/ BuildSpec
      PROVE  Progress'
  BY <1>1, <1>a, <1>c DEF Reconcile, BuildSpec, Deleting
<1>2. ASSUME Lookup
      PROVE  Progress'
  <2>1. CASE Goto("create")
    BY <2>1, <1>a DEF Goto
  <2>2. CASE lb[cur].state \in {"CREATING", "ACTIVE"} /\ Goto("update")
    BY <2>2 DEF Goto, Progress, ociVars
  <2> QED BY <1>2, <1>c, <2>1, <2>2 DEF Lookup
<1>3. ASSUME CreateLoadBalancer
      PROVE  Progress'
  <2>1. CASE Finish("drop") \/ Fail(ErrorOutcome)
    BY <2>1, <1>b, <1>c
  <2>2. CASE /\ \E whole \in BOOLEAN : lb' = [lb EXCEPT ![cur] = NewLB(whole)]
             /\ pc' = "awaitCreate" /\ cur' = cur
    <3>1. lb'[cur].state = "CREATING"
      BY <1>0, <2>2 DEF NewLB, TypeOK
    <3> QED BY <2>2, <3>1 DEF Progress
  <2> QED BY <1>3, <2>1, <2>2 DEF CreateLoadBalancer
<1>4. ASSUME AwaitCreate
      PROVE  Progress'
  <2>1. CASE lb[cur].state = "ACTIVE" /\ Goto("update")
    BY <2>1 DEF Goto, Progress, ociVars
  <2> QED BY <1>4, <1>c, <2>1 DEF AwaitCreate
<1>5. ASSUME BeginUpdate
      PROVE  Progress'
  <2>1. CASE Agrees(lb[cur]) /\ Goto("status")
    BY <1>5, <2>1 DEF BeginUpdate, Agrees, Goto, Progress, ociVars
  <2>2. CASE /\ lb' = [lb EXCEPT ![cur] = [@ EXCEPT !.gen = snap.gen, !.done = FALSE]]
             /\ pc' = "updating" /\ cur' = cur /\ snap' = snap
    <3>1. lb'[cur].gen = snap.gen /\ lb'[cur].state = lb[cur].state
      BY <1>0, <2>2 DEF TypeOK, LoadBalancer
    <3>2. lb[cur].state \notin {"none", "DELETING"}
      BY <1>5 DEF BeginUpdate, Progress
    <3> QED BY <2>2, <3>1, <3>2 DEF Progress
  <2> QED BY <1>5, <1>c, <2>1, <2>2 DEF BeginUpdate
<1>6. ASSUME EndUpdate
      PROVE  Progress'
  <2>1. CASE /\ lb' = [lb EXCEPT ![cur] = [@ EXCEPT !.done = TRUE, !.fresh = fresh]]
             /\ pc' = "status" /\ cur' = cur /\ snap' = snap /\ fresh' = fresh
    <3>1. /\ lb'[cur].gen = lb[cur].gen /\ lb'[cur].state = lb[cur].state
          /\ lb'[cur].done /\ lb'[cur].fresh = fresh
      BY <1>0, <2>1 DEF TypeOK, LoadBalancer
    <3>2. lb[cur].state \notin {"none", "DELETING"} /\ lb[cur].gen = snap.gen
      BY <1>6 DEF EndUpdate, Progress
    <3> QED BY <2>1, <3>1, <3>2 DEF Progress
  <2> QED BY <1>6, <1>c, <2>1 DEF EndUpdate
<1>7. ASSUME UpdateStatus
      PROVE  Progress'
  BY <1>7, <1>b, <1>c DEF UpdateStatus
<1>8. ASSUME LookupToDelete \/ AwaitDelete
      PROVE  Progress'
  BY <1>8, <1>a, <1>c DEF LookupToDelete, AwaitDelete, Goto, Deleting
<1>9. ASSUME DeleteLoadBalancer
      PROVE  Progress'
  BY <1>9, <1>a, <1>b, <1>c DEF DeleteLoadBalancer, Deleting
<1> QED
  BY <1>1, <1>2, <1>3, <1>4, <1>5, <1>6, <1>7, <1>8, <1>9 DEF WorkerStep

LEMMA ProgressStep ==
  ASSUME VersionInv, Progress, [Next]_vars
  PROVE  Progress'
<1>0. TypeOK /\ Shape /\ (pc # "idle" => cur \in Ingresses)
  BY CurType DEF VersionInv
<1>1. ASSUME UNCHANGED <<pc, cur, snap, fresh, lb>>
      PROVE  Progress'
  BY <1>1 DEF Progress
<1>2. ASSUME NEW A, Outdate(A), UNCHANGED <<pc, cur, snap>>
      PROVE  Progress'
  <2>1. pc # "idle" => /\ lb'[cur].state = lb[cur].state /\ lb'[cur].gen = lb[cur].gen
                       /\ lb'[cur].done = lb[cur].done
                       /\ cur \notin A => lb'[cur] = lb[cur]
    BY <1>0, <1>2 DEF Outdate, TypeOK, LoadBalancer
  <2> QED BY <1>2, <2>1 DEF Outdate, Progress
<1>3. ASSUME NEW i \in Ingresses, CreationEnds(i) \/ DeletionEnds(i)
      PROVE  Progress'
  <2>1. UNCHANGED <<pc, cur, snap, fresh>>
    BY <1>3 DEF CreationEnds, DeletionEnds, workVars
  <2>2. CASE cur # i
    <3>1. pc # "idle" => lb'[cur] = lb[cur]
      BY <1>0, <1>3, <2>2 DEF CreationEnds, DeletionEnds, TypeOK
    <3> QED BY <2>1, <3>1 DEF Progress
  <2>3. CASE cur = i /\ DeletionEnds(i)
    BY <2>1, <2>3 DEF DeletionEnds, Progress
  <2>4. CASE cur = i /\ CreationEnds(i)
    <3>1. /\ lb'[cur].state \in {"ACTIVE", "FAILED"} /\ lb'[cur].gen = lb[cur].gen
          /\ lb'[cur].done = lb[cur].done /\ lb'[cur].fresh = lb[cur].fresh
      BY <1>0, <2>4 DEF CreationEnds, TypeOK, LoadBalancer
    <3> QED BY <2>1, <3>1 DEF Progress
  <2> QED BY <1>3, <2>2, <2>3, <2>4
<1>4. ASSUME NEW i \in Ingresses, CreateIngress(i) \/ EditIngress(i) \/ DeleteIngress(i)
      PROVE  Progress'
  BY <1>1, <1>4 DEF CreateIngress, EditIngress, DeleteIngress, UserWrite, workVars, ociVars
<1>5. ASSUME NEW i \in Ingresses,
             Receive(i) \/ Resync(i) \/ IngressHandler(i) \/ BackoffOver(i)
      PROVE  Progress'
  BY <1>1, <1>5 DEF Receive, Resync, IngressHandler, BackoffOver, workVars, ociVars
<1>6. ASSUME NEW i \in Ingresses, ChangeUnwatched(i)
      PROVE  Progress'
  BY <1>2, <1>6 DEF ChangeUnwatched
<1>7. ASSUME NEW kind \in DepKind, ChangeDependency(kind)
      PROVE  Progress'
  BY <1>2, <1>7 DEF ChangeDependency
<1>8. ASSUME NodeHandler \/ SecretHandler \/ Restart \/ UNCHANGED vars
      PROVE  Progress'
  BY <1>1, <1>8 DEF NodeHandler, SecretHandler, DependencyHandler, Restart, vars, workVars, ociVars
<1>9. ASSUME Crash \/ (\E i \in Ingresses : Take(i))
      PROVE  Progress'
  BY <1>9 DEF Crash, Take, Progress
<1> QED
  BY <1>3, <1>4, <1>5, <1>6, <1>7, <1>8, <1>9, ProgressOfWorker DEF Next

-----------------------------------------------------------------------------
(* Work, Served and Gone, of one ingress at a time *)

AccountOf(i) == WorkOf(i) /\ ServedOf(i) /\ GoneOf(i)

\* The facts of the first layer that the second rests on.
LEMMA Facts ==
  ASSUME VersionInv, NEW i \in Ingresses
  PROVE  /\ up /\ watch[i] = <<>> => cache[i] = api[i]
         /\ IsOCI(api[i]) => Present(api[i])
         /\ IsOCI(cache[i]) => Present(cache[i])
         /\ lb[i] \in LoadBalancer
BY DEF VersionInv, Streams, StreamsOf, Stamps, StampsOf, Stamped, IsOCI, NoObject, TypeOK

\* An ingress nothing happens to.
LEMMA AccountUnchanged ==
  ASSUME NEW i, AccountOf(i), up' => up,
         UNCHANGED <<api[i], watch[i], cache[i], notes[i], depNotes, lb[i], last[i], backoff,
                     pc, cur, snap, fresh, lost, silent>>,
         i \in dirty => i \in dirty'
  PROVE  AccountOf(i)'
BY DEF AccountOf, WorkOf, ServedOf, GoneOf, Idle, Configured, Carries, DepPending

LEMMA AccountUserWrite ==
  ASSUME Inv, NEW i \in Ingresses, NEW type \in EventType, NEW o \in Object,
         UserWrite(i, type, o), NEW j \in Ingresses
  PROVE  AccountOf(j)'
<1>0. TypeOK /\ Shape /\ AccountOf(j) /\ watch[i] \in Seq(Event)
  BY DEF Inv, VersionInv, TypeOK, Work, Served, Gone, AccountOf
<1>1. UNCHANGED <<up, cache, notes, depNotes, lb, last, dirty, backoff, pc, cur, snap, fresh, lost, silent>>
  BY DEF UserWrite, queueVars, workVars, ociVars, histVars
<1>2. CASE j # i
  <2>1. UNCHANGED <<api[j], watch[j]>>
    BY <1>0, <1>2 DEF UserWrite, Store, TypeOK
  <2> QED BY <1>0, <1>1, <2>1, AccountUnchanged
<1>3. CASE j = i
  <2>1. ~Idle(j)'
    <3>1. CASE up
      <4>1. [type |-> type, obj |-> o] \in Event
        BY DEF Event
      <4>2. watch'[i] # <<>>
        BY <1>0, <3>1, <4>1, AppendEvent DEF UserWrite, Store, TypeOK
      <4> QED BY <1>3, <4>2 DEF Idle
    <3>2. CASE ~up
      BY <1>1, <3>2 DEF Idle
    <3> QED BY <3>1, <3>2
  <2>2. WorkOf(j)'
    BY <1>0, <1>1 DEF AccountOf, WorkOf, DepPending
  <2> QED BY <2>1, <2>2 DEF AccountOf, ServedOf, GoneOf
<1> QED BY <1>2, <1>3

\* Load balancers are outdated: whoever is not watched is marked silent, and
\* whoever is watched has a notice pending.
LEMMA AccountOutdate ==
  ASSUME Inv, NEW j \in Ingresses, NEW A, Outdate(A),
         UNCHANGED <<api, up, watch, cache, notes, last, dirty, backoff, pc, cur, snap, lost>>,
         silent \subseteq silent', depNotes \subseteq depNotes',
         j \in A => j \in silent' \/ ~up \/ DepPending(j)'
  PROVE  AccountOf(j)'
<1>0. TypeOK /\ Shape /\ AccountOf(j)
  BY DEF Inv, VersionInv, Work, Served, Gone, AccountOf
<1>1. /\ lb'[j].state = lb[j].state
      /\ j \notin A => lb'[j] = lb[j]
      /\ j \notin A /\ cur = j => fresh' = fresh
  BY <1>0 DEF Outdate, TypeOK, LoadBalancer
<1>2. GoneOf(j)'
  BY <1>0, <1>1 DEF AccountOf, GoneOf, Idle
<1>3. ~up => cur # j
  BY <1>0, NoneAssumption DEF Shape
<1>4. DepPending(j) => DepPending(j)'
  BY DEF DepPending
<1>5. WorkOf(j)'
  BY <1>0, <1>1, <1>3, <1>4 DEF AccountOf, WorkOf
<1>6. ServedOf(j)'
  BY <1>0, <1>1, <1>4 DEF AccountOf, ServedOf, Idle, Configured, Carries
<1> QED BY <1>2, <1>5, <1>6 DEF AccountOf

LEMMA AccountDependency ==
  ASSUME Inv, NEW j \in Ingresses,
         \/ \E kind \in DepKind : ChangeDependency(kind)
         \/ \E i \in Ingresses : ChangeUnwatched(i)
  PROVE  AccountOf(j)'
<1>1. UNCHANGED <<api, up, watch, cache, notes, last, dirty, backoff, pc, cur, snap, lost>>
  BY DEF ChangeDependency, ChangeUnwatched, feedVars, queueVars, histVars
<1>2. ASSUME NEW kind \in DepKind, ChangeDependency(kind)
      PROVE  AccountOf(j)'
  <2>1. j \in Impacted(kind) => ~up \/ DepPending(j)'
    BY <1>2 DEF ChangeDependency, DepPending, Impacted
  <2>2. Outdate(Impacted(kind)) /\ silent \subseteq silent' /\ depNotes \subseteq depNotes'
    BY <1>2 DEF ChangeDependency, histVars
  <2> QED BY <1>1, <2>1, <2>2, AccountOutdate
<1>3. ASSUME NEW i \in Ingresses, ChangeUnwatched(i)
      PROVE  AccountOf(j)'
  <2>1. /\ Outdate({i}) /\ silent \subseteq silent' /\ depNotes \subseteq depNotes'
        /\ j \in {i} => j \in silent'
    BY <1>3 DEF ChangeUnwatched, feedVars
  <2> QED BY <1>1, <2>1, AccountOutdate
<1> QED BY <1>2, <1>3

LEMMA AccountReceive ==
  ASSUME Inv, NEW i \in Ingresses, Receive(i) \/ Resync(i), NEW j \in Ingresses
  PROVE  AccountOf(j)'
<1>0. TypeOK /\ AccountOf(j) /\ notes[i] \in Seq(Event) /\ watch[i] \in Seq(Event)
  BY DEF Inv, VersionInv, TypeOK, Work, Served, Gone, AccountOf
<1>1. UNCHANGED <<api, up, depNotes, lb, last, dirty, backoff, pc, cur, snap, fresh, lost, silent>>
  BY DEF Receive, Resync, clusterVars, queueVars, workVars, ociVars, histVars
<1>2. CASE j # i
  <2>1. UNCHANGED <<watch[j], cache[j], notes[j]>>
    BY <1>0, <1>2 DEF Receive, Resync, TypeOK
  <2> QED BY <1>0, <1>1, <2>1, AccountUnchanged
<1>3. CASE j = i
  <2>1. notes'[i] # <<>>
    <3>1. CASE Receive(i)
      <4>1. Head(watch[i]) \in Event
        BY <1>0, <3>1, TailEvents DEF Receive
      <4> QED BY <1>0, <3>1, <4>1, AppendEvent DEF Receive, TypeOK
    <3>2. CASE Resync(i)
      BY <1>0, <3>2 DEF Resync, TypeOK
    <3> QED BY <3>1, <3>2
  <2> QED BY <1>3, <2>1 DEF AccountOf, WorkOf, ServedOf, GoneOf, Idle
<1> QED BY <1>2, <1>3

LEMMA AccountHandler ==
  ASSUME Inv, NEW i \in Ingresses, IngressHandler(i), NEW j \in Ingresses
  PROVE  AccountOf(j)'
<1>0. /\ VersionInv /\ TypeOK /\ AccountOf(j) /\ notes[i] \in Seq(Event) /\ StreamsOf(i)
      /\ up /\ notes[i] # <<>>
  BY DEF Inv, VersionInv, TypeOK, Work, Served, Gone, AccountOf, Streams, IngressHandler
<1>1. UNCHANGED <<api, up, watch, cache, depNotes, lb, last, backoff, pc, cur, snap, fresh, silent>>
  BY DEF IngressHandler, clusterVars, workVars, ociVars
<1>2. CASE j # i
  <2>1. UNCHANGED <<notes[j]>> /\ (j \in dirty => j \in dirty') /\ (j \in lost' <=> j \in lost)
    BY <1>0, <1>2 DEF IngressHandler, TypeOK
  <2> QED BY <1>0, <1>1, <2>1 DEF AccountOf, WorkOf, ServedOf, GoneOf, Idle, Configured, Carries, DepPending
<1>3. CASE j = i
  <2> DEFINE e == Head(notes[i])
  <2>1. /\ e = notes[i][1] /\ Len(notes[i]) \in Nat /\ Len(notes[i]) >= 1
        /\ notes'[i] = Tail(notes[i]) /\ (notes'[i] = <<>> => Len(notes[i]) = 1)
    BY <1>0, TailEvents DEF IngressHandler, TypeOK
  <2>2. Present(e.obj)
    BY <1>0, <2>1 DEF StreamsOf
  <2>3. notes'[i] = <<>> => After(e) = cache[i]
    BY <1>0, <2>1 DEF StreamsOf
  <2>4. /\ IsOCI(e.obj) => i \in dirty'
        /\ e.type = "delete" /\ ~IsOCI(e.obj) => i \in lost'
    BY DEF IngressHandler, Accepts
  <2> HIDE DEF e
  <2>5. ~IsOCI(NoObject) /\ ~Present(NoObject)
    BY DEF IsOCI, NoObject, Present
  <2>6. notes'[i] = <<>> /\ i \notin dirty' => ~IsOCI(cache[i]) /\ (~Present(cache[i]) => i \in lost')
    BY <2>2, <2>3, <2>4, <2>5 DEF After
  <2>7. WorkOf(i)'
    BY <1>1, <2>6 DEF WorkOf
  <2>8. ServedOf(i)' /\ GoneOf(i)'
    BY <1>0, <1>1, <2>6, Facts DEF ServedOf, GoneOf, Idle
  <2> QED BY <1>3, <2>7, <2>8 DEF AccountOf
<1> QED BY <1>2, <1>3

LEMMA AccountDependencyHandler ==
  ASSUME Inv, NodeHandler \/ SecretHandler, NEW j \in Ingresses
  PROVE  AccountOf(j)'
<1>0. VersionInv /\ TypeOK /\ AccountOf(j) /\ up
  BY DEF Inv, VersionInv, Work, Served, Gone, AccountOf, NodeHandler, SecretHandler, DependencyHandler
<1>1. /\ UNCHANGED <<api, up, watch, cache, notes, lb, last, backoff, pc, cur, snap, fresh, lost>>
      /\ dirty \subseteq dirty' /\ silent \subseteq silent'
  BY DEF NodeHandler, SecretHandler, DependencyHandler, clusterVars, workVars
<1>2. IsOCI(cache[j]) /\ DepPending(j) => DepPending(j)' \/ j \in dirty' \/ j \in silent'
  BY DEF NodeHandler, SecretHandler, DependencyHandler, NodeImpact, SecretImpact, DepPending, Impacted
<1>3. WorkOf(j)'
  BY <1>0, <1>1, <1>2 DEF AccountOf, WorkOf
<1>4. GoneOf(j)'
  BY <1>0, <1>1 DEF AccountOf, GoneOf, Idle
<1>5. ServedOf(j)'
  BY <1>0, <1>1, <1>2, Facts DEF AccountOf, ServedOf, Idle, Configured, Carries
<1> QED BY <1>3, <1>4, <1>5 DEF AccountOf

LEMMA AccountQueue ==
  ASSUME Inv, NEW i \in Ingresses, BackoffOver(i) \/ Take(i), NEW j \in Ingresses
  PROVE  AccountOf(j)'
<1>0. AccountOf(j) /\ Shape
  BY DEF Inv, VersionInv, Work, Served, Gone, AccountOf
<1>1. UNCHANGED <<api, up, watch, cache, notes, depNotes, lb, last, snap, fresh, lost, silent>>
  BY DEF BackoffOver, Take, clusterVars, feedVars, workVars, ociVars, histVars
<1>2. CASE BackoffOver(i)
  BY <1>0, <1>1, <1>2 DEF BackoffOver, workVars, AccountOf, WorkOf, ServedOf, GoneOf, Idle, Configured,
     Carries, DepPending
<1>3. CASE Take(i)
  <2>1. cur # j
    BY <1>0, <1>3, NoneAssumption DEF Take, Shape
  <2> QED BY <1>0, <1>1, <1>3, <2>1 DEF Take, AccountOf, WorkOf, ServedOf, GoneOf, Idle, Configured,
     Carries, DepPending
<1> QED BY <1>2, <1>3

LEMMA AccountOCI ==
  ASSUME Inv, NEW i \in Ingresses, CreationEnds(i) \/ DeletionEnds(i), NEW j \in Ingresses
  PROVE  AccountOf(j)'
<1>0. TypeOK /\ AccountOf(j)
  BY DEF Inv, VersionInv, Work, Served, Gone, AccountOf
<1>1. UNCHANGED <<api, up, watch, cache, notes, depNotes, last, dirty, backoff, pc, cur, snap, fresh, lost, silent>>
  BY DEF CreationEnds, DeletionEnds, clusterVars, feedVars, queueVars, workVars, histVars
<1>2. CASE j # i
  <2>1. lb'[j] = lb[j]
    BY <1>0, <1>2 DEF CreationEnds, DeletionEnds, TypeOK
  <2> QED BY <1>0, <1>1, <2>1, AccountUnchanged
<1>3. CASE j = i
  <2>1. WorkOf(j)'
    BY <1>0, <1>1 DEF AccountOf, WorkOf, DepPending
  <2>2. lb[j].state # "none" /\ lb[j] \in LoadBalancer
    BY <1>0, <1>3 DEF CreationEnds, DeletionEnds, TypeOK
  <2>3. GoneOf(j)'
    BY <1>0, <1>1, <2>2 DEF AccountOf, GoneOf, Idle
  <2>4. Configured(j) => Configured(j)'
    <3>1. CASE DeletionEnds(i)
      BY <1>3, <3>1 DEF DeletionEnds, Configured, Carries
    <3>2. CASE CreationEnds(i)
      <4>1. \E s \in {"ACTIVE", "FAILED"} : lb'[j] = [lb[j] EXCEPT !.state = s]
        BY <1>0, <1>3, <3>2 DEF CreationEnds, TypeOK
      <4> QED BY <1>1, <2>2, <4>1 DEF Configured, Carries, LoadBalancer
    <3> QED BY <3>1, <3>2
  <2>5. ServedOf(j)'
    BY <1>0, <1>1, <2>4 DEF AccountOf, ServedOf, Idle, DepPending
  <2> QED BY <2>1, <2>3, <2>5 DEF AccountOf
<1> QED BY <1>2, <1>3

LEMMA AccountProcess ==
  ASSUME Inv, Crash \/ Restart, NEW j \in Ingresses
  PROVE  AccountOf(j)'
<1>1. CASE Crash
  <2>1. ~up' /\ cur' # j
    BY <1>1, NoneAssumption DEF Crash
  <2> QED BY <2>1 DEF AccountOf, WorkOf, ServedOf, GoneOf, Idle
<1>2. CASE Restart
  <2>1. UNCHANGED <<api, lb, pc, cur>> /\ cur # j /\ VersionInv
    BY <1>2, NoneAssumption DEF Restart, clusterVars, workVars, ociVars, Inv, VersionInv, Shape
  <2>2. WorkOf(j)'
    BY <2>1 DEF WorkOf
  <2>3. notes'[j] = <<>> => ~Present(api[j])
    BY <1>2 DEF Restart
  <2>4. ServedOf(j)'
    BY <2>1, <2>3, Facts DEF ServedOf, Idle
  <2>5. GoneOf(j)'
    BY <1>2, <2>1 DEF GoneOf, Restart
  <2> QED BY <2>2, <2>4, <2>5 DEF AccountOf
<1> QED BY <1>1, <1>2

LEMMA AccountWorker ==
  ASSUME Inv, WorkerStep, NEW j \in Ingresses
  PROVE  AccountOf(j)'
<1>0. /\ VersionInv /\ TypeOK /\ Shape /\ AccountOf(j) /\ Progress /\ up
      /\ cur \in Ingresses /\ WorkerEffect /\ StampsOf(j) /\ (pc \in Deleting => snap = NoObject)
  BY WorkerCases DEF Inv, VersionInv, Work, Served, Gone, AccountOf, Stamps
<1>1. CASE WorkerReads
  <2>1. /\ UNCHANGED <<cur, fresh, cache, notes, dirty, depNotes, silent>> /\ snap' = cache[cur]
        /\ pc' \in {"spec", "lookupToDelete"}
    BY <1>1 DEF WorkerReads, feedVars, queueVars, histVars
  <2>2. WorkOf(j)'
    <3>1. pc' \notin Provisioning \ {"spec"}
      BY <2>1 DEF Provisioning
    <3>2. CASE cur = j
      BY <2>1, <3>1, <3>2 DEF WorkOf
    <3>3. CASE cur # j
      BY <2>1, <3>3 DEF WorkOf
    <3> QED BY <3>2, <3>3
  <2>3. ServedOf(j)' /\ GoneOf(j)'
    BY <1>0, <1>1 DEF WorkerReads, AccountOf, ServedOf, GoneOf, Idle, Configured, Carries, DepPending,
       clusterVars, feedVars, queueVars, ociVars, histVars
  <2> QED BY <2>2, <2>3 DEF AccountOf
<1>2. ASSUME LBTouched
      PROVE  cur # j => lb'[j] = lb[j]
  BY <1>0, <1>2 DEF LBTouched, TypeOK
<1>3. CASE WorkerGoesOn
  <2>1. /\ UNCHANGED <<api, up, watch, cache, notes, depNotes, last, dirty, backoff, cur, snap, lost>>
        /\ fresh' = IF pc = "spec" THEN TRUE ELSE fresh
        /\ silent' = IF pc = "spec" THEN silent \ {cur} ELSE silent
        /\ pc # "reconcile"
        /\ pc' \in Provisioning \ {"spec"} /\ pc # "spec" => pc \in Provisioning \ {"spec"}
        /\ cur # j => lb'[j] = lb[j]
    BY <1>2, <1>3 DEF WorkerGoesOn, clusterVars, feedVars, queueVars, Provisioning, Deleting
  <2>2. WorkOf(j)'
    BY <1>0, <2>1 DEF AccountOf, WorkOf, DepPending
  <2>3. ServedOf(j)' /\ GoneOf(j)'
    BY <1>0, <2>1 DEF AccountOf, ServedOf, GoneOf, Idle, Configured, Carries, DepPending
  <2> QED BY <2>2, <2>3 DEF AccountOf
<1>4. CASE WorkerReturns
  <2>1. /\ UNCHANGED <<api, up, watch, cache, notes, depNotes, dirty, silent>>
        /\ cur' = None /\ cur' # j
        /\ cur # j => lb'[j] = lb[j] /\ last'[j] = last[j] /\ (j \in backoff' <=> j \in backoff)
        /\ cur # j => (j \in lost' <=> j \in lost)
    BY <1>0, <1>2, <1>4, NoneAssumption DEF WorkerReturns, Finish, clusterVars, feedVars, TypeOK
  <2>2. WorkOf(j)'
    BY <2>1 DEF WorkOf
  <2>3. CASE cur # j
    BY <1>0, <2>1, <2>2, <2>3 DEF AccountOf, ServedOf, GoneOf, Idle, Configured, Carries, DepPending
  <2>4. CASE cur = j
    <3>1. PICK o \in {"ok", "retry", "drop"} :
             /\ Finish(o)
             /\ o = "ok" =>
                   \/ pc \in Deleting /\ lb[cur].state = "none" /\ lb' = lb
                   \/ pc = "status" /\ api[cur] = snap /\ snap.ip = lb[cur].tag /\ lb' = lb
      BY <1>4 DEF WorkerReturns
    <3>2. CASE o = "drop"
      <4>1. last'[j] = "drop"
        BY <1>0, <2>4, <3>1, <3>2 DEF Finish, TypeOK
      <4> QED BY <2>2, <4>1 DEF AccountOf, ServedOf, GoneOf
    <3>3. CASE o = "retry"
      <4>1. j \in backoff'
        BY <2>4, <3>1, <3>3 DEF Finish
      <4> QED BY <2>2, <4>1 DEF AccountOf, ServedOf, GoneOf, Idle
    <3>4. CASE o = "ok" /\ pc \in Deleting /\ lb[cur].state = "none" /\ lb' = lb
      <4>1. GoneOf(j)'
        BY <2>4, <3>4 DEF GoneOf
      <4>2. ServedOf(j)'
        <5> SUFFICES ASSUME Idle(j)', IsOCI(api[j])
                     PROVE  FALSE
          BY <2>1 DEF ServedOf
        <5>1. cache[j] = api[j] /\ notes[j] = <<>> /\ j \notin dirty
          BY <1>0, <2>1, Facts DEF Idle
        <5>2. snap = cache[j]
          BY <1>0, <2>4, <3>4, <5>1 DEF AccountOf, WorkOf, Deleting
        <5> QED BY <1>0, <3>4, <5>1, <5>2 DEF IsOCI, NoObject
      <4> QED BY <2>2, <4>1, <4>2 DEF AccountOf
    <3>5. CASE o = "ok" /\ pc = "status" /\ api[cur] = snap /\ snap.ip = lb[cur].tag /\ lb' = lb
      <4>1. Present(api[j])
        BY <1>0, <2>4, <3>5 DEF Shape, Provisioning
      <4>2. GoneOf(j)'
        BY <2>1, <4>1 DEF GoneOf
      <4>3. ServedOf(j)'
        <5> SUFFICES ASSUME Idle(j)', ~DepPending(j)', IsOCI(api[j]), j \notin silent'
                     PROVE  Configured(j)'
          BY <2>1 DEF ServedOf
        <5>1. cache[j] = api[j] /\ notes[j] = <<>> /\ j \notin dirty /\ ~DepPending(j)
          BY <1>0, <2>1, Facts DEF Idle, DepPending
        <5>2. fresh
          BY <1>0, <2>1, <2>4, <3>5, <5>1 DEF AccountOf, WorkOf, Provisioning
        <5> QED BY <1>0, <2>1, <2>4, <3>5, <5>2 DEF Progress, Configured, Carries
      <4> QED BY <2>2, <4>2, <4>3 DEF AccountOf
    <3> QED BY <3>1, <3>2, <3>3, <3>4, <3>5
  <2> QED BY <2>3, <2>4
<1>5. CASE WorkerWrites
  <2>1. /\ UNCHANGED <<up, cache, notes, depNotes, dirty, lb, lost, silent>>
        /\ cur' # j
        /\ cur # j => UNCHANGED <<api[j], watch[j], last[j]>> /\ (j \in backoff' <=> j \in backoff)
    BY <1>0, <1>5, NoneAssumption DEF WorkerWrites, Store, Finish, TypeOK, ociVars
  <2>2. WorkOf(j)'
    BY <2>1 DEF WorkOf
  <2>3. CASE cur # j
    BY <1>0, <2>1, <2>2, <2>3 DEF AccountOf, ServedOf, GoneOf, Idle, Configured, Carries, DepPending
  <2>4. CASE cur = j
    <3> DEFINE e == [type |-> "update", obj |-> [snap EXCEPT !.ip = lb[cur].tag]]
    <3>1. e \in Event
      <4>1. snap \in Object /\ lb[cur].tag \in Nat
        BY <1>0 DEF TypeOK, LoadBalancer
      <4> QED BY <4>1, ObjectEdit DEF Event, EventType
    <3>2. watch'[j] = Append(watch[j], e) /\ watch[j] \in Seq(Event)
      BY <1>0, <1>5, <2>4 DEF WorkerWrites, Store, TypeOK
    <3> HIDE DEF e
    <3>3. watch'[j] # <<>>
      BY <3>1, <3>2, AppendEvent
    <3> QED BY <2>2, <3>3 DEF AccountOf, ServedOf, GoneOf, Idle
  <2> QED BY <2>3, <2>4
<1> QED BY <1>0, <1>1, <1>3, <1>4, <1>5 DEF WorkerEffect

-----------------------------------------------------------------------------
(* The induction *)

LEMMA InvStep ==
  ASSUME Inv, [Next]_vars
  PROVE  Inv'
<1>1. VersionInv' /\ Progress'
  BY VersionStep, ProgressStep DEF Inv
<1>2. ASSUME NEW j \in Ingresses
      PROVE  AccountOf(j)'
  <2>1. ASSUME NEW i \in Ingresses, CreateIngress(i) \/ EditIngress(i) \/ DeleteIngress(i)
        PROVE  AccountOf(j)'
    <3>1. /\ edits \in Nat /\ api[i] \in Object
          /\ \A c \in BOOLEAN :
                /\ [uid |-> edits + 1, gen |-> edits + 1, oci |-> c, ip |-> 0] \in Object
                /\ [api[i] EXCEPT !.gen = edits + 1, !.oci = c] \in Object
      <4>1. edits + 1 \in Nat /\ edits \in Nat /\ api[i] \in Object
        BY DEF Inv, VersionInv, TypeOK
      <4> QED BY <4>1, ObjectEdit DEF Object
    <3>2. PICK type \in EventType, o \in Object : UserWrite(i, type, o)
      BY <2>1, <3>1 DEF CreateIngress, EditIngress, DeleteIngress, EventType
    <3> QED BY <3>2, AccountUserWrite
  <2>2. ASSUME UNCHANGED vars
        PROVE  AccountOf(j)'
    BY <2>2, AccountUnchanged DEF Inv, Work, Served, Gone, AccountOf,
       vars, clusterVars, feedVars, queueVars, workVars, ociVars, histVars
  <2> QED
    BY <2>1, <2>2, AccountDependency, AccountReceive, AccountHandler, AccountDependencyHandler,
       AccountQueue, AccountOCI, AccountProcess, AccountWorker DEF Next
<1> QED BY <1>1, <1>2 DEF Inv, Work, Served, Gone, AccountOf

LEMMA InvInit == Init => Inv
<1> SUFFICES ASSUME Init PROVE Inv
  OBVIOUS
<1>1. \A i \in Ingresses : cur # i /\ api[i] = NoObject /\ lb[i] = NoLB
  BY NoneAssumption DEF Init
<1>2. ~IsOCI(NoObject) /\ NoLB.state = "none"
  BY DEF IsOCI, NoObject, NoLB
<1>3. Work /\ Served /\ Gone
  BY <1>1, <1>2 DEF Work, WorkOf, Served, ServedOf, Gone, GoneOf
<1>4. Progress
  BY DEF Init, Progress
<1> QED BY <1>3, <1>4, VersionInit DEF Inv

\* From the API server to the load balancer versions only grow, and whatever
\* leaves the cache ahead of the worker is on its way to the queue
\* (controller.go:70-160, reconciller.go:40-75): the inductive invariant.
THEOREM AccountInvariant == Spec => []Inv
<1>1. Inv /\ [Next]_vars => Inv'
  BY InvStep
<1> QED BY <1>1, InvInit, PTL DEF Spec

\* No update of an ingress, a node or a secret is lost between the informers,
\* the queue and the worker: an ingress of the class that nothing is on its way
\* for has its load balancer as it should be, unless ignoreNonRetriableError()
\* forgot an error of its last reconciliation or something changed that no
\* handler looks at, or that one did not because listing the ingresses failed
\* (handlers/*.go, reconciller.go:46-62).
THEOREM ServedCorrect == Spec => []ServedOrAccounted
<1>1. Inv => ServedOrAccounted
  BY DEF Inv, Served, ServedOf, ServedOrAccounted, Quiet, Idle, DepPending
<1> QED BY <1>1, AccountInvariant, PTL

\* No load balancer is left behind unaccounted for: an ingress that is gone and
\* that nothing is on its way for has none, unless an error was forgotten or
\* the deletion was seen by nobody (reconciller.go:51-56,
\* handlers/ingress.go:52-58).
THEOREM GoneCorrect == Spec => []GoneOrAccounted
<1>1. Inv => GoneOrAccounted
  BY DEF Inv, Gone, GoneOf, GoneOrAccounted, Quiet, Idle
<1> QED BY <1>1, AccountInvariant, PTL
=============================================================================
