-------------------------- MODULE ControllerProofs --------------------------
EXTENDS ControllerInv, SequenceTheorems, TLAPS

LEMMA NoObjectType == NoObject \in Object
  BY DEF NoObject, Object

LEMMA NoLBType == NoLB \in LoadBalancer
  BY DEF NoLB, LoadBalancer, LBState

LEMMA ObjectEdit ==
  ASSUME NEW o \in Object, NEW g \in Nat, NEW c \in BOOLEAN
  PROVE  /\ [o EXCEPT !.gen = g, !.oci = c] \in Object
         /\ [o EXCEPT !.ip = g] \in Object
BY DEF Object

LEMMA LoadBalancerState ==
  ASSUME NEW b \in LoadBalancer, NEW s \in LBState
  PROVE  [b EXCEPT !.state = s] \in LoadBalancer
BY DEF LoadBalancer

LEMMA LoadBalancerUpdate ==
  ASSUME NEW b \in LoadBalancer, NEW g \in Nat, NEW x \in BOOLEAN
  PROVE  /\ [b EXCEPT !.gen = g, !.done = FALSE] \in LoadBalancer
         /\ [b EXCEPT !.done = TRUE, !.fresh = x] \in LoadBalancer
         /\ [b EXCEPT !.fresh = FALSE] \in LoadBalancer
BY DEF LoadBalancer

LEMMA StoreType ==
  ASSUME TypeOK, NEW i \in Ingresses, NEW type \in EventType, NEW o \in Object,
         Store(i, type, o)
  PROVE  api' \in [Ingresses -> Object] /\ watch' \in [Ingresses -> Seq(Event)]
<1> DEFINE e == [type |-> type, obj |-> o]
<1>1. e \in Event
  BY DEF Event
<1>2. Append(watch[i], e) \in Seq(Event)
  BY <1>1 DEF TypeOK
<1> HIDE DEF e
<1>3. watch' \in [Ingresses -> Seq(Event)]
  BY <1>2 DEF TypeOK, Store, e
<1>4. api' \in [Ingresses -> Object]
  BY NoObjectType DEF TypeOK, Store
<1> QED BY <1>3, <1>4

LEMMA UserWriteType ==
  ASSUME TypeOK, NEW i \in Ingresses, NEW type \in EventType, NEW o \in Object,
         UserWrite(i, type, o)
  PROVE  TypeOK'
BY StoreType DEF UserWrite, TypeOK, queueVars, workVars, ociVars, histVars

LEMMA OutdateType ==
  ASSUME TypeOK, NEW A, Outdate(A)
  PROVE  lb' \in [Ingresses -> LoadBalancer] /\ fresh' \in BOOLEAN
<1>1. ASSUME NEW i \in Ingresses
      PROVE  [lb[i] EXCEPT !.fresh = FALSE] \in LoadBalancer
  BY LoadBalancerUpdate DEF TypeOK
<1> QED BY <1>1 DEF TypeOK, Outdate

LEMMA FinishType ==
  ASSUME TypeOK, cur \in Ingresses, NEW o \in Outcome, Finish(o)
  PROVE  /\ pc' \in PC /\ cur' \in Ingresses \cup {None} /\ snap' \in Object
         /\ fresh' \in BOOLEAN /\ last' \in [Ingresses -> Outcome]
         /\ backoff' \subseteq Ingresses
  BY NoObjectType DEF TypeOK, Finish, PC

LEMMA ReturnType ==
  ASSUME TypeOK, cur \in Ingresses, NEW o \in Outcome, Return(o)
  PROVE  TypeOK'
BY FinishType DEF Return, TypeOK, clusterVars, feedVars, ociVars

LEMMA FailType ==
  ASSUME TypeOK, cur \in Ingresses, NEW O \in SUBSET Outcome, Fail(O)
  PROVE  TypeOK'
BY FinishType DEF Fail, TypeOK, clusterVars, feedVars

LEMMA GotoType ==
  ASSUME TypeOK, NEW l \in PC, Goto(l)
  PROVE  TypeOK'
BY DEF Goto, TypeOK, clusterVars, feedVars, queueVars, ociVars, histVars

\* While the worker is not idle, cur is an ingress.
LEMMA CurType ==
  ASSUME TypeOK, Shape, pc # "idle"
  PROVE  cur \in Ingresses
BY NoneAssumption DEF TypeOK, Shape

LEMMA WorkerStepType ==
  ASSUME TypeOK, Shape, WorkerStep
  PROVE  TypeOK'
<1>0. cur \in Ingresses
  BY CurType DEF WorkerStep, Reconcile, BuildSpec, Lookup, CreateLoadBalancer, AwaitCreate, BeginUpdate, EndUpdate,
     UpdateStatus, LookupToDelete, DeleteLoadBalancer, AwaitDelete
<1>a. /\ ErrorOutcome \subseteq Outcome /\ {"drop"} \subseteq Outcome
      /\ \A o \in {"ok", "retry", "drop"} : o \in Outcome
  BY DEF ErrorOutcome, Outcome
<1>b. PC = {"idle", "reconcile",
       "spec", "lookup", "create", "awaitCreate", "update", "updating", "status",
       "lookupToDelete", "delete", "awaitDelete"}
  BY DEF PC
<1>1. ASSUME Reconcile PROVE TypeOK'
  <2>1. CASE Fail({"drop"})
    BY <2>1, <1>0, <1>a, FailType
  <2> QED
    BY <2>1, <1>0, <1>1, <1>b
    DEF Reconcile, TypeOK, clusterVars, feedVars, queueVars, ociVars, histVars
<1>2. ASSUME BuildSpec PROVE TypeOK'
  <2>1. CASE Fail(ErrorOutcome)
    BY <2>1, <1>0, <1>a, FailType
  <2> QED BY <2>1, <1>2, <1>b DEF BuildSpec, TypeOK, clusterVars, feedVars, queueVars, ociVars
<1>3. ASSUME Lookup PROVE TypeOK'
  BY <1>0, <1>3, <1>a, <1>b, FailType, GotoType, ReturnType DEF Lookup
<1>4. ASSUME CreateLoadBalancer PROVE TypeOK'
  <2>1. CASE Fail(ErrorOutcome)
    BY <2>1, <1>0, <1>a, FailType
  <2>2. ASSUME NEW whole \in BOOLEAN, lb' = [lb EXCEPT ![cur] = NewLB(whole)]
        PROVE  lb' \in [Ingresses -> LoadBalancer]
    BY <2>2 DEF NewLB, LoadBalancer, LBState, TypeOK, Object
  <2>3. CASE pc' = "awaitCreate" /\ ~Fail(ErrorOutcome)
    BY <2>3, <2>2, <1>4, <1>b DEF CreateLoadBalancer, Finish, TypeOK, clusterVars, feedVars, queueVars, histVars
  <2>4. CASE pc' # "awaitCreate" /\ ~Fail(ErrorOutcome)
    <3>1. /\ \E whole \in BOOLEAN : lb' = [lb EXCEPT ![cur] = NewLB(whole)]
          /\ faults' = faults + 1 /\ Finish("drop")
          /\ UNCHANGED <<clusterVars, feedVars, dirty, lost, silent>>
      BY <2>4, <1>4 DEF CreateLoadBalancer
    <3>2. lb' \in [Ingresses -> LoadBalancer]
      BY <3>1, <2>2
    <3> QED BY <3>1, <3>2, <1>0, <1>a, FinishType DEF TypeOK, clusterVars, feedVars
  <2> QED BY <2>1, <2>3, <2>4
<1>5. ASSUME AwaitCreate PROVE TypeOK'
  BY <1>0, <1>5, <1>a, <1>b, FailType, GotoType, ReturnType DEF AwaitCreate
<1>6. ASSUME BeginUpdate PROVE TypeOK'
  <2>0. [lb[cur] EXCEPT !.gen = snap.gen, !.done = FALSE] \in LoadBalancer
    <3>1. snap.gen \in Nat
      BY DEF TypeOK, Object
    <3> QED BY <1>0, <3>1, LoadBalancerUpdate DEF TypeOK
  <2>1. CASE /\ lb' = [lb EXCEPT ![cur] = [@ EXCEPT !.gen = snap.gen, !.done = FALSE]]
             /\ pc' = "updating"
             /\ UNCHANGED <<clusterVars, feedVars, queueVars, cur, snap, fresh, faults, histVars>>
    BY <2>0, <2>1, <1>b DEF TypeOK, clusterVars, feedVars, queueVars, histVars
  <2> QED BY <2>1, <1>0, <1>6, <1>a, <1>b, FailType, GotoType, ReturnType DEF BeginUpdate
<1>7. ASSUME EndUpdate PROVE TypeOK'
  <2>1. CASE Fail(ErrorOutcome)
    BY <2>1, <1>0, <1>a, FailType
  <2>2. [lb[cur] EXCEPT !.done = TRUE, !.fresh = fresh] \in LoadBalancer
    BY <1>0, LoadBalancerUpdate DEF TypeOK
  <2> QED BY <2>1, <2>2, <1>7, <1>0, <1>b DEF EndUpdate, TypeOK, clusterVars, feedVars, queueVars, histVars
<1>8. ASSUME UpdateStatus PROVE TypeOK'
  <2>1. CASE /\ Store(cur, "update", [snap EXCEPT !.ip = lb[cur].tag])
             /\ Finish("ok")
             /\ UNCHANGED <<edits, up, cache, notes, depNotes, dirty, ociVars, lost, silent>>
    <3>1. [snap EXCEPT !.ip = lb[cur].tag] \in Object
      BY <1>0, ObjectEdit DEF TypeOK, LoadBalancer
    <3> QED BY <2>1, <3>1, <1>0, <1>a, StoreType, FinishType DEF EventType, TypeOK, ociVars
  <2> QED BY <2>1, <1>0, <1>8, <1>a, <1>b, FailType, ReturnType DEF UpdateStatus
<1>9. ASSUME Deleted PROVE TypeOK'
  BY <1>9, <1>0, <1>a, FinishType DEF Deleted, TypeOK, clusterVars, feedVars, ociVars
<1>10. ASSUME LookupToDelete PROVE TypeOK'
  BY <1>0, <1>9, <1>10, <1>a, <1>b, FailType, GotoType DEF LookupToDelete
<1>11. ASSUME DeleteLoadBalancer PROVE TypeOK'
  <2>1. CASE Fail(ErrorOutcome) \/ Return("retry") \/ Deleted
    BY <2>1, <1>0, <1>a, <1>9, FailType, ReturnType
  <2>2. ASSUME lb' = [lb EXCEPT ![cur] = [@ EXCEPT !.state = "DELETING"]]
        PROVE  lb' \in [Ingresses -> LoadBalancer]
    BY <2>2, <1>0, LoadBalancerState DEF LBState, TypeOK
  <2>3. CASE pc' = "awaitDelete" /\ ~(Fail(ErrorOutcome) \/ Return("retry") \/ Deleted)
    BY <2>3, <2>2, <1>11, <1>b DEF DeleteLoadBalancer, Finish, TypeOK, clusterVars, feedVars, queueVars, histVars
  <2>4. CASE pc' # "awaitDelete" /\ ~(Fail(ErrorOutcome) \/ Return("retry") \/ Deleted)
    BY <2>4, <2>2, <1>11, <1>0, <1>a, FinishType DEF DeleteLoadBalancer, TypeOK, clusterVars, feedVars
  <2> QED BY <2>1, <2>3, <2>4
<1>12. ASSUME AwaitDelete PROVE TypeOK'
  BY <1>0, <1>9, <1>12, <1>a, <1>b, FailType, ReturnType DEF AwaitDelete
<1> QED
  BY <1>1, <1>2, <1>3, <1>4, <1>5, <1>6, <1>7, <1>8, <1>10, <1>11, <1>12 DEF WorkerStep

LEMMA TypeInvariant ==
  ASSUME TypeOK, Shape, [Next]_vars
  PROVE  TypeOK'
<1>1. ASSUME NEW i \in Ingresses, CreateIngress(i)
      PROVE  TypeOK'
  <2>1. PICK c \in BOOLEAN : UserWrite(i, "create",
           [uid |-> edits + 1, gen |-> edits + 1, oci |-> c, ip |-> 0])
    BY <1>1 DEF CreateIngress
  <2>2. [uid |-> edits + 1, gen |-> edits + 1, oci |-> c, ip |-> 0] \in Object
    BY DEF Object, TypeOK
  <2> QED BY <2>1, <2>2, UserWriteType DEF EventType
<1>2. ASSUME NEW i \in Ingresses, EditIngress(i)
      PROVE  TypeOK'
  <2>1. PICK c \in BOOLEAN : UserWrite(i, "update",
           [api[i] EXCEPT !.gen = edits + 1, !.oci = c])
    BY <1>2 DEF EditIngress
  <2>2. api[i] \in Object /\ edits + 1 \in Nat
    BY DEF TypeOK
  <2>3. [api[i] EXCEPT !.gen = edits + 1, !.oci = c] \in Object
    BY <2>2, ObjectEdit
  <2> QED BY <2>1, <2>3, UserWriteType DEF EventType
<1>3. ASSUME NEW i \in Ingresses, DeleteIngress(i)
      PROVE  TypeOK'
  BY <1>3, UserWriteType DEF DeleteIngress, EventType, TypeOK
<1>4. ASSUME NEW i \in Ingresses, ChangeUnwatched(i)
      PROVE  TypeOK'
  BY <1>4, OutdateType DEF ChangeUnwatched, TypeOK, feedVars, queueVars
<1>5. ASSUME NEW i \in Ingresses, Receive(i)
      PROVE  TypeOK'
  <2>1. Head(watch[i]) \in Event /\ Tail(watch[i]) \in Seq(Event)
    BY <1>5 DEF Receive, TypeOK
  <2>2. After(Head(watch[i])) \in Object
    BY <2>1, NoObjectType DEF After, Event
  <2>3. Append(notes[i], Head(watch[i])) \in Seq(Event)
    BY <2>1 DEF TypeOK
  <2> QED BY <1>5, <2>1, <2>2, <2>3 DEF Receive, TypeOK, clusterVars, queueVars, workVars, ociVars, histVars
<1>6. ASSUME NEW i \in Ingresses, Resync(i)
      PROVE  TypeOK'
  <2>1. <<[type |-> "update", obj |-> cache[i]]>> \in Seq(Event)
    BY DEF Event, EventType, TypeOK
  <2> QED BY <1>6, <2>1 DEF Resync, TypeOK, clusterVars, queueVars, workVars, ociVars, histVars
<1>7. ASSUME NEW i \in Ingresses, IngressHandler(i)
      PROVE  TypeOK'
  <2>1. Tail(notes[i]) \in Seq(Event)
    BY <1>7 DEF IngressHandler, TypeOK
  <2> QED BY <1>7, <2>1 DEF IngressHandler, TypeOK, clusterVars, workVars, ociVars
<1>8. ASSUME NEW i \in Ingresses, BackoffOver(i)
      PROVE  TypeOK'
  BY <1>8 DEF BackoffOver, TypeOK, clusterVars, feedVars, workVars, ociVars, histVars
<1>9. ASSUME NEW i \in Ingresses, Take(i)
      PROVE  TypeOK'
  BY <1>9 DEF Take, TypeOK, PC, clusterVars, feedVars, ociVars, histVars
<1>10. ASSUME NEW i \in Ingresses, CreationEnds(i)
       PROVE  TypeOK'
  <2>1. /\ [lb[i] EXCEPT !.state = "ACTIVE"] \in LoadBalancer
        /\ [lb[i] EXCEPT !.state = "FAILED"] \in LoadBalancer
    BY LoadBalancerState DEF TypeOK, LBState
  <2>2. lb' \in [Ingresses -> LoadBalancer]
    BY <1>10, <2>1 DEF CreationEnds, TypeOK
  <2> QED BY <1>10, <2>2 DEF CreationEnds, TypeOK, clusterVars, feedVars, queueVars, workVars, histVars
<1>11. ASSUME NEW i \in Ingresses, DeletionEnds(i)
       PROVE  TypeOK'
  <2>1. [lb[i] EXCEPT !.state = "ACTIVE"] \in LoadBalancer
    BY LoadBalancerState DEF TypeOK, LBState
  <2>2. lb' \in [Ingresses -> LoadBalancer]
    BY <1>11, <2>1, NoLBType DEF DeletionEnds, TypeOK
  <2> QED BY <1>11, <2>2 DEF DeletionEnds, TypeOK, clusterVars, feedVars, queueVars, workVars, histVars
<1>12. ASSUME NEW kind \in DepKind, ChangeDependency(kind)
       PROVE  TypeOK'
  BY <1>12, OutdateType DEF ChangeDependency, TypeOK, queueVars, histVars
<1>13. ASSUME NodeHandler \/ SecretHandler
       PROVE  TypeOK'
  <2>1. PICK kind \in DepKind, impact \in SUBSET Ingresses : DependencyHandler(kind, impact)
    BY <1>13, SecretUsersAssumption
    DEF NodeHandler, SecretHandler, NodeImpact, SecretImpact, DepKind
  <2> QED
    BY <2>1 DEF DependencyHandler, TypeOK, clusterVars, workVars
<1>14. ASSUME WorkerStep
       PROVE  TypeOK'
  BY <1>14, WorkerStepType
<1>15. ASSUME Crash
       PROVE  TypeOK'
  <2>1. watch' \in [Ingresses -> Seq(Event)] /\ notes' \in [Ingresses -> Seq(Event)]
    BY <1>15 DEF Crash
  <2>2. cache' \in [Ingresses -> Object] /\ snap' \in Object
    BY <1>15, NoObjectType DEF Crash
  <2>3. pc' \in PC
    BY <1>15 DEF Crash, PC
  <2>4. /\ edits' \in Nat /\ faults' \in Nat /\ api' \in [Ingresses -> Object]
        /\ lb' \in [Ingresses -> LoadBalancer] /\ last' \in [Ingresses -> Outcome]
        /\ lost' \subseteq Ingresses /\ silent' \subseteq Ingresses
    BY <1>15 DEF Crash, TypeOK, clusterVars, histVars
  <2>5. /\ up' \in BOOLEAN /\ fresh' \in BOOLEAN /\ cur' \in Ingresses \cup {None}
        /\ depNotes' \subseteq DepKind /\ dirty' \subseteq Ingresses /\ backoff' \subseteq Ingresses
    BY <1>15 DEF Crash
  <2> QED BY <2>1, <2>2, <2>3, <2>4, <2>5 DEF TypeOK
<1>16. ASSUME Restart
       PROVE  TypeOK'
  <2>1. ASSUME NEW i \in Ingresses
        PROVE  <<[type |-> "create", obj |-> api[i]]>> \in Seq(Event) /\ <<>> \in Seq(Event)
    BY DEF Event, EventType, TypeOK
  <2> QED BY <1>16, <2>1 DEF Restart, TypeOK, DepKind, clusterVars, queueVars, workVars, ociVars
<1>17. CASE UNCHANGED vars
  BY <1>17 DEF vars, TypeOK, clusterVars, feedVars, queueVars, workVars, ociVars, histVars
<1> QED
  BY <1>1, <1>2, <1>3, <1>4, <1>5, <1>6, <1>7, <1>8, <1>9, <1>10, <1>11, <1>12,
     <1>13, <1>14, <1>15, <1>16, <1>17 DEF Next

-----------------------------------------------------------------------------
(* Shape, and the worker's steps by their effect on the rest *)

WorkerLabels == Provisioning \cup Deleting

\* cache.Get: the worker learns which way to go.
WorkerReads ==
    /\ pc = "reconcile" /\ snap' = cache[cur]
    /\ IF Present(cache[cur]) THEN pc' \in Provisioning ELSE pc' = "lookupToDelete"
    /\ pc' \in {"spec", "lookupToDelete"}
    /\ UNCHANGED <<clusterVars, feedVars, queueVars, cur, fresh, ociVars, histVars>>

\* A change of cur's load balancer only.
LBTouched ==
    \/ lb' = lb
    \/ /\ pc \in {"create", "update"}
       /\ \E b \in LoadBalancer :
              /\ lb' = [lb EXCEPT ![cur] = b]
              /\ b.gen = snap.gen /\ b.state \notin {"none", "DELETING"}
    \/ /\ pc = "updating"
       /\ \E b \in LoadBalancer :
              /\ lb' = [lb EXCEPT ![cur] = b]
              /\ b.gen = lb[cur].gen /\ b.state = lb[cur].state
    \/ /\ pc = "delete"
       /\ \E b \in LoadBalancer :
              /\ lb' = [lb EXCEPT ![cur] = b]
              /\ b.gen = lb[cur].gen /\ b.state = "DELETING" /\ lb[cur].state # "none"

\* It goes on to its next call.
WorkerGoesOn ==
    /\ \/ pc \in Provisioning /\ pc' \in Provisioning \ {"spec"}
       \/ pc \in Deleting /\ pc' \in {"delete", "awaitDelete"}
    /\ pc' = "delete" => pc = "lookupToDelete"
    /\ LBTouched
    /\ fresh' = IF pc = "spec" THEN TRUE ELSE fresh
    /\ silent' = IF pc = "spec" THEN silent \ {cur} ELSE silent
    /\ UNCHANGED <<clusterVars, feedVars, queueVars, cur, snap, last, lost>>

\* Reconcile() returns.
WorkerReturns ==
    /\ pc \in WorkerLabels \cup {"reconcile"}
    /\ LBTouched
    /\ \E o \in {"ok", "retry", "drop"} :
           /\ Finish(o)
           /\ o = "ok" =>
                 \/ pc \in Deleting /\ lb[cur].state = "none" /\ lb' = lb
                 \/ pc = "status" /\ api[cur] = snap /\ snap.ip = lb[cur].tag /\ lb' = lb
    /\ \/ lost' = lost
       \/ pc \in Deleting /\ lb[cur].state = "none" /\ lb' = lb /\ lost' = lost \ {cur}
    /\ UNCHANGED <<clusterVars, feedVars, dirty, silent>>

\* It writes the status and returns.
WorkerWrites ==
    /\ pc = "status" /\ api[cur] = snap
    /\ Store(cur, "update", [snap EXCEPT !.ip = lb[cur].tag])
    /\ Finish("ok")
    /\ UNCHANGED <<edits, up, cache, notes, depNotes, dirty, ociVars, lost, silent>>

WorkerEffect == WorkerReads \/ WorkerGoesOn \/ WorkerReturns \/ WorkerWrites

LEMMA WorkerCases ==
  ASSUME TypeOK, Shape, WorkerStep
  PROVE  /\ up /\ pc # "idle" /\ cur \in Ingresses
         /\ WorkerEffect
<1>0. up /\ pc # "idle"
  BY DEF WorkerStep, Reconcile, BuildSpec, Lookup, CreateLoadBalancer, AwaitCreate, BeginUpdate, EndUpdate,
     UpdateStatus, LookupToDelete, DeleteLoadBalancer, AwaitDelete
<1>1. cur \in Ingresses
  BY <1>0, CurType
<1>a. ASSUME pc \in WorkerLabels \cup {"reconcile"}, Fail(ErrorOutcome) \/ Fail({"drop"})
      PROVE  WorkerEffect
  BY <1>a DEF WorkerEffect, Fail, WorkerReturns, ErrorOutcome, LBTouched, clusterVars, feedVars
<1>b. ASSUME pc \in WorkerLabels, Return("retry") \/ Return("drop")
      PROVE  WorkerEffect
  BY <1>b DEF WorkerEffect, Return, WorkerReturns, LBTouched, ociVars
<1>c. ASSUME pc \in Deleting, lb[cur].state = "none", Deleted
      PROVE  WorkerEffect
  BY <1>c DEF WorkerEffect, Deleted, WorkerReturns, LBTouched, ociVars, WorkerLabels
<1>d. ASSUME NEW l \in WorkerLabels \ {"spec"}, Goto(l),
             \/ pc \in Provisioning \ {"spec"} /\ l \in Provisioning
             \/ pc = "lookupToDelete" /\ l = "delete"
      PROVE  WorkerEffect
  BY <1>d DEF WorkerEffect, Goto, WorkerGoesOn, LBTouched, WorkerLabels, Provisioning, Deleting, queueVars, ociVars, histVars
<1>2. ASSUME Reconcile PROVE WorkerEffect
  <2>1. CASE Fail({"drop"})
    BY <1>2, <2>1, <1>a DEF Reconcile
  <2> QED
    BY <2>1, <1>2 DEF WorkerEffect, Reconcile, WorkerReads, Provisioning
<1>3. ASSUME BuildSpec PROVE WorkerEffect
  <2>1. pc \in WorkerLabels
    BY <1>3 DEF BuildSpec, WorkerLabels, Provisioning
  <2>2. CASE Fail(ErrorOutcome)
    BY <2>1, <2>2, <1>a
  <2> QED BY <2>2, <1>3 DEF WorkerEffect, BuildSpec, WorkerGoesOn, LBTouched, Provisioning, queueVars, ociVars
<1>4. ASSUME Lookup PROVE WorkerEffect
  <2>1. pc \in WorkerLabels /\ pc \in Provisioning \ {"spec"}
    BY <1>4 DEF Lookup, WorkerLabels, Provisioning
  <2> QED BY <2>1, <1>4, <1>a, <1>b, <1>d DEF Lookup, WorkerLabels, Provisioning
<1>5. ASSUME CreateLoadBalancer PROVE WorkerEffect
  <2>1. pc \in WorkerLabels /\ pc \in Provisioning /\ pc = "create"
    BY <1>5 DEF CreateLoadBalancer, WorkerLabels, Provisioning
  <2>2. CASE Fail(ErrorOutcome)
    BY <2>1, <2>2, <1>a
  <2>3. ASSUME NEW whole \in BOOLEAN, lb' = [lb EXCEPT ![cur] = NewLB(whole)]
        PROVE  LBTouched
    <3>1. NewLB(whole) \in LoadBalancer
      BY DEF NewLB, LoadBalancer, LBState, TypeOK, Object
    <3>2. NewLB(whole).gen = snap.gen /\ NewLB(whole).state = "CREATING"
      BY DEF NewLB
    <3> QED BY <2>1, <2>3, <3>1, <3>2 DEF LBTouched
  <2>4. CASE /\ \E whole \in BOOLEAN : lb' = [lb EXCEPT ![cur] = NewLB(whole)]
             /\ pc' = "awaitCreate"
             /\ UNCHANGED <<queueVars, cur, snap, fresh, faults, histVars>>
             /\ UNCHANGED <<clusterVars, feedVars>>
    BY <2>1, <2>3, <2>4 DEF WorkerEffect, WorkerGoesOn, Provisioning, histVars
  <2>5. CASE /\ \E whole \in BOOLEAN : lb' = [lb EXCEPT ![cur] = NewLB(whole)]
             /\ Finish("drop")
             /\ UNCHANGED <<dirty, lost, silent>>
             /\ UNCHANGED <<clusterVars, feedVars>>
    BY <2>1, <2>3, <2>5 DEF WorkerEffect, WorkerReturns
  <2> QED BY <2>2, <2>4, <2>5, <1>5 DEF CreateLoadBalancer
<1>6. ASSUME AwaitCreate PROVE WorkerEffect
  <2>1. pc \in WorkerLabels /\ pc \in Provisioning \ {"spec"}
    BY <1>6 DEF AwaitCreate, WorkerLabels, Provisioning
  <2> QED BY <2>1, <1>6, <1>a, <1>b, <1>d DEF AwaitCreate, WorkerLabels, Provisioning
<1>7. ASSUME BeginUpdate PROVE WorkerEffect
  <2>1. pc \in WorkerLabels /\ pc \in Provisioning \ {"spec"} /\ pc = "update"
    BY <1>7 DEF BeginUpdate, WorkerLabels, Provisioning
  <2>2. CASE /\ lb[cur].state = "ACTIVE"
             /\ lb' = [lb EXCEPT ![cur] = [@ EXCEPT !.gen = snap.gen, !.done = FALSE]]
             /\ pc' = "updating"
             /\ UNCHANGED <<clusterVars, feedVars, queueVars, cur, snap, fresh, faults, histVars>>
    <3> DEFINE b == [lb[cur] EXCEPT !.gen = snap.gen, !.done = FALSE]
    <3>1. lb[cur] \in LoadBalancer /\ snap.gen \in Nat
      BY <1>1 DEF TypeOK, Object
    <3>2. b \in LoadBalancer /\ b.gen = snap.gen /\ b.state = "ACTIVE"
      BY <2>2, <3>1 DEF LoadBalancer
    <3>3. lb' = [lb EXCEPT ![cur] = b]
      BY <2>2
    <3> HIDE DEF b
    <3>4. LBTouched
      BY <2>1, <3>2, <3>3 DEF LBTouched
    <3> QED BY <2>1, <2>2, <3>4 DEF WorkerEffect, WorkerGoesOn, Provisioning, histVars
  <2> QED BY <2>1, <2>2, <1>7, <1>a, <1>b, <1>d DEF BeginUpdate, WorkerLabels, Provisioning
<1>8. ASSUME EndUpdate PROVE WorkerEffect
  <2>1. pc \in WorkerLabels /\ pc \in Provisioning \ {"spec"} /\ pc = "updating"
    BY <1>8 DEF EndUpdate, WorkerLabels, Provisioning
  <2>2. CASE /\ lb' = [lb EXCEPT ![cur] = [@ EXCEPT !.done = TRUE, !.fresh = fresh]]
             /\ pc' = "status"
             /\ UNCHANGED <<clusterVars, feedVars, queueVars, cur, snap, fresh, faults, histVars>>
    <3> DEFINE b == [lb[cur] EXCEPT !.done = TRUE, !.fresh = fresh]
    <3>1. lb[cur] \in LoadBalancer /\ fresh \in BOOLEAN
      BY <1>1 DEF TypeOK
    <3>2. b \in LoadBalancer /\ b.gen = lb[cur].gen /\ b.state = lb[cur].state
      BY <3>1 DEF LoadBalancer
    <3>3. lb' = [lb EXCEPT ![cur] = b]
      BY <2>2
    <3> HIDE DEF b
    <3>4. LBTouched
      BY <2>1, <3>2, <3>3 DEF LBTouched
    <3> QED BY <2>1, <2>2, <3>4 DEF WorkerEffect, WorkerGoesOn, Provisioning, histVars
  <2> QED BY <2>1, <2>2, <1>8, <1>a DEF EndUpdate
<1>9. ASSUME UpdateStatus PROVE WorkerEffect
  <2>1. pc \in WorkerLabels /\ pc = "status"
    BY <1>9 DEF UpdateStatus, WorkerLabels, Provisioning
  <2>2. ASSUME api[cur] = snap, snap.ip = lb[cur].tag, Return("ok")
        PROVE  WorkerEffect
    BY <2>1, <2>2 DEF WorkerEffect, Return, WorkerReturns, LBTouched, ociVars
  <2> QED BY <2>1, <2>2, <1>9, <1>a, <1>b DEF WorkerEffect, UpdateStatus, WorkerWrites
<1>10. ASSUME LookupToDelete PROVE WorkerEffect
  <2>1. pc \in WorkerLabels /\ pc \in Deleting /\ pc = "lookupToDelete"
    BY <1>10 DEF LookupToDelete, WorkerLabels, Deleting
  <2> QED BY <2>1, <1>10, <1>a, <1>c, <1>d DEF LookupToDelete, WorkerLabels, Deleting, Provisioning
<1>11. ASSUME DeleteLoadBalancer PROVE WorkerEffect
  <2>1. pc \in WorkerLabels /\ pc \in Deleting /\ pc = "delete"
    BY <1>11 DEF DeleteLoadBalancer, WorkerLabels, Deleting
  <2>2. CASE lb[cur].state \in {"ACTIVE", "FAILED"} /\ lb' = [lb EXCEPT ![cur] = [@ EXCEPT !.state = "DELETING"]]
    <3> DEFINE b == [lb[cur] EXCEPT !.state = "DELETING"]
    <3>1. lb[cur] \in LoadBalancer
      BY <1>1 DEF TypeOK
    <3>2. b \in LoadBalancer /\ b.gen = lb[cur].gen /\ b.state = "DELETING"
      BY <3>1 DEF LoadBalancer, LBState
    <3>3. lb' = [lb EXCEPT ![cur] = b]
      BY <2>2
    <3> HIDE DEF b
    <3>4. LBTouched
      BY <2>1, <2>2, <3>2, <3>3 DEF LBTouched
    <3>5. CASE /\ pc' = "awaitDelete"
               /\ UNCHANGED <<queueVars, cur, snap, fresh, faults, histVars>>
               /\ UNCHANGED <<clusterVars, feedVars>>
      BY <2>1, <3>4, <3>5 DEF WorkerEffect, WorkerGoesOn, Provisioning, histVars
    <3>6. CASE /\ Finish("drop")
               /\ UNCHANGED <<dirty, lost, silent>>
               /\ UNCHANGED <<clusterVars, feedVars>>
      BY <2>1, <3>4, <3>6 DEF WorkerEffect, WorkerReturns
    <3>7. CASE Fail(ErrorOutcome) \/ Return("retry")
      BY <2>1, <3>7, <1>a, <1>b
    <3> QED BY <2>2, <3>5, <3>6, <3>7, <1>11 DEF DeleteLoadBalancer
  <2> QED BY <2>1, <2>2, <1>11, <1>a, <1>b, <1>c DEF DeleteLoadBalancer
<1>12. ASSUME AwaitDelete PROVE WorkerEffect
  <2>1. pc \in WorkerLabels /\ pc \in Deleting
    BY <1>12 DEF AwaitDelete, WorkerLabels, Deleting
  <2> QED BY <2>1, <1>12, <1>a, <1>b, <1>c DEF AwaitDelete
<1> QED
  BY <1>0, <1>1, <1>2, <1>3, <1>4, <1>5, <1>6, <1>7, <1>8, <1>9, <1>10, <1>11, <1>12 DEF WorkerStep

LEMMA ShapeInvariant ==
  ASSUME TypeOK, Shape, [Next]_vars
  PROVE  Shape'
<1> USE DEF Shape
<1>1. ASSUME NEW i \in Ingresses, CreateIngress(i) \/ EditIngress(i) \/ DeleteIngress(i)
      PROVE  Shape'
  BY <1>1 DEF CreateIngress, EditIngress, DeleteIngress, UserWrite, Store, TypeOK, queueVars, workVars
<1>2. ASSUME NEW i \in Ingresses, ChangeUnwatched(i)
      PROVE  Shape'
  BY <1>2, NoneAssumption DEF ChangeUnwatched, Outdate, feedVars, queueVars, TypeOK
<1>3. ASSUME NEW i \in Ingresses, Receive(i) \/ Resync(i) \/ IngressHandler(i)
      PROVE  Shape'
  BY <1>3 DEF Receive, Resync, IngressHandler, queueVars, workVars
<1>4. ASSUME NEW i \in Ingresses, BackoffOver(i)
      PROVE  Shape'
  BY <1>4 DEF BackoffOver, feedVars, workVars
<1>5. ASSUME NEW i \in Ingresses, Take(i)
      PROVE  Shape'
  BY <1>5, NoneAssumption DEF Take, feedVars, Provisioning
<1>6. ASSUME NEW i \in Ingresses, CreationEnds(i) \/ DeletionEnds(i)
      PROVE  Shape'
  BY <1>6 DEF CreationEnds, DeletionEnds, feedVars, queueVars, workVars
<1>7. ASSUME NEW kind \in DepKind, ChangeDependency(kind)
      PROVE  Shape'
  BY <1>7, NoneAssumption DEF ChangeDependency, Outdate, queueVars, TypeOK
<1>8. ASSUME NodeHandler \/ SecretHandler
      PROVE  Shape'
  BY <1>8 DEF NodeHandler, SecretHandler, DependencyHandler, workVars
<1>9. ASSUME WorkerStep
      PROVE  Shape'
  <2>1. up /\ pc # "idle" /\ cur \in Ingresses /\ cur # None /\ WorkerEffect
    BY <1>9, WorkerCases, NoneAssumption
  <2>2. CASE WorkerReads
    BY <2>1, <2>2, NoneAssumption DEF WorkerReads, Provisioning, feedVars, queueVars
  <2>3. CASE WorkerGoesOn
    BY <2>1, <2>3, NoneAssumption DEF WorkerGoesOn, Provisioning, Deleting, feedVars, queueVars
  <2>4. CASE WorkerReturns
    BY <2>1, <2>4 DEF WorkerReturns, Finish, Provisioning, feedVars
  <2>5. CASE WorkerWrites
    BY <2>1, <2>5 DEF WorkerWrites, Finish, Provisioning
  <2> QED BY <2>1, <2>2, <2>3, <2>4, <2>5 DEF WorkerEffect
<1>10. ASSUME Crash
       PROVE  Shape'
  BY <1>10 DEF Crash, Provisioning
<1>11. ASSUME Restart
       PROVE  Shape'
  BY <1>11 DEF Restart, queueVars, workVars
<1>12. CASE UNCHANGED vars
  BY <1>12 DEF vars, feedVars, queueVars, workVars
<1> QED
  BY <1>1, <1>2, <1>3, <1>4, <1>5, <1>6, <1>7, <1>8, <1>9, <1>10, <1>11, <1>12 DEF Next

LEMMA TypeInit == Init => TypeOK /\ Shape
<1> SUFFICES ASSUME Init PROVE TypeOK /\ Shape
  OBVIOUS
<1>1. watch \in [Ingresses -> Seq(Event)] /\ notes \in [Ingresses -> Seq(Event)]
  BY DEF Init
<1>2. /\ api \in [Ingresses -> Object] /\ cache \in [Ingresses -> Object]
      /\ snap \in Object /\ lb \in [Ingresses -> LoadBalancer]
  BY NoObjectType, NoLBType DEF Init
<1>3. last \in [Ingresses -> Outcome] /\ pc \in PC
  BY DEF Init, Outcome, PC
<1>4. TypeOK
  BY <1>1, <1>2, <1>3 DEF Init, TypeOK
<1>5. Shape
  BY DEF Init, Shape, Provisioning
<1> QED BY <1>4, <1>5

\* The informers, the handlers, the queue, the worker and OCI keep every
\* variable within its type.
THEOREM TypeCorrect == Spec => []TypeOK
<1>1. TypeOK /\ Shape /\ [Next]_vars => TypeOK' /\ Shape'
  BY TypeInvariant, ShapeInvariant
<1> QED BY <1>1, TypeInit, PTL DEF Spec
=============================================================================
