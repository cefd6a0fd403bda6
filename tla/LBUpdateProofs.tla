--------------------------- MODULE LBUpdateProofs ---------------------------
(***************************************************************************)
(* Proofs about LBUpdate, for any ingresses whose listeners have names     *)
(* that getSanitizedName tells apart, any number of changes and faults.    *)
(*                                                                         *)
(* The argument: every action in todo is about a sub-resource of its own   *)
(* name, and deletes only what is not specified (Planned), so a call can   *)
(* only make something as it shall be.  Each sub-resource has a phase in   *)
(* which that happens (PhaseOf); once it has begun, the sub-resource is as *)
(* it shall be or an action for it is still to be done (Accounted).  All   *)
(* but the shape: nobody waits for its change.                             *)
(*                                                                         *)
(* For requests, what a load balancer is matters less than who takes them  *)
(* and which policy is consulted.  A listener without hostname is told by  *)
(* its name, the policy of a listener is there (Routing), and what is      *)
(* there before and after an update is there all along (Kept).             *)
(***************************************************************************)
EXTENDS LBUpdate, IngressSpecProofs

SubIds == UNION {SubResources(i) : i \in Ingresses}
Names == UNION {Listeners(i) : i \in Ingresses}

\* The listeners of these ingresses have different sanitized names.
ToldApart == \A m, n \in Names : Sanitized[m] = Sanitized[n] => m = n

-----------------------------------------------------------------------------
(* The inductive invariant *)

Fixed == {<<"shape", "shape">>, <<"address", "address">>, <<"network", "network">>}
IsLB(lb) ==
    /\ lb = [x \in DOMAIN lb |-> lb[x]]
    /\ DOMAIN lb \subseteq SubIds
    /\ \A x \in DOMAIN lb : x[1] \in {"hostname", "certificate"} => lb[x] = x[2]
Whole(lb) == IsLB(lb) /\ (lb = None0 \/ Fixed \subseteq DOMAIN lb)

PlannedFor(s, a) ==
    /\ a.id \in SubIds /\ a.as = a.id
    /\ a.verb \in {"create", "update", "delete"}
    /\ a.verb = "delete" <=> a.id \notin DOMAIN s
Planned(a) == PlannedFor(spec, a)

TypeInv ==
    /\ ing \in Ingresses
    /\ phase \in Phase
    /\ Whole(oci) /\ Whole(seen) /\ Whole(reread)
    /\ reshaping # None => oci # None0
    /\ IF phase = "idle" THEN spec = None0 /\ todo = {}
       ELSE oci # None0 /\ seen # None0 /\ spec = LBSpec(ing)
    /\ \A a \in todo : Planned(a) /\ (phase \in DispatcherPhases => a.id[1] \in Dispatched)

\* When an update sees to a sub-resource, and whether it has come to a phase.
PhaseOf(x) ==
    IF x[1] \notin Dispatched THEN "pass2"
    ELSE IF x \notin DOMAIN seen THEN "create"
    ELSE IF x \in DOMAIN spec THEN "update" ELSE "delete"
Reached(p) ==
    \/ phase \in {"delete", "done"}
    \/ phase = "update" /\ p # "delete"
    \/ phase = "pass2" /\ p \in {"create", "pass2"}
    \/ phase \in {"create", "updatePolicies"} /\ p = "create"

InTodo(x) == \E a \in todo : a.id = x
Accounted ==
    \A x \in SubIds :
        x[1] \notin {"network", "shape"} /\ Reached(PhaseOf(x)) =>
            AsSpecified(x) \/ (phase = PhaseOf(x) /\ InTodo(x))

\* What was read between the passes is not changed before the second one, but
\* for the shape, whose change nobody waits for.
Fresh ==
    phase \in {"create", "updatePolicies"} /\ reread # None0 =>
        \A x \in SubIds :
            x[1] \notin Dispatched \cup {"shape"} => At(oci, x) = At(reread, x)

IInv == TypeInv /\ NothingInBetween /\ Fresh /\ Accounted

-----------------------------------------------------------------------------
(* Specifications and load balancers *)

Kinds ==
    {"backendSet", "policy", "hostname", "certificate", "ruleSet", "listener",
     "shape", "address", "network"}

\* Sub-resources are pairs; the listeners have the names NewIngressLBSpec gives.
LEMMA SubIdsArePairs ==
    ASSUME NEW x \in SubIds
    PROVE  /\ x = <<x[1], x[2]>> /\ x[1] \in Kinds
           /\ x[1] = "listener" => x[2] \in Names
           /\ x[1] \in {"shape", "address", "network"} => x \in Fixed
<1>1. PICK i \in Ingresses : x \in SubResources(i)
  BY DEF SubIds
<1> QED
  BY <1>1 DEF SubResources, Kinds, Names, Fixed

\* What NewIngressLBSpec makes of an ingress is a load balancer.
LEMMA SpecIsWhole ==
    ASSUME NEW i \in Ingresses
    PROVE  Whole(LBSpec(i)) /\ LBSpec(i) # None0
<1>1. DOMAIN LBSpec(i) = SubResources(i) /\ SubResources(i) \subseteq SubIds
  BY DEF LBSpec, SubIds
<1>2. Fixed \subseteq DOMAIN LBSpec(i)
  BY <1>1 DEF SubResources, Fixed
<1>3. LBSpec(i) # None0
  BY <1>2 DEF Fixed, None0
<1>4. ASSUME NEW x \in DOMAIN LBSpec(i), x[1] \in {"hostname", "certificate"}
      PROVE  LBSpec(i)[x] = x[2]
  BY <1>1, <1>4 DEF LBSpec
<1>5. LBSpec(i) = [x \in DOMAIN LBSpec(i) |-> LBSpec(i)[x]]
  BY DEF LBSpec
<1> QED
  BY <1>1, <1>2, <1>3, <1>4, <1>5 DEF Whole, IsLB

\* ... and so is what createLoadBalancer creates for it.
LEMMA CreatedIsWhole ==
    ASSUME NEW i \in Ingresses
    PROVE  Whole(Created(LBSpec(i))) /\ Created(LBSpec(i)) # None0
<1> DEFINE s == LBSpec(i)
           c == Created(s)
<1>1. Whole(s) /\ s # None0
  BY SpecIsWhole
<1>2. DOMAIN c = {y \in DOMAIN s : y[1] # "policy"} /\ c = [x \in DOMAIN c |-> c[x]]
  BY DEF Created
<1>3. Fixed \subseteq DOMAIN c
  BY <1>1, <1>2 DEF Whole, Fixed
<1>4. c # None0
  BY <1>3 DEF Fixed, None0
<1>5. ASSUME NEW x \in DOMAIN c, x[1] \in {"hostname", "certificate"} PROVE c[x] = x[2]
  BY <1>1, <1>2, <1>5 DEF Created, Whole, IsLB
<1> QED
  BY <1>1, <1>2, <1>3, <1>4, <1>5 DEF Whole, IsLB

-----------------------------------------------------------------------------
(* What is planned, and that nothing is forgotten *)

\* Listeners are matched with those of the same name (getListenerChanges).
LEMMA WinnersAreThemselves ==
    ASSUME ToldApart, NEW lb, IsLB(lb), NEW s, IsLB(s), NEW w \in Winners(s),
           NEW x \in Of(lb, "listener"), San(x) \in SanitizedNames(Of(s, "listener"))
    PROVE  w[San(x)] = x /\ x \in Of(s, "listener")
<1>1. w[San(x)] \in Of(s, "listener") /\ San(w[San(x)]) = San(x)
  BY DEF Winners
<1> DEFINE y == w[San(x)]
<1>2. x \in SubIds /\ x[1] = "listener" /\ y \in SubIds /\ y[1] = "listener"
  BY <1>1 DEF Of, IsLB
<1>3. x[2] = y[2]
  BY <1>1, <1>2, SubIdsArePairs DEF ToldApart, San
<1> QED
  BY <1>1, <1>2, <1>3, SubIdsArePairs

\* What UpdateLoadBalancer sets out to do.
LEMMA PassesArePlanned ==
    ASSUME ToldApart, NEW lb, IsLB(lb), NEW s, IsLB(s),
           NEW actions \in Passes(lb, s), NEW a \in actions
    PROVE  PlannedFor(s, a)
<1>1. PICK w \in Winners(s) :
          a \in BackendSetActions(lb, s) \cup ShapeActions(lb, s)
                    \cup ListenerActions(lb, s, w)
  BY DEF Passes
<1>2. CASE a \in BackendSetActions(lb, s) \cup ShapeActions(lb, s)
  BY <1>2 DEF BackendSetActions, ShapeActions, Creates, Updates, Deletes, Action, Of,
              PlannedFor, IsLB
<1>3. CASE a \in ListenerActions(lb, s, w)
  <2>1. CASE \E x \in Of(lb, "listener") :
                 /\ San(x) \notin SanitizedNames(Of(s, "listener"))
                 /\ a = Action("delete", x, x)
    BY <2>1 DEF Action, Of, PlannedFor, IsLB, SanitizedNames
  <2>2. CASE \E x \in Of(lb, "listener") :
                 /\ San(x) \in SanitizedNames(Of(s, "listener"))
                 /\ a = Action("update", x, w[San(x)])
    BY <2>2, WinnersAreThemselves DEF Action, Of, PlannedFor, IsLB
  <2>3. CASE \E x \in Of(s, "listener") : a = Action("create", x, x)
    BY <2>3 DEF Action, Of, PlannedFor, IsLB
  <2> QED
    BY <1>3, <2>1, <2>2, <2>3 DEF ListenerActions
<1> QED
  BY <1>1, <1>2, <1>3

\* ... and that it leaves nothing out that differs.
LEMMA PassesAreComplete ==
    ASSUME ToldApart, NEW lb, IsLB(lb), NEW s, IsLB(s),
           Fixed \subseteq DOMAIN lb, Fixed \subseteq DOMAIN s, AddressFits(lb, s),
           NEW actions \in Passes(lb, s),
           NEW x \in SubIds, x[1] \notin Dispatched, x[1] # "network"
    PROVE  At(lb, x) = At(s, x) \/ \E a \in actions : a.id = x
<1>1. PICK w \in Winners(s) :
          actions = BackendSetActions(lb, s) \cup ShapeActions(lb, s)
                        \cup ListenerActions(lb, s, w)
  BY DEF Passes
<1>2. SUFFICES ASSUME At(lb, x) # At(s, x)
               PROVE  \E a \in actions : a.id = x
  OBVIOUS
<1>3. x \in DOMAIN lb \cup DOMAIN s
        /\ (x \in DOMAIN lb /\ x \in DOMAIN s => lb[x] # s[x])
  BY <1>2 DEF At
<1>4. CASE x[1] = "backendSet"
  <2>1. \E verb \in {"create", "update", "delete"} :
            Action(verb, x, x) \in BackendSetActions(lb, s)
    BY <1>3, <1>4 DEF BackendSetActions, Creates, Updates, Deletes, Of
  <2> QED
    BY <1>1, <2>1 DEF Action
<1>5. CASE x[1] = "shape"
  <2>1. x \in DOMAIN lb /\ x \in DOMAIN s
    BY <1>5, SubIdsArePairs
  <2>2. Action("update", x, x) \in ShapeActions(lb, s)
    BY <1>3, <1>5, <2>1 DEF ShapeActions, Updates, Of
  <2> QED
    BY <1>1, <2>2 DEF Action
<1>6. CASE x[1] = "address"
  <2>1. x = <<"address", "address">>
    BY <1>6, SubIdsArePairs DEF Fixed
  <2> QED
    BY <2>1, <1>3 DEF AddressFits, Fixed
<1>7. CASE x[1] = "listener"
  <2>1. CASE x \in Of(lb, "listener") /\ San(x) \in SanitizedNames(Of(s, "listener"))
    <3>1. w[San(x)] = x /\ x \in Of(s, "listener")
      BY <2>1, WinnersAreThemselves
    <3>2. lb[x] # s[w[San(x)]]
      BY <3>1, <2>1, <1>3 DEF Of
    <3>3. Action("update", x, w[San(x)]) \in ListenerActions(lb, s, w)
      BY <2>1, <3>2 DEF ListenerActions
    <3> QED
      BY <1>1, <3>3 DEF Action
  <2>2. CASE x \in Of(lb, "listener") /\ San(x) \notin SanitizedNames(Of(s, "listener"))
    <3>1. Action("delete", x, x) \in ListenerActions(lb, s, w)
      BY <2>2 DEF ListenerActions
    <3> QED
      BY <1>1, <3>1 DEF Action
  <2>3. CASE x \notin Of(lb, "listener")
    <3>1. x \in Of(s, "listener") /\ x \notin DOMAIN lb
      BY <1>3, <1>7, <2>3 DEF Of
    <3>2. San(x) \notin SanitizedNames(Of(lb, "listener"))
      <4>1. ASSUME NEW y \in Of(lb, "listener"), San(x) = San(y) PROVE FALSE
        <5>1. y \in SubIds /\ y[1] = "listener" /\ x[2] \in Names /\ y[2] \in Names
          BY <1>7, SubIdsArePairs DEF Of, IsLB
        <5>2. x[2] = y[2]
          BY <4>1, <5>1 DEF ToldApart, San
        <5>3. x = y
          BY <1>7, <5>1, <5>2, SubIdsArePairs
        <5> QED
          BY <5>3, <2>3
      <4> QED
        BY <4>1 DEF SanitizedNames
    <3>3. Action("create", x, x) \in ListenerActions(lb, s, w)
      BY <3>1, <3>2 DEF ListenerActions
    <3> QED
      BY <1>1, <3>3 DEF Action
  <2> QED
    BY <2>1, <2>2, <2>3
<1> QED
  BY <1>4, <1>5, <1>6, <1>7, SubIdsArePairs DEF Kinds, Dispatched

\* What the ActionDispatcher is given (enqueueRoutingPoliciesActions and so on).
LEMMA QueuedArePlanned ==
    ASSUME IsLB(seen), IsLB(spec), NEW kinds \in SUBSET Dispatched,
           NEW a \in QueuedCreates \cup QueuedUpdates(kinds) \cup QueuedDeletes
    PROVE  Planned(a) /\ a.id[1] \in Dispatched
BY DEF QueuedCreates, QueuedUpdates, QueuedDeletes, Creates, Updates, Deletes, Action,
       Of, Planned, PlannedFor, IsLB

\* Nothing that the dispatcher has to see to is left out.
LEMMA QueuedAreComplete ==
    ASSUME IsLB(seen), IsLB(spec), NEW x \in SubIds, x[1] \in Dispatched
    PROVE  /\ x \in DOMAIN spec \ DOMAIN seen => \E a \in QueuedCreates : a.id = x
           /\ x \in DOMAIN seen \cap DOMAIN spec /\ seen[x] # spec[x]
                => \E a \in QueuedUpdates({"policy", "ruleSet"}) : a.id = x
           /\ x \in DOMAIN seen \ DOMAIN spec => \E a \in QueuedDeletes : a.id = x
<1>1. ASSUME x \in DOMAIN spec \ DOMAIN seen
      PROVE  \E a \in QueuedCreates : a.id = x
  <2>1. Action("create", x, x) \in Creates(seen, spec, x[1])
    BY <1>1 DEF Creates, Of
  <2> QED
    BY <2>1 DEF QueuedCreates, Action
<1>2. ASSUME x \in DOMAIN seen \cap DOMAIN spec, seen[x] # spec[x]
      PROVE  \E a \in QueuedUpdates({"policy", "ruleSet"}) : a.id = x
  <2>1. x[1] \in {"policy", "ruleSet"}
    BY <1>2 DEF IsLB, Dispatched
  <2>2. Action("update", x, x) \in Updates(seen, spec, x[1])
    BY <1>2 DEF Updates, Of
  <2> QED
    BY <2>1, <2>2 DEF QueuedUpdates, Action
<1>3. ASSUME x \in DOMAIN seen \ DOMAIN spec
      PROVE  \E a \in QueuedDeletes : a.id = x
  <2>1. Action("delete", x, x) \in Deletes(seen, spec, x[1])
    BY <1>3 DEF Deletes, Of
  <2> QED
    BY <2>1 DEF QueuedDeletes, Action
<1> QED
  BY <1>1, <1>2, <1>3

-----------------------------------------------------------------------------
(* What a call does *)

\* A call changes the sub-resource it is about, to what it shall be or to what
\* CreateListener makes of that, and leaves a load balancer.
LEMMA EffectOfCall ==
    ASSUME TypeInv, phase # "idle", NEW a \in todo, Permits(oci, a)
    PROVE  /\ Whole(Effect(oci, a)) /\ Effect(oci, a) # None0
           /\ \A y : y # a.id => At(Effect(oci, a), y) = At(oci, y)
           /\ \/ At(oci, a.id) # At(spec, a.id)
              \/ Effect(oci, a) = oci
           /\ \/ At(Effect(oci, a), a.id) = At(spec, a.id)
              \/ a.id \in DOMAIN spec /\ At(Effect(oci, a), a.id) = {Bare(a.id)}
<1> DEFINE lb == Effect(oci, a)
<1>1. PlannedFor(spec, a)
  BY DEF TypeInv, Planned
<1>2. Whole(oci) /\ oci # None0 /\ Whole(spec) /\ Fixed \subseteq DOMAIN spec
  BY SpecIsWhole DEF TypeInv, Whole
<1>3. \A x, y : x[1] = "listener" \/ Bare(x) = spec[x]
  BY DEF Bare
<1>4. CASE a.verb = "create"
  <2>1. lb = With(oci, a.id, Bare(a.id)) /\ a.id \notin DOMAIN oci /\ a.id \in DOMAIN spec
    BY <1>1, <1>4 DEF Effect, Permits, PlannedFor
  <2>2. a.id[1] \in {"hostname", "certificate"} => Bare(a.id) = a.id[2]
    BY <1>2, <1>3, <2>1 DEF Whole, IsLB
  <2>3. Whole(lb)
    BY <1>1, <1>2, <2>1, <2>2 DEF With, Whole, IsLB, PlannedFor
  <2>4. a.id \in DOMAIN lb
    BY <2>1 DEF With
  <2> QED
    BY <2>1, <2>3, <2>4 DEF With, At, None0
<1>5. CASE a.verb = "update"
  <2>1. lb = With(oci, a.id, spec[a.id]) /\ a.id \in DOMAIN oci /\ a.id \in DOMAIN spec
    BY <1>1, <1>5 DEF Effect, Permits, PlannedFor
  <2>2. Whole(lb)
    BY <1>1, <1>2, <2>1 DEF With, Whole, IsLB, PlannedFor
  <2>3. lb = oci \/ At(oci, a.id) # At(spec, a.id)
    BY <1>2, <2>1 DEF With, At, Whole, IsLB
  <2>4. a.id \in DOMAIN lb
    BY <2>1 DEF With
  <2> QED
    BY <2>1, <2>2, <2>3, <2>4 DEF With, At, None0
<1>6. CASE a.verb = "delete"
  <2>1. lb = Without(oci, a.id) /\ a.id \in DOMAIN oci /\ a.id \notin DOMAIN spec
    BY <1>1, <1>6 DEF Effect, Permits, PlannedFor
  <2>2. Fixed \subseteq DOMAIN lb
    BY <1>2, <2>1 DEF Without, Whole
  <2>3. Whole(lb) /\ lb # None0
    BY <1>2, <2>1, <2>2 DEF Without, Whole, IsLB, Fixed, None0
  <2> QED
    BY <2>1, <2>3 DEF Without, At
<1> QED
  BY <1>1, <1>4, <1>5, <1>6 DEF PlannedFor

-----------------------------------------------------------------------------
(* The invariant is inductive *)

\* No load balancer at all is one as well.
LEMMA NothingIsWhole == Whole(None0)
BY DEF Whole, IsLB, None0

\* While no phase but the first has begun, only NothingInBetween is at stake.
LEMMA EarlyIsAccounted ==
    ASSUME phase \in {"idle", "pass1", "reread"}
    PROVE  Accounted /\ Fresh
BY DEF Accounted, Fresh, Reached

\* An update that is over, whatever became of the load balancer.
LEMMA ForgetKeepsInv ==
    ASSUME TypeInv, ing' \in Ingresses, Whole(oci'), reshaping' # None => oci' # None0,
           Forget
    PROVE  IInv'
<1>1. TypeInv'
  BY NothingIsWhole DEF TypeInv, Forget, Phase
<1>2. NothingInBetween' /\ Accounted' /\ Fresh'
  BY DEF NothingInBetween, Accounted, Fresh, Reached, Forget
<1> QED
  BY <1>1, <1>2 DEF IInv

\* An update that begins.
LEMMA BeginKeepsInv ==
    ASSUME ToldApart, TypeInv, phase = "idle", Whole(oci'), oci' # None0, Begin(oci')
    PROVE  IInv'
<1>1. Whole(LBSpec(ing)) /\ LBSpec(ing) # None0
  BY SpecIsWhole DEF TypeInv
<1>2. spec' = LBSpec(ing) /\ seen' = oci' /\ ing' = ing /\ reread' = reread
  BY DEF Begin, envVars
<1>3. phase' \in {"pass1", "reread"}
        /\ (todo' = {} \/ (phase' = "pass1" /\ todo' \in Passes(oci', spec')))
  BY DEF Begin
<1>4. ASSUME NEW a \in todo' PROVE PlannedFor(spec', a)
  <2>1. IsLB(oci') /\ IsLB(spec') /\ todo' \in Passes(oci', spec')
    BY <1>1, <1>2, <1>3, <1>4 DEF Whole
  <2> QED
    BY <1>4, <2>1, PassesArePlanned
<1>5. TypeInv'
  BY <1>1, <1>2, <1>3, <1>4 DEF TypeInv, Planned, Phase, DispatcherPhases
<1>6. NothingInBetween'
  BY <1>2 DEF NothingInBetween, At
<1>7. Accounted' /\ Fresh'
  BY <1>3 DEF Accounted, Fresh, Reached
<1> QED
  BY <1>5, <1>6, <1>7 DEF IInv

\* On to another phase: what was seen to before is done, and what is seen to
\* now is planned.
LEMMA OnwardKeepsInv ==
    ASSUME IInv, phase # "idle", phase' \in Phase \ {"idle"}, phase \in {"pass1", "reread"} \/ todo = {},
           UNCHANGED <<ing, oci, reshaping, spec, seen>>, Whole(reread'), Fresh',
           \A a \in todo' : Planned(a) /\ (phase' \in DispatcherPhases => a.id[1] \in Dispatched),
           \A x \in SubIds :
               x[1] \notin {"network", "shape"} /\ Reached(PhaseOf(x))' =>
                   \/ Reached(PhaseOf(x))
                   \/ AsSpecified(x)
                   \/ phase' = PhaseOf(x) /\ \E a \in todo' : a.id = x
    PROVE  IInv'
<1>1. TypeInv'
  BY DEF IInv, TypeInv, Planned
<1>2. NothingInBetween'
  BY DEF IInv, NothingInBetween, AsSpecified, At, Bare
<1>3. \A x : AsSpecified(x)' = AsSpecified(x) /\ PhaseOf(x)' = PhaseOf(x)
  BY DEF AsSpecified, At, Bare, PhaseOf
<1>4. ASSUME NEW x \in SubIds, x[1] \notin {"network", "shape"}, Reached(PhaseOf(x))
      PROVE  AsSpecified(x)
  <2>1. phase \notin {"pass1", "reread"}
    BY <1>4 DEF Reached
  <2> QED
    BY <1>4, <2>1 DEF IInv, Accounted, InTodo
<1>5. Accounted'
  BY <1>3, <1>4 DEF Accounted, InTodo
<1> QED
  BY <1>1, <1>2, <1>5 DEF IInv

\* A sub-resource that is not as specified is as it was found.
LEMMA Untouched ==
    ASSUME NothingInBetween, phase # "idle", NEW x, x[1] # "shape", ~AsSpecified(x)
    PROVE  At(oci, x) = At(seen, x)
BY DEF NothingInBetween, AsSpecified, At

\* The invariant through a call that succeeds, fails or is refused.
LEMMA CallKeepsInv ==
    ASSUME IInv, NEW a \in todo, Run(a)
    PROVE  IInv'
<1>1. phase # "idle" /\ TypeInv /\ UNCHANGED <<ing, edits, pins>>
  BY DEF IInv, TypeInv, Run, envVars
<1>2. PlannedFor(spec, a)
  BY <1>1 DEF TypeInv, Planned
<1>3. oci' = oci \/ (Permits(oci, a) /\ oci' = Effect(oci, a))
  BY DEF Run, Accepted
<1>4. Whole(oci') /\ oci' # None0
  BY <1>1, <1>3, EffectOfCall DEF TypeInv
<1>5. \A y : y # a.id => At(oci', y) = At(oci, y)
  BY <1>1, <1>3, EffectOfCall
<1>6. \/ oci' = oci
      \/ At(oci', a.id) = At(spec, a.id)
      \/ a.id \in DOMAIN spec /\ At(oci', a.id) = {Bare(a.id)}
  BY <1>1, <1>3, EffectOfCall
<1>7. ASSUME UNCHANGED <<spec, seen>>
      PROVE  /\ \A x : AsSpecified(x) => AsSpecified(x)'
             /\ \A x : PhaseOf(x)' = PhaseOf(x)
             /\ phase' # "idle" => NothingInBetween'
  <2>1. \A x : Bare(x)' = Bare(x) /\ At(spec, x)' = At(spec, x) /\ At(seen, x)' = At(seen, x)
    BY <1>7 DEF Bare, At
  <2>2. \A x : At(oci, x)' = At(oci', x)
    BY DEF At
  <2>3. \A x : AsSpecified(x) => AsSpecified(x)'
    BY <1>5, <1>6, <1>7, <2>1, <2>2 DEF AsSpecified
  <2>4. \A x : PhaseOf(x)' = PhaseOf(x)
    BY <1>7 DEF PhaseOf
  <2>5. ASSUME NEW x, x[1] # "shape"
        PROVE  At(oci', x) = At(seen, x) \/ AsSpecified(x)'
    <3>1. At(oci, x) = At(seen, x) \/ AsSpecified(x)
      BY <1>1, <2>5, Untouched DEF IInv
    <3> QED
      BY <1>5, <1>6, <1>7, <2>1, <2>2, <2>3, <3>1 DEF AsSpecified
  <2> QED
    BY <2>1, <2>2, <2>3, <2>4, <2>5 DEF NothingInBetween
<1>8. CASE Succeed(a) /\ Permits(oci, a) /\ (a.id[1] = "shape" \/ oci' = Effect(oci, a))
  <2>1. phase' = phase /\ UNCHANGED <<spec, seen, reread>> /\ todo' = todo \ {a}
    BY <1>8 DEF Succeed
  <2>2. TypeInv'
    BY <1>1, <1>4, <2>1 DEF TypeInv, Planned
  <2>3. \/ a.id[1] = "shape"
        \/ At(oci', a.id) = At(spec, a.id)
        \/ a.id \in DOMAIN spec /\ At(oci', a.id) = {Bare(a.id)}
    BY <1>1, <1>8, EffectOfCall
  <2>4. a.id[1] = "shape" \/ AsSpecified(a.id)'
    BY <2>1, <2>3 DEF AsSpecified, At, Bare
  <2>5. Accounted'
    <3> SUFFICES ASSUME NEW x \in SubIds, x[1] \notin {"network", "shape"},
                        Reached(PhaseOf(x))'
                 PROVE  AsSpecified(x)' \/ (phase' = PhaseOf(x)' /\ InTodo(x)')
      BY DEF Accounted
    <3>1. Reached(PhaseOf(x))
      BY <2>1, <1>7 DEF Reached
    <3>2. AsSpecified(x) \/ (phase = PhaseOf(x) /\ InTodo(x))
      BY <3>1 DEF IInv, Accounted
    <3>3. x = a.id \/ (InTodo(x) => InTodo(x)')
      BY <2>1 DEF InTodo
    <3> QED
      BY <1>7, <2>1, <2>4, <3>2, <3>3
  <2>6. Fresh'
    BY <1>1, <1>5, <2>1 DEF IInv, TypeInv, Fresh, At, DispatcherPhases
  <2> QED
    BY <1>1, <1>7, <2>1, <2>2, <2>5, <2>6 DEF IInv
<1>9. CASE Abort
  <2>1. CASE Forget
    BY <1>1, <1>4, <2>1, ForgetKeepsInv DEF TypeInv
  <2>2. CASE phase' = "reread" /\ todo' = {} /\ UNCHANGED <<spec, seen, reread, ran>>
    <3>1. TypeInv'
      BY <1>1, <1>4, <2>2 DEF TypeInv, Phase
    <3>2. Accounted' /\ Fresh'
      BY <2>2 DEF Accounted, Fresh, Reached
    <3> QED
      BY <1>7, <2>2, <3>1, <3>2 DEF IInv
  <2> QED
    BY <1>9, <2>1, <2>2 DEF Abort
<1> QED
  BY <1>8, <1>9 DEF Run, Accepted

\* Between the passes: what was read is the load balancer itself, or nothing.
LEMMA RereadKeepsInv ==
    ASSUME IInv, Reread
    PROVE  IInv'
<1>1. /\ phase = "reread" /\ phase' = "create" /\ todo' = QueuedCreates
      /\ UNCHANGED <<ing, oci, reshaping, spec, seen>>
      /\ reread' = oci \/ reread' = None0
  BY DEF Reread, Goto, envVars
<1>2. IsLB(seen) /\ IsLB(spec) /\ Whole(oci)
  BY <1>1, SpecIsWhole DEF IInv, TypeInv, Whole
<1>3. Whole(reread') /\ Fresh'
  BY <1>1, <1>2, NothingIsWhole DEF Fresh, At
<1>4. \A a \in todo' : Planned(a) /\ a.id[1] \in Dispatched
  BY <1>1, <1>2, QueuedArePlanned
<1>5. ASSUME NEW x \in SubIds, x[1] # "shape", Reached(PhaseOf(x))'
      PROVE  AsSpecified(x) \/ (phase' = PhaseOf(x) /\ \E a \in todo' : a.id = x)
  <2>1. PhaseOf(x) = "create" /\ x[1] \in Dispatched /\ x \notin DOMAIN seen
    BY <1>1, <1>5 DEF Reached, PhaseOf
  <2>2. CASE x \in DOMAIN spec
    BY <1>1, <1>2, <2>1, <2>2, QueuedAreComplete
  <2>3. CASE x \notin DOMAIN spec
    <3>1. At(seen, x) = At(spec, x)
      BY <2>1, <2>3 DEF At
    <3> QED
      BY <1>1, <1>5, <3>1, Untouched DEF IInv, AsSpecified
  <2> QED
    BY <2>2, <2>3
<1> QED
  BY <1>1, <1>3, <1>4, <1>5, OnwardKeepsInv DEF Phase

\* The second pass begins with what was read between the passes, or never.
LEMMA PoliciesOverKeepsInv ==
    ASSUME ToldApart, IInv, PoliciesOver
    PROVE  IInv'
<1>1. phase = "updatePolicies" /\ todo = {} /\ UNCHANGED <<ing, oci, reshaping>>
  BY DEF PoliciesOver, Proceed, Goto, envVars
<1>2. CASE reread = None0 \/ ~AddressFits(reread, spec)
  <2>1. Forget
    BY <1>2 DEF PoliciesOver
  <2> QED
    BY <1>1, <2>1, ForgetKeepsInv DEF IInv, TypeInv
<1>3. CASE reread # None0 /\ AddressFits(reread, spec)
  <2>1. /\ phase' = "pass2" /\ todo' \in Passes(reread, spec)
        /\ UNCHANGED <<spec, seen, reread>>
    BY <1>3 DEF PoliciesOver, Proceed, Goto
  <2>2. /\ IsLB(reread) /\ IsLB(spec)
        /\ Fixed \subseteq DOMAIN reread /\ Fixed \subseteq DOMAIN spec
    BY <1>1, <1>3, SpecIsWhole DEF IInv, TypeInv, Whole
  <2>3. \A a \in todo' : Planned(a)
    BY <2>1, <2>2, PassesArePlanned DEF Planned
  <2>4. ASSUME NEW x \in SubIds, x[1] \notin {"network", "shape"}, Reached(PhaseOf(x))'
        PROVE  \/ Reached(PhaseOf(x))
               \/ AsSpecified(x)
               \/ phase' = PhaseOf(x) /\ \E a \in todo' : a.id = x
    <3>1. CASE x[1] \in Dispatched
      <4>1. PhaseOf(x)' = PhaseOf(x) /\ PhaseOf(x) # "pass2"
        BY <2>1, <3>1 DEF PhaseOf
      <4> QED
        BY <1>1, <2>1, <2>4, <4>1 DEF Reached
    <3>2. CASE x[1] \notin Dispatched
      <4>1. PhaseOf(x) = "pass2"
        BY <3>2 DEF PhaseOf
      <4>2. At(oci, x) = At(reread, x)
        BY <1>1, <1>3, <2>4, <3>2 DEF IInv, Fresh
      <4>3. At(reread, x) = At(spec, x) \/ \E a \in todo' : a.id = x
        BY <1>3, <2>1, <2>2, <2>4, <3>2, PassesAreComplete
      <4> QED
        BY <2>1, <4>1, <4>2, <4>3 DEF AsSpecified
    <3> QED
      BY <3>1, <3>2
  <2>5. Fresh' /\ phase' \notin DispatcherPhases /\ Whole(reread')
    BY <2>1 DEF IInv, TypeInv, Fresh, DispatcherPhases
  <2> QED
    BY <1>1, <2>1, <2>3, <2>4, <2>5, OnwardKeepsInv DEF Phase
<1> QED
  BY <1>2, <1>3

\* The other ends of phases.
LEMMA ProceedKeepsInv ==
    ASSUME IInv,
           FirstPassOver \/ CreatesOver \/ SecondPassOver \/ UpdatesOver \/ DeletesOver
    PROVE  IInv'
<1>1. /\ phase # "idle" /\ todo = {} /\ phase' \in Phase \ {"idle"}
      /\ UNCHANGED <<ing, oci, reshaping, spec, seen, reread>>
  BY DEF FirstPassOver, CreatesOver, SecondPassOver, UpdatesOver, DeletesOver, Proceed,
         Goto, envVars, Phase
<1>2. IsLB(seen) /\ IsLB(spec) /\ Whole(reread')
  BY <1>1, SpecIsWhole DEF IInv, TypeInv, Whole
<1>3. Fresh'
  BY <1>1 DEF IInv, Fresh, At, FirstPassOver, CreatesOver, SecondPassOver, UpdatesOver,
              DeletesOver, Proceed, Goto
<1>4. todo' \in {{}, QueuedUpdates({"policy"}), QueuedUpdates({"policy", "ruleSet"}),
                 QueuedDeletes}
  BY DEF FirstPassOver, CreatesOver, SecondPassOver, UpdatesOver, DeletesOver, Proceed,
         Goto
<1>5. \A a \in todo' : Planned(a) /\ a.id[1] \in Dispatched
  BY <1>2, <1>4, QueuedArePlanned DEF Dispatched
<1>6. ASSUME NEW x \in SubIds, x[1] \notin {"network", "shape"},
             Reached(PhaseOf(x))', ~Reached(PhaseOf(x))
      PROVE  AsSpecified(x) \/ (phase' = PhaseOf(x) /\ \E a \in todo' : a.id = x)
  <2>1. PhaseOf(x)' = PhaseOf(x)
    BY <1>1 DEF PhaseOf
  <2>2. CASE FirstPassOver \/ CreatesOver \/ DeletesOver
    BY <1>6, <2>1, <2>2
       DEF FirstPassOver, CreatesOver, DeletesOver, Proceed, Goto, Reached
  <2>3. CASE SecondPassOver
    <3>1. phase = "pass2" /\ phase' = "update" /\ todo' = QueuedUpdates({"policy", "ruleSet"})
      BY <2>3 DEF SecondPassOver, Proceed, Goto
    <3>2. PhaseOf(x) = "update"
      BY <1>6, <2>1, <3>1 DEF Reached, PhaseOf
    <3>3. x[1] \in Dispatched /\ x \in DOMAIN seen /\ x \in DOMAIN spec
      BY <3>2 DEF PhaseOf
    <3>4. CASE seen[x] = spec[x]
      <4>1. At(seen, x) = At(spec, x)
        BY <3>3, <3>4 DEF At
      <4> QED
        BY <1>1, <1>6, <4>1, Untouched DEF IInv, AsSpecified
    <3>5. CASE seen[x] # spec[x]
      BY <1>2, <3>1, <3>2, <3>3, <3>5, QueuedAreComplete
    <3> QED
      BY <3>4, <3>5
  <2>4. CASE UpdatesOver
    <3>1. phase = "update" /\ phase' = "delete" /\ todo' = QueuedDeletes
      BY <2>4 DEF UpdatesOver, Proceed, Goto
    <3>2. PhaseOf(x) = "delete"
      BY <1>6, <2>1, <3>1 DEF Reached
    <3>3. x[1] \in Dispatched /\ x \in DOMAIN seen /\ x \notin DOMAIN spec
      BY <3>2 DEF PhaseOf
    <3> QED
      BY <1>2, <3>1, <3>2, <3>3, QueuedAreComplete
  <2> QED
    BY <2>2, <2>3, <2>4
<1> QED
  BY <1>1, <1>2, <1>3, <1>5, <1>6, OnwardKeepsInv

\* There is no load balancer and no update at first.
LEMMA InitHasInv == Init => IInv
<1> SUFFICES ASSUME Init PROVE IInv
  OBVIOUS
<1>1. TypeInv
  BY NothingIsWhole DEF Init, TypeInv, Phase
<1>2. NothingInBetween /\ Accounted /\ Fresh
  BY DEF Init, NothingInBetween, Accounted, Fresh, Reached
<1> QED
  BY <1>1, <1>2 DEF IInv

\* Steps that change nothing of this.
LEMMA StutterKeepsInv ==
    ASSUME IInv, UNCHANGED vars
    PROVE  IInv'
<1>1. UNCHANGED <<ing, oci, reshaping, spec, seen, reread, phase, todo>>
  BY DEF vars, envVars
<1>2. TypeInv'
  BY <1>1 DEF IInv, TypeInv, Planned
<1>3. \A x : AsSpecified(x)' = AsSpecified(x) /\ PhaseOf(x)' = PhaseOf(x)
  BY <1>1 DEF AsSpecified, At, Bare, PhaseOf
<1>4. NothingInBetween' /\ Fresh'
  BY <1>1, <1>3 DEF IInv, NothingInBetween, Fresh, At
<1>5. Accounted'
  BY <1>1, <1>3 DEF IInv, Accounted, Reached, InTodo
<1> QED
  BY <1>2, <1>4, <1>5 DEF IInv

\* The end of a change of shape touches nothing else.
LEMMA ReshapeKeepsInv ==
    ASSUME IInv, ReshapeEnds
    PROVE  IInv'
<1>1. /\ TypeInv /\ oci # None0 /\ reshaping' = None
      /\ UNCHANGED <<ing, spec, seen, reread, phase, todo>>
  BY DEF ReshapeEnds, IInv, TypeInv, envVars
<1>2. \/ oci' = oci
      \/ oci' = With(oci, <<"shape", "shape">>, reshaping)
  BY DEF ReshapeEnds
<1>3. Whole(oci') /\ oci' # None0
  BY <1>1, <1>2 DEF TypeInv, Whole, IsLB, With, Fixed, None0
<1>4. \A x : x[1] # "shape" => At(oci', x) = At(oci, x)
  BY <1>2 DEF At, With
<1>5. /\ \A x : x[1] # "shape" => AsSpecified(x)' = AsSpecified(x)
      /\ \A x : PhaseOf(x)' = PhaseOf(x)
      /\ \A x : At(oci, x)' = At(oci', x)
  <2>1. \A x : At(oci, x)' = At(oci', x) /\ At(spec, x)' = At(spec, x) /\ Bare(x)' = Bare(x)
    BY <1>1 DEF At, Bare
  <2> QED
    BY <1>1, <1>4, <2>1 DEF AsSpecified, PhaseOf
<1>6. TypeInv'
  BY <1>1, <1>3 DEF TypeInv, Planned
<1>7. NothingInBetween'
  <2> SUFFICES ASSUME phase # "idle", NEW x, x[1] # "shape"
               PROVE  At(oci', x) = At(seen, x) \/ AsSpecified(x)
    BY <1>1, <1>5 DEF NothingInBetween, At
  <2> QED
    BY <1>4, Untouched DEF IInv
<1>8. Accounted'
  BY <1>1, <1>5 DEF IInv, Accounted, Reached, InTodo
<1>9. Fresh'
  BY <1>1, <1>4, <1>5 DEF IInv, Fresh, At
<1> QED
  BY <1>6, <1>7, <1>8, <1>9 DEF IInv

\* Every step keeps the invariant.
LEMMA NextKeepsInv ==
    ASSUME ToldApart, IInv, [Next]_vars
    PROVE  IInv'
<1>1. CASE EditIngress
  <2>1. /\ phase = "idle" /\ phase' = "idle" /\ ing' \in Ingresses
        /\ UNCHANGED <<oci, reshaping, spec, seen, reread, todo>>
    BY <1>1 DEF EditIngress
  <2>2. TypeInv'
    BY <2>1 DEF IInv, TypeInv
  <2> QED
    BY <2>1, <2>2 DEF IInv, NothingInBetween, Accounted, Fresh, Reached
<1>2. CASE Crash
  BY <1>2, ForgetKeepsInv DEF Crash, IInv, TypeInv, envVars
<1>3. CASE CreateLoadBalancer
  <2>1. CASE UNCHANGED vars
    BY <2>1, StutterKeepsInv
  <2>2. CASE oci' = Created(LBSpec(ing)) /\ (Begin(oci') \/ (Forget /\ UNCHANGED <<envVars, reshaping>>))
    <3>1. Whole(oci') /\ oci' # None0
      BY <2>2, CreatedIsWhole DEF IInv, TypeInv
    <3>2. phase = "idle"
      BY <1>3 DEF CreateLoadBalancer
    <3> QED
      BY <2>2, <3>1, <3>2, BeginKeepsInv, ForgetKeepsInv DEF IInv, TypeInv, envVars
  <2> QED
    BY <1>3, <2>1, <2>2 DEF CreateLoadBalancer
<1>4. CASE BeginUpdate
  <2>1. phase = "idle" /\ oci' = oci /\ oci # None0 /\ Begin(oci)
    BY <1>4 DEF BeginUpdate
  <2>2. Begin(oci')
    BY <2>1
  <2> QED
    BY <2>1, <2>2, BeginKeepsInv DEF IInv, TypeInv
<1>5. CASE \E a \in todo : Run(a)
  BY <1>5, CallKeepsInv
<1>6. CASE Return
  BY <1>6, ForgetKeepsInv DEF Return, IInv, TypeInv, envVars
<1>7. CASE NoSpecification \/ UNCHANGED vars
  BY <1>7, StutterKeepsInv DEF NoSpecification
<1> QED
  BY <1>1, <1>2, <1>3, <1>4, <1>5, <1>6, <1>7, RereadKeepsInv, PoliciesOverKeepsInv,
     ProceedKeepsInv, ReshapeKeepsInv DEF Next, Step

\* IInv is invariant for any ingresses that ToldApart admits.
THEOREM Invariance == ToldApart => (Spec => []IInv)
<1> SUFFICES ASSUME ToldApart PROVE Spec => []IInv
  OBVIOUS
<1>1. IInv /\ [Next]_vars => IInv'
  BY NextKeepsInv
<1> QED
  BY <1>1, InitHasInv, PTL DEF Spec

-----------------------------------------------------------------------------
(* What an update does and does not do *)

\* Whatever fails, a sub-resource is as it was or as it shall be while an
\* update is at work, for any ingresses whose listener names getSanitizedName
\* (load_balancer_util.go:556-569) tells apart, any number of changes and faults.
THEOREM UpdateLeavesNothingInBetween ==
    ToldApart => (Spec => []NothingInBetween)
<1>1. IInv => NothingInBetween
  BY DEF IInv
<1> QED
  BY <1>1, Invariance, PTL

\* The update that ends without an error has done all it was to do
\* (updateLoadBalancer, manager.go:240-273).
THEOREM SuccessIsComplete == ToldApart => (Spec => []SuccessMeansDone)
<1>1. ASSUME IInv PROVE SuccessMeansDone
  <2> SUFFICES ASSUME phase = "done",
                      NEW x \in Awaited(spec) \cup Awaited(oci)
               PROVE  AsSpecified(x)
    BY DEF SuccessMeansDone
  <2>1. x \in SubIds /\ x[1] \notin {"network", "shape"}
    BY <1>1, SpecIsWhole DEF IInv, TypeInv, Awaited, Updatable, Whole, IsLB
  <2>2. Reached(PhaseOf(x)) /\ phase # PhaseOf(x)
    BY DEF Reached, PhaseOf
  <2> QED
    BY <1>1, <2>1, <2>2 DEF IInv, Accounted
<1> QED
  BY <1>1, Invariance, PTL

\* A call makes the sub-resource it is about as it shall be, or does nothing to
\* it that was so already.
LEMMA CallsGoStraight ==
    ASSUME IInv, NEW a \in todo, Run(a), NEW x, At(oci, x) = At(spec, x)
    PROVE  At(oci', x) = At(spec, x)
<1>1. phase # "idle" /\ TypeInv
  BY DEF IInv, TypeInv
<1>2. oci' = oci \/ (Permits(oci, a) /\ oci' = Effect(oci, a))
  BY DEF Run, Accepted
<1>3. CASE x = a.id
  BY <1>1, <1>2, <1>3, EffectOfCall
<1>4. CASE x # a.id
  BY <1>1, <1>2, <1>4, EffectOfCall
<1> QED
  BY <1>3, <1>4

\* What is as it shall be stays so until the update is over: no host loses its
\* listener to the order of the calls (loadbalancer.go:530-580).
THEOREM UpdateUndoesNothing == ToldApart => (Spec => NeverUndone)
<1> DEFINE Straight == phase # "idle" /\ phase' # "idle" =>
                       \A x \in DOMAIN seen \cup DOMAIN spec :
                           x[1] # "shape" /\ At(oci, x) = At(spec, x)
                               => At(oci', x) = At(spec, x)
<1>1. ASSUME IInv, [Next]_vars PROVE Straight
  <2> SUFFICES ASSUME phase # "idle", phase' # "idle", NEW x, x[1] # "shape",
                      At(oci, x) = At(spec, x)
               PROVE  At(oci', x) = At(spec, x)
    OBVIOUS
  <2>1. CASE \E a \in todo : Run(a)
    BY <1>1, <2>1, CallsGoStraight
  <2>2. CASE UNCHANGED oci
    BY <2>2
  <2>3. CASE ReshapeEnds
    BY <2>3 DEF ReshapeEnds, With, At
  <2>4. (\E a \in todo : Run(a)) \/ UNCHANGED oci \/ ReshapeEnds
    BY <1>1 DEF Next, Step, EditIngress, Crash, NoSpecification, CreateLoadBalancer,
                BeginUpdate, Reread, FirstPassOver, CreatesOver, PoliciesOver,
                SecondPassOver, UpdatesOver, DeletesOver, Return, Proceed, Goto, vars,
                envVars
  <2> QED
    BY <2>1, <2>2, <2>3, <2>4
<1> QED
  BY <1>1, Invariance, PTL DEF Spec, NeverUndone

-----------------------------------------------------------------------------
(* What an update means for requests *)

\* The fields of a listener, and the listeners without a hostname.
Nameless == {NoHost, "Sans-VirtualHost-HTTP", "DefaultBackend-http"}
IsListenerOf(lb, x) ==
    /\ lb[x] = [backendSet |-> lb[x].backendSet, port |-> lb[x].port,
                hostnames |-> lb[x].hostnames, certificate |-> lb[x].certificate,
                policy |-> lb[x].policy, ruleSets |-> lb[x].ruleSets]
    /\ lb[x].hostnames = {} <=> x[2] \in Nameless

\* The listeners of a load balancer are such, their policies are there, and
\* policies are sequences of services.
PolicyThere(lb, x) == lb[x].policy = None \/ PolicyId(lb[x].policy) \in DOMAIN lb
Routing(lb) ==
    /\ \A x \in ListenerIds(lb) : IsListenerOf(lb, x) /\ PolicyThere(lb, x)
    /\ \A x \in Of(lb, "policy") : lb[x] \in Seq(Services)

\* What NewIngressLBSpec specifies is such a load balancer.
LEMMA SpecificationRoutes ==
    ASSUME NEW i \in Ingress
    PROVE  Routing(LBSpec(i))
<1> DEFINE lb == LBSpec(i)
<1>1. ASSUME NEW x \in ListenerIds(lb)
      PROVE  IsListenerOf(lb, x) /\ PolicyThere(lb, x)
  <2>1. PICK n \in Listeners(i) : x = <<"listener", n>>
    BY DEF ListenerIds, LBSpec, SubResources
  <2>2. lb[x] = Listener(i, n) /\ x[2] = n
    BY <2>1 DEF LBSpec, ListenerIds
  <2>3. RuleHosts(i) \subseteq Hosts \cup {NoHost}
    BY RuleTypes
  <2> HIDE DEF lb
  <2>4. CASE n = RedirectorName
    <3>1. Redirects(i) /\ n \notin Nameless
      BY <2>1, <2>3, <2>4, RedirectorAssumption
      DEF Listeners, DefaultListenerName, RedirectorName, Nameless
    <3>2. lb[x] = Redirector(i)
      BY <2>2, <2>4 DEF Listener, DefaultListenerName, RedirectorName
    <3> QED
      BY <2>2, <3>1, <3>2 DEF Redirector, Redirects, IsListenerOf, PolicyThere
  <2>5. CASE n = DefaultListenerName(i)
    <3>1. n \in Nameless /\ n # RedirectorName
      BY <2>5 DEF DefaultListenerName, RedirectorName, Nameless
    <3>2. lb[x] = DefaultListener(i)
      BY <2>2, <2>5, <3>1 DEF Listener
    <3> QED
      BY <2>2, <3>1, <3>2 DEF DefaultListener, IsListenerOf, PolicyThere
  <2>6. CASE n # RedirectorName /\ n # DefaultListenerName(i)
    <3>1. n \in RuleHosts(i)
      BY <2>1, <2>6 DEF Listeners
    <3>2. n \in Nameless <=> n = NoHost
      BY <2>3, <3>1, DefaultListenerAssumption DEF Nameless
    <3>3. lb[x] = HostListener(i, n)
      BY <2>2, <2>6 DEF Listener
    <3>4. PolicyId(n) \in DOMAIN lb
      BY <3>1 DEF LBSpec, SubResources, PolicyId, lb
    <3> QED
      BY <2>2, <3>2, <3>3, <3>4 DEF HostListener, IsListenerOf, PolicyThere
  <2> QED
    BY <2>4, <2>5, <2>6
<1>2. ASSUME NEW x \in Of(lb, "policy") PROVE lb[x] \in Seq(Services)
  <2>1. lb[x] = RoutingPolicy(i, x[2])
    BY <1>2 DEF Of, LBSpec
  <2> QED
    BY <2>1, PolicyType
<1> HIDE DEF lb
<1> QED
  BY <1>1, <1>2 DEF Routing, lb

\* A listener that CreateListener leaves without rule sets is the same otherwise.
LEMMA BareListener ==
    ASSUME NEW x \in ListenerIds(spec), IsListenerOf(spec, x)
    PROVE  /\ Bare(x) = [spec[x] EXCEPT !.ruleSets = {}]
           /\ Bare(x).port = spec[x].port /\ Bare(x).hostnames = spec[x].hostnames
           /\ Bare(x).policy = spec[x].policy /\ Bare(x).backendSet = spec[x].backendSet
           /\ Bare(x).certificate = spec[x].certificate /\ Bare(x).ruleSets = {}
BY DEF ListenerIds, Bare, IsListenerOf

\* After an update without error, listeners and policies are the specified ones,
\* but for rule sets.
LEMMA DoneRoutes ==
    ASSUME phase = "done", SuccessMeansDone, Routing(spec)
    PROVE  /\ \A port, h : Takes(oci, port, h) = Takes(spec, port, h)
           /\ \A x \in ListenerIds(spec) :
                  oci[x].ruleSets = spec[x].ruleSets => Backends(oci, x) = Backends(spec, x)
<1>1. \A x \in DOMAIN spec \cup DOMAIN oci : x[1] \notin {"network", "shape"} => AsSpecified(x)
  BY DEF SuccessMeansDone, Awaited, Updatable
<1>2. \A x \in DOMAIN oci : x[1] \notin {"network", "shape"} => x \in DOMAIN spec
  BY <1>1 DEF AsSpecified, At
<1>3. \A x \in DOMAIN spec :
          x[1] \notin {"network", "shape"}
              => x \in DOMAIN oci /\ (oci[x] = spec[x] \/ oci[x] = Bare(x))
  BY <1>1 DEF AsSpecified, At
<1>4. ListenerIds(oci) = ListenerIds(spec)
  BY <1>2, <1>3 DEF ListenerIds
<1>5. ASSUME NEW x \in ListenerIds(spec)
      PROVE  /\ oci[x].port = spec[x].port /\ oci[x].hostnames = spec[x].hostnames
             /\ oci[x].policy = spec[x].policy /\ oci[x].backendSet = spec[x].backendSet
             /\ PolicyThere(spec, x)
  <2>1. x \in DOMAIN spec /\ x[1] \notin {"network", "shape"}
    BY DEF ListenerIds
  <2>2. IsListenerOf(spec, x) /\ PolicyThere(spec, x)
    BY DEF Routing
  <2> QED
    BY <1>3, <2>1, <2>2, BareListener
<1>6. \A port, h : Takes(oci, port, h) = Takes(spec, port, h)
  BY <1>4, <1>5 DEF Takes
<1>7. ASSUME NEW x \in ListenerIds(spec), oci[x].ruleSets = spec[x].ruleSets
      PROVE  Backends(oci, x) = Backends(spec, x)
  <2>1. CASE spec[x].policy = None
    BY <1>5, <1>7, <2>1 DEF Backends
  <2>2. CASE spec[x].policy # None
    <3> DEFINE y == PolicyId(spec[x].policy)
    <3>1. y \in DOMAIN spec /\ y[1] = "policy"
      BY <1>5, <2>2 DEF PolicyThere, PolicyId
    <3>2. Bare(y) = spec[y]
      BY <3>1 DEF Bare
    <3>3. oci[y] = spec[y]
      BY <1>3, <3>1, <3>2
    <3> QED
      BY <1>5, <1>7, <2>2, <3>3 DEF Backends, PolicyId
  <2> QED
    BY <2>1, <2>2
<1> QED
  BY <1>6, <1>7

\* An ingress whose update has ended without an error is served as it asks: what
\* updateLoadBalancer brings about (manager.go:240-273) and what NewIngressLBSpec
\* specifies (spec.go:224-308) together, for any ingresses, any state the load
\* balancer was in and whatever has failed before.
THEOREM SuccessServesRequests == ToldApart => (Spec => []SuccessServes)
<1>1. ASSUME IInv, SuccessMeansDone PROVE SuccessServes
  <2> SUFFICES ASSUME phase = "done", NoHost \notin RuleHosts(ing),
                      NEW port \in {80, 443}, NEW h \in Hosts
               PROVE  \/ Serves(oci, ing, port, h)
                      \/ \E x \in Takes(oci, port, h) : oci[x].ruleSets # spec[x].ruleSets
    BY DEF SuccessServes
  <2>1. ing \in Ingress /\ spec = LBSpec(ing)
    BY <1>1, IngressesAssumption DEF IInv, TypeInv
  <2>2. Routing(spec) /\ Serves(spec, ing, port, h)
    BY <2>1, SpecificationRoutes, SpecificationServes
  <2>3. Takes(oci, port, h) = Takes(spec, port, h)
    BY <1>1, <2>2, DoneRoutes
  <2>4. Takes(spec, port, h) \subseteq ListenerIds(spec)
    BY DEF Takes
  <2>5. SUFFICES ASSUME \A x \in Takes(spec, port, h) : oci[x].ruleSets = spec[x].ruleSets
                 PROVE  Serves(oci, ing, port, h)
    BY <2>3
  <2>6. \A x \in Takes(spec, port, h) : Backends(oci, x) = Backends(spec, x)
    BY <1>1, <2>2, <2>4, <2>5, DoneRoutes
  <2> QED
    BY <2>2, <2>3, <2>6 DEF Serves
<1> QED
  BY <1>1, Invariance, SuccessIsComplete, PTL

\* A load balancer on the way from one to another, as far as requests go: what
\* both have it has, as in one of them; what it has, one of them has.
Alike(l, m) == l.port = m.port /\ l.hostnames = m.hostnames
Between(before, now, after) ==
    /\ \A x \in ListenerIds(before) \cap ListenerIds(after) : x \in ListenerIds(now)
    /\ \A x \in ListenerIds(now) :
           \/ x \in ListenerIds(before) /\ Alike(now[x], before[x])
           \/ x \in ListenerIds(after) /\ Alike(now[x], after[x])

\* Whoever takes a request before and after takes it all the way.
LEMMA TakenBetween ==
    ASSUME NEW before, NEW now, NEW after, Between(before, now, after),
           Routing(before), Routing(after), NEW port, NEW h,
           Takes(before, port, h) = Takes(after, port, h)
    PROVE  Takes(now, port, h) = Takes(before, port, h)
<1> DEFINE On(lb) == {x \in ListenerIds(lb) : lb[x].port = port}
           Virtual(lb) == {x \in On(lb) : h \in lb[x].hostnames}
           Nobodys(lb) == {x \in On(lb) : lb[x].hostnames = {}}
           t == Takes(before, port, h)
<1>1. \A lb : Takes(lb, port, h) = IF Virtual(lb) # {} THEN Virtual(lb) ELSE Nobodys(lb)
  BY DEF Takes
<1>2. Virtual(before) \cap Virtual(after) \subseteq Virtual(now)
  BY DEF Between, Alike
<1>3. Nobodys(before) \cap Nobodys(after) \subseteq Nobodys(now)
  BY DEF Between, Alike
<1>4. Virtual(now) \subseteq Virtual(before) \cup Virtual(after)
  BY DEF Between, Alike
<1>5. Nobodys(now) \subseteq Nobodys(before) \cup Nobodys(after)
  BY DEF Between, Alike
<1>6. Virtual(before) \cap Nobodys(after) = {} /\ Nobodys(before) \cap Virtual(after) = {}
  BY DEF Routing, IsListenerOf
<1> HIDE DEF Virtual, Nobodys
<1> QED
  BY <1>1, <1>2, <1>3, <1>4, <1>5, <1>6

-----------------------------------------------------------------------------
(* An update does not disturb what it does not change *)

\* What is there before and shall be there is there all along.
Kept ==
    phase # "idle" =>
        \A x \in DOMAIN seen \cap DOMAIN spec :
            x[1] # "shape" => x \in DOMAIN oci /\ (oci[x] = seen[x] \/ oci[x] = spec[x])
RoutingInv == Routing(oci) /\ Routing(seen) /\ Kept

\* So is what createLoadBalancer creates: its listeners have no policies.
LEMMA CreatedRoutes ==
    ASSUME NEW i \in Ingress
    PROVE  Routing(Created(LBSpec(i)))
<1> DEFINE s == LBSpec(i)
           c == Created(s)
<1>1. Routing(s)
  BY SpecificationRoutes
<1> HIDE DEF s
<1>2. ListenerIds(c) = ListenerIds(s) /\ Of(c, "policy") = {}
  BY DEF ListenerIds, Of, Created
<1>3. ASSUME NEW x \in ListenerIds(c)
      PROVE  IsListenerOf(c, x) /\ PolicyThere(c, x)
  <2>1. IsListenerOf(s, x)
    BY <1>1, <1>2 DEF Routing
  <2>2. c[x] = [s[x] EXCEPT !.policy = None]
    BY <1>2 DEF Created, ListenerIds
  <2> HIDE DEF c
  <2> QED
    BY <2>1, <2>2 DEF IsListenerOf, PolicyThere
<1> QED
  BY <1>2, <1>3 DEF Routing, s

\* What a call makes of the load balancer.
LEMMA CallRoutes ==
    ASSUME TypeInv, phase # "idle", Routing(oci), Routing(spec),
           NEW a \in todo, Permits(oci, a)
    PROVE  Routing(Effect(oci, a))
<1>1. PlannedFor(spec, a)
  BY DEF TypeInv, Planned
<1>2. CASE a.verb \in {"create", "update"}
  <2> DEFINE x == a.id
             contents == IF a.verb = "create" THEN Bare(x) ELSE spec[x]
             lb == With(oci, x, contents)
  <2>1. Effect(oci, a) = lb /\ x \in DOMAIN spec /\ References(x, contents) \subseteq DOMAIN oci
    BY <1>1, <1>2 DEF Effect, Permits, PlannedFor
  <2>2. DOMAIN oci \subseteq DOMAIN lb /\ lb[x] = contents
        /\ \A y \in DOMAIN oci : y # x => lb[y] = oci[y]
    BY DEF With
  <2>3. DOMAIN lb = DOMAIN oci \cup {x}
    BY DEF With
  <2>4. ASSUME x[1] = "listener" PROVE IsListenerOf(lb, x) /\ PolicyThere(lb, x)
    <3>1. x \in ListenerIds(spec)
      BY <2>1, <2>4 DEF ListenerIds
    <3>2. IsListenerOf(spec, x)
      BY <3>1 DEF Routing
    <3>3. lb[x] = spec[x] \/ lb[x] = Bare(x)
      BY <2>2
    <3>4. /\ lb[x].policy = spec[x].policy
          /\ IsListenerOf(lb, x)
      <4> HIDE DEF lb
      <4> QED
        BY <3>1, <3>2, <3>3, BareListener DEF IsListenerOf
    <3>5. contents.policy # None => PolicyId(contents.policy) \in References(x, contents)
      <4> HIDE DEF contents
      <4> QED
        BY <2>4 DEF References, PolicyId
    <3> HIDE DEF lb
    <3> QED
      BY <2>1, <2>2, <3>4, <3>5 DEF PolicyThere
  <2>5. ASSUME x[1] = "policy" PROVE lb[x] \in Seq(Services)
    <3>1. contents = spec[x] /\ x \in Of(spec, "policy")
      BY <2>1, <2>5 DEF Bare, Of
    <3> QED
      BY <2>2, <3>1 DEF Routing
  <2> HIDE DEF lb, contents
  <2>6. ASSUME NEW y \in ListenerIds(lb), y # x PROVE IsListenerOf(lb, y) /\ PolicyThere(lb, y)
    <3>1. y \in ListenerIds(oci) /\ lb[y] = oci[y]
      BY <2>2, <2>3, <2>6 DEF ListenerIds
    <3> QED
      BY <2>2, <3>1 DEF Routing, IsListenerOf, PolicyThere
  <2>7. ASSUME NEW y \in Of(lb, "policy"), y # x PROVE lb[y] \in Seq(Services)
    <3>1. y \in Of(oci, "policy") /\ lb[y] = oci[y]
      BY <2>2, <2>3, <2>7 DEF Of
    <3> QED
      BY <3>1 DEF Routing
  <2>8. (\A y \in ListenerIds(lb) : y[1] = "listener") /\ \A y \in Of(lb, "policy") : y[1] = "policy"
    BY DEF ListenerIds, Of
  <2> QED
    BY <2>1, <2>4, <2>5, <2>6, <2>7, <2>8 DEF Routing
<1>3. CASE a.verb = "delete"
  <2> DEFINE lb == Without(oci, a.id)
  <2>1. Effect(oci, a) = lb /\ \A y \in DOMAIN oci : a.id \notin Pins(oci, y)
    BY <1>3 DEF Effect, Permits
  <2>2. DOMAIN lb = DOMAIN oci \ {a.id} /\ \A y \in DOMAIN lb : lb[y] = oci[y]
    BY DEF Without
  <2> HIDE DEF lb
  <2>3. ASSUME NEW y \in ListenerIds(lb) PROVE IsListenerOf(lb, y) /\ PolicyThere(lb, y)
    <3>1. y \in ListenerIds(oci) /\ lb[y] = oci[y] /\ y[1] = "listener" /\ y \in DOMAIN oci
      BY <2>2 DEF ListenerIds
    <3>2. IsListenerOf(oci, y) /\ PolicyThere(oci, y)
      BY <3>1 DEF Routing
    <3>3. oci[y].policy # None => PolicyId(oci[y].policy) \in Pins(oci, y)
      BY <3>1 DEF Pins, References, PolicyId
    <3> QED
      BY <2>1, <2>2, <3>1, <3>2, <3>3 DEF IsListenerOf, PolicyThere
  <2>4. ASSUME NEW y \in Of(lb, "policy") PROVE lb[y] \in Seq(Services)
    BY <2>2 DEF Routing, Of
  <2> QED
    BY <2>1, <2>3, <2>4 DEF Routing
<1> QED
  BY <1>1, <1>2, <1>3 DEF PlannedFor

\* So is none.
LEMMA NothingRoutes == Routing(None0)
BY DEF Routing, ListenerIds, Of, None0

\* RoutingInv through a call and what becomes of the update.
LEMMA CallKeepsRouting ==
    ASSUME IInv, RoutingInv, NEW a \in todo, Run(a)
    PROVE  RoutingInv'
<1>1. phase # "idle" /\ TypeInv /\ ing \in Ingress /\ spec = LBSpec(ing)
  BY IngressesAssumption DEF IInv, TypeInv
<1>2. Routing(spec)
  BY <1>1, SpecificationRoutes
<1>3. oci' = oci \/ (Permits(oci, a) /\ oci' = Effect(oci, a))
  BY DEF Run, Accepted
<1>4. Routing(oci')
  BY <1>1, <1>2, <1>3, CallRoutes DEF RoutingInv
<1>5. (seen' = seen /\ spec' = spec) \/ (seen' = None0 /\ phase' = "idle")
  BY DEF Run, Succeed, Abort, Forget
<1>6. ASSUME seen' = seen, spec' = spec, NEW x \in DOMAIN seen \cap DOMAIN spec,
             x[1] # "shape"
      PROVE  x \in DOMAIN oci' /\ (oci'[x] = seen[x] \/ oci'[x] = spec[x])
  <2>1. x \in DOMAIN oci /\ (oci[x] = seen[x] \/ oci[x] = spec[x])
    BY <1>1, <1>6 DEF RoutingInv, Kept
  <2>2. CASE oci' = oci
    BY <2>1, <2>2
  <2>3. CASE Permits(oci, a) /\ oci' = Effect(oci, a)
    <3>1. PlannedFor(spec, a)
      BY <1>1 DEF TypeInv, Planned
    <3>2. CASE a.id = x
      <4>1. a.verb = "update"
        BY <2>1, <2>3, <3>1, <3>2 DEF PlannedFor, Permits
      <4>2. oci' = With(oci, x, spec[x])
        BY <2>3, <3>1, <3>2, <4>1 DEF Effect, PlannedFor
      <4> QED
        BY <4>2 DEF With
    <3>3. CASE a.id # x
      <4>1. At(oci', x) = At(oci, x)
        BY <1>1, <2>3, <3>3, EffectOfCall
      <4> QED
        BY <2>1, <4>1 DEF At
    <3> QED
      BY <3>2, <3>3
  <2> QED
    BY <1>3, <2>2, <2>3
<1>7. Kept'
  BY <1>5, <1>6 DEF Kept
<1>8. Routing(seen')
  BY <1>5, NothingRoutes DEF RoutingInv
<1> QED
  BY <1>4, <1>7, <1>8 DEF RoutingInv

\* The shape does not matter to requests.
LEMMA ReshapeKeepsRouting ==
    ASSUME RoutingInv, ReshapeEnds
    PROVE  RoutingInv'
<1>1. UNCHANGED <<spec, seen, phase>>
  BY DEF ReshapeEnds
<1>2. \/ oci' = oci
      \/ oci' = With(oci, <<"shape", "shape">>, reshaping)
  BY DEF ReshapeEnds
<1>3. \A x : x[1] # "shape" =>
          (x \in DOMAIN oci' <=> x \in DOMAIN oci) /\ (x \in DOMAIN oci => oci'[x] = oci[x])
  BY <1>2 DEF With
<1>4. ListenerIds(oci') = ListenerIds(oci) /\ Of(oci', "policy") = Of(oci, "policy")
  BY <1>3 DEF ListenerIds, Of
<1>5. ASSUME NEW x \in ListenerIds(oci)
      PROVE  IsListenerOf(oci', x) /\ PolicyThere(oci', x)
  <2>1. IsListenerOf(oci, x) /\ PolicyThere(oci, x) /\ oci'[x] = oci[x]
    BY <1>3 DEF RoutingInv, Routing, ListenerIds
  <2>2. \A n : PolicyId(n)[1] # "shape"
    BY DEF PolicyId
  <2> QED
    BY <1>3, <2>1, <2>2 DEF IsListenerOf, PolicyThere
<1>6. \A x \in Of(oci, "policy") : oci'[x] \in Seq(Services)
  BY <1>3 DEF RoutingInv, Routing, Of
<1>7. Routing(oci')
  BY <1>4, <1>5, <1>6 DEF Routing
<1> QED
  BY <1>1, <1>3, <1>7 DEF RoutingInv, Kept

\* RoutingInv is inductive relative to IInv.
LEMMA NextKeepsRouting ==
    ASSUME IInv, RoutingInv, [Next]_vars
    PROVE  RoutingInv'
<1>1. ASSUME Routing(oci'), seen' = oci' \/ (seen' = None0 /\ phase' = "idle")
      PROVE  RoutingInv'
  BY <1>1, NothingRoutes DEF RoutingInv, Kept
<1>2. CASE UNCHANGED <<oci, seen, spec>> /\ (phase = "idle" <=> phase' = "idle")
  BY <1>2 DEF RoutingInv, Kept
<1>3. CASE Forget /\ UNCHANGED oci
  BY <1>1, <1>3 DEF Forget, RoutingInv
<1>4. CASE CreateLoadBalancer
  <2>1. CASE oci' = Created(LBSpec(ing)) /\ (Begin(oci') \/ Forget)
    <3>1. Routing(oci')
      BY <2>1, CreatedRoutes, IngressesAssumption DEF IInv, TypeInv
    <3> QED
      BY <1>1, <2>1, <3>1 DEF Begin, Forget
  <2> QED
    BY <1>2, <1>4, <2>1 DEF CreateLoadBalancer, vars
<1>5. CASE BeginUpdate
  <2>1. oci' = oci /\ seen' = oci
    BY <1>5 DEF BeginUpdate, Begin
  <2> QED
    BY <1>1, <2>1 DEF RoutingInv
<1>6. CASE \E a \in todo : Run(a)
  BY <1>6, CallKeepsRouting
<1>7. CASE EditIngress \/ NoSpecification \/ UNCHANGED vars
  BY <1>2, <1>7 DEF EditIngress, NoSpecification, vars
<1>8. CASE Crash \/ Return
  BY <1>3, <1>8 DEF Crash, Return
<1>9. CASE \/ Reread \/ FirstPassOver \/ CreatesOver \/ PoliciesOver \/ SecondPassOver
           \/ UpdatesOver \/ DeletesOver
  <2>1. CASE Forget /\ UNCHANGED oci
    BY <1>3, <2>1
  <2>2. CASE UNCHANGED <<oci, seen, spec>> /\ phase # "idle" /\ phase' # "idle"
    BY <1>2, <2>2
  <2> QED
    BY <1>9, <2>1, <2>2
    DEF Reread, FirstPassOver, CreatesOver, PoliciesOver, SecondPassOver, UpdatesOver,
        DeletesOver, Proceed, Goto
<1> QED
  BY <1>4, <1>5, <1>6, <1>7, <1>8, <1>9, ReshapeKeepsRouting DEF Next, Step

\* Sequences that end in one element each are equal by their parts.
LEMMA LastOfEqual ==
    ASSUME NEW S, NEW s \in Seq(S), NEW t \in Seq(S), NEW a, NEW b,
           s \o <<a>> = t \o <<b>>
    PROVE  s = t /\ a = b
<1> DEFINE u == s \o <<a>>
           v == t \o <<b>>
<1>1. Len(s) \in Nat /\ Len(t) \in Nat /\ u = v
  OBVIOUS
<1>2. Len(u) = Len(s) + 1 /\ \A k \in 1..Len(s) : u[k] = s[k]
  OBVIOUS
<1>3. Len(v) = Len(t) + 1 /\ \A k \in 1..Len(t) : v[k] = t[k]
  OBVIOUS
<1>4. u[Len(s) + 1] = a /\ v[Len(t) + 1] = b
  OBVIOUS
<1> HIDE DEF u, v
<1>5. Len(s) = Len(t)
  BY <1>1, <1>2, <1>3
<1>6. \A k \in 1..Len(s) : s[k] = t[k]
  BY <1>1, <1>2, <1>3, <1>5
<1> QED
  BY <1>1, <1>4, <1>5, <1>6, SeqEqual

\* A listener with the same policy before and after, whose backends are the same,
\* has a policy with the same contents, and the same backend set behind it.
LEMMA SameParts ==
    ASSUME NEW l, Routing(l), NEW m, Routing(m), NEW x \in ListenerIds(l) \cap ListenerIds(m),
           l[x].policy = m[x].policy, Backends(l, x) = Backends(m, x),
           l[x].policy # None
    PROVE  LET y == PolicyId(l[x].policy) IN
           /\ y \in DOMAIN l \cap DOMAIN m
           /\ \/ l[x].ruleSets # {} /\ m[x].ruleSets # {}
              \/ /\ l[x].ruleSets = {} /\ m[x].ruleSets = {}
                 /\ l[y] = m[y] /\ l[x].backendSet = m[x].backendSet
<1> DEFINE y == PolicyId(l[x].policy)
<1>1. y \in DOMAIN l /\ y \in DOMAIN m
  BY DEF Routing, PolicyThere
<1>2. l[y] \in Seq(Services) /\ m[y] \in Seq(Services)
  <2>1. y[1] = "policy"
    BY DEF PolicyId
  <2> QED
    BY <1>1, <2>1 DEF Routing, Of
<1>3. /\ l[x].ruleSets = {} => Backends(l, x) = l[y] \o <<l[x].backendSet>>
      /\ m[x].ruleSets = {} => Backends(m, x) = m[y] \o <<m[x].backendSet>>
      /\ l[x].ruleSets # {} => Backends(l, x) = <<>>
      /\ m[x].ruleSets # {} => Backends(m, x) = <<>>
  BY DEF Backends, PolicyId
<1> HIDE DEF y
<1>4. /\ l[y] \o <<l[x].backendSet>> # <<>>
      /\ m[y] \o <<m[x].backendSet>> # <<>>
  BY <1>2
<1>5. l[y] \o <<l[x].backendSet>> = m[y] \o <<m[x].backendSet>>
          => l[y] = m[y] /\ l[x].backendSet = m[x].backendSet
  <2>1. \A s, t \in Seq(Services) : \A a, b : s \o <<a>> = t \o <<b>> => s = t /\ a = b
    BY LastOfEqual, Zenon
  <2> QED
    BY <1>2, <2>1
<1> QED
  BY <1>1, <1>3, <1>4, <1>5 DEF y

\* It implies the property.
LEMMA DisturbsNothing ==
    ASSUME IInv, RoutingInv
    PROVE  Undisturbed
<1> SUFFICES ASSUME phase # "idle", NEW port \in {80, 443}, NEW h \in Hosts,
                    Takes(spec, port, h) = Takes(seen, port, h)
             PROVE  /\ Takes(oci, port, h) = Takes(seen, port, h)
                    /\ \A x \in Takes(seen, port, h) :
                           seen[x].policy = spec[x].policy
                                   /\ Backends(seen, x) = Backends(spec, x)
                               => Backends(oci, x) = Backends(seen, x)
  BY DEF Undisturbed
<1>1. Routing(spec) /\ Routing(seen) /\ Routing(oci)
  <2>1. ing \in Ingress /\ spec = LBSpec(ing)
    BY IngressesAssumption DEF IInv, TypeInv
  <2> QED
    BY <2>1, SpecificationRoutes DEF RoutingInv
<1>2. \A x \in DOMAIN seen \cap DOMAIN spec :
          x[1] # "shape" => x \in DOMAIN oci /\ (oci[x] = seen[x] \/ oci[x] = spec[x])
  BY DEF RoutingInv, Kept
<1>3. ASSUME NEW x \in ListenerIds(oci)
      PROVE  \/ x \in ListenerIds(seen) /\ Alike(oci[x], seen[x])
             \/ x \in ListenerIds(spec) /\ Alike(oci[x], spec[x])
  <2>1. x \in DOMAIN oci /\ x[1] = "listener"
    BY DEF ListenerIds
  <2>2. CASE At(oci, x) = At(seen, x)
    <3>1. x \in DOMAIN seen /\ oci[x] = seen[x]
      BY <2>1, <2>2 DEF At
    <3> QED
      BY <2>1, <3>1 DEF ListenerIds, Alike
  <2>3. CASE AsSpecified(x)
    <3>1. x \in DOMAIN spec /\ (oci[x] = spec[x] \/ oci[x] = Bare(x))
      BY <2>1, <2>3 DEF AsSpecified, At
    <3>2. x \in ListenerIds(spec)
      BY <2>1, <3>1 DEF ListenerIds
    <3>3. IsListenerOf(spec, x)
      BY <1>1, <3>2 DEF Routing
    <3> QED
      BY <3>1, <3>2, <3>3, BareListener DEF Alike
  <2> QED
    BY <2>1, <2>2, <2>3 DEF IInv, NothingInBetween
<1>4. Between(seen, oci, spec)
  BY <1>2, <1>3 DEF Between, ListenerIds
<1>5. Takes(oci, port, h) = Takes(seen, port, h)
  BY <1>1, <1>4, TakenBetween
<1>6. ASSUME NEW x \in Takes(seen, port, h), seen[x].policy = spec[x].policy,
             Backends(seen, x) = Backends(spec, x)
      PROVE  Backends(oci, x) = Backends(seen, x)
  <2>1. x \in ListenerIds(seen) \cap ListenerIds(spec)
    BY DEF Takes
  <2>2. oci[x] = seen[x] \/ oci[x] = spec[x]
    BY <1>2, <2>1 DEF ListenerIds
  <2>3. CASE seen[x].policy = None
    BY <1>6, <2>2, <2>3 DEF Backends
  <2>4. CASE seen[x].policy # None
    <3> DEFINE y == PolicyId(seen[x].policy)
    <3>1. /\ y \in DOMAIN seen \cap DOMAIN spec
          /\ \/ seen[x].ruleSets # {} /\ spec[x].ruleSets # {}
             \/ /\ seen[x].ruleSets = {} /\ spec[x].ruleSets = {}
                /\ seen[y] = spec[y] /\ seen[x].backendSet = spec[x].backendSet
      BY <1>1, <1>6, <2>1, <2>4, SameParts
    <3>2. oci[y] = seen[y] \/ oci[y] = spec[y]
      BY <1>2, <3>1 DEF PolicyId
    <3> QED
      BY <1>6, <2>2, <2>4, <3>1, <3>2 DEF Backends, PolicyId
  <2> QED
    BY <2>3, <2>4
<1> QED
  BY <1>5, <1>6

\* Requests that an update does not change anything for are taken by the same
\* listener and go to the same backends at every moment of it, whatever fails
\* and whatever a failed update has left (manager.go:240-273,
\* loadbalancer.go:480-580), for any ingresses that ToldApart admits.
THEOREM UpdateDisturbsNothing == ToldApart => (Spec => []Undisturbed)
<1>1. Init => RoutingInv
  BY NothingRoutes DEF Init, RoutingInv, Kept
<1>2. IInv /\ RoutingInv /\ [Next]_vars => RoutingInv'
  BY NextKeepsRouting
<1>3. IInv /\ RoutingInv => Undisturbed
  BY DisturbsNothing
<1> QED
  BY <1>1, <1>2, <1>3, Invariance, PTL DEF Spec

-----------------------------------------------------------------------------
(* Refinement of LBGradual *)

\* Settled leaves out the shape and nothing else.
LEMMA SettledContents ==
    /\ \A lb, x : At(Settled(lb), x) = IF x[1] = "shape" THEN {} ELSE At(lb, x)
    /\ \A lb, x : x \in DOMAIN Settled(lb) <=> x \in DOMAIN lb /\ x[1] # "shape"
BY DEF Settled, At

\* A load balancer that is there has an address, which is settled.
LEMMA SettledIsThere ==
    ASSUME NEW lb
    PROVE  /\ Settled(None0) = None0
           /\ Whole(lb) /\ lb # None0 => Settled(lb) # None0
<1>1. DOMAIN None0 = {} /\ DOMAIN Settled(None0) = {}
  BY DEF None0, Settled
<1>2. Settled(None0) = None0
  BY <1>1 DEF None0, Settled
<1>3. Whole(lb) /\ lb # None0 => <<"address", "address">> \in DOMAIN Settled(lb)
  BY SettledContents DEF Whole, Fixed
<1> QED
  BY <1>1, <1>2, <1>3

\* A call is a move of the abstract update, perhaps its last.
LEMMA CallIsMove ==
    ASSUME IInv, NEW a \in todo, Run(a)
    PROVE  [Promise!Next]_<<Settled(oci), Settled(spec)>>
<1>1. phase # "idle" /\ TypeInv /\ Settled(spec) # None0
  BY SpecIsWhole, SettledIsThere DEF IInv, TypeInv
<1>2. \/ oci' = oci
      \/ Permits(oci, a) /\ oci' = Effect(oci, a) /\ oci' # oci /\ a.id[1] # "shape"
  BY DEF Run, Accepted
<1>3. Settled(spec)' \in {Settled(spec), None0}
  <2>1. spec' \in {spec, None0}
    BY DEF Run, Succeed, Abort, Forget
  <2> QED
    BY <2>1, SettledIsThere
<1>4. CASE oci' = oci
  <2>1. Settled(oci)' = Settled(oci)
    BY <1>4
  <2> QED
    BY <1>1, <1>3, <2>1 DEF Promise!Next, Promise!GiveUp
<1>5. CASE Permits(oci, a) /\ oci' = Effect(oci, a) /\ oci' # oci /\ a.id[1] # "shape"
  <2>1. PlannedFor(spec, a)
    BY <1>1 DEF TypeInv, Planned
  <2>2. /\ \A y : y # a.id => At(oci', y) = At(oci, y)
        /\ At(oci, a.id) # At(spec, a.id)
        /\ \/ At(oci', a.id) = At(spec, a.id)
           \/ a.id \in DOMAIN spec /\ At(oci', a.id) = {Bare(a.id)}
    BY <1>1, <1>5, EffectOfCall
  <2>3. /\ \A l, y : Promise!Contents(l, y) = At(l, y)
        /\ Settled(oci)' = Settled(oci')
    BY DEF Promise!Contents, At, Settled
  <2>4. a.id \in DOMAIN Settled(oci) \cup DOMAIN Settled(spec)
    BY <1>5, <2>1, SettledContents DEF Permits, PlannedFor
  <2>5. a.id \in DOMAIN spec =>
            Bare(a.id) = spec[a.id] \/ Bare(a.id) \in Forms(a.id, Settled(spec))
    BY DEF Bare, Forms, Settled
  <2>6. \/ At(oci', a.id) = At(spec, a.id)
        \/ a.id \in DOMAIN spec /\ \E f \in Forms(a.id, Settled(spec)) : At(oci', a.id) = {f}
    BY <2>2, <2>5 DEF At
  <2>7. /\ At(Settled(oci), a.id) # At(Settled(spec), a.id)
        /\ \/ At(Settled(oci'), a.id) = At(Settled(spec), a.id)
           \/ /\ a.id \in DOMAIN Settled(spec)
              /\ \E f \in Forms(a.id, Settled(spec)) : At(Settled(oci'), a.id) = {f}
        /\ \A y : y # a.id => At(Settled(oci'), y) = At(Settled(oci), y)
    BY <1>5, <2>2, <2>6, SettledContents
  <2>8. Promise!Move(a.id)
    BY <1>3, <2>3, <2>7 DEF Promise!Move
  <2> QED
    BY <1>1, <2>4, <2>8 DEF Promise!Next
<1> QED
  BY <1>2, <1>4, <1>5

\* What is created for a goal is the same whether the shape is left out before or
\* after.
LEMMA SettledCreated ==
    ASSUME NEW s
    PROVE  Settled(Created(s)) = Created(Settled(s))
<1>1. DOMAIN Settled(Created(s)) = DOMAIN Created(Settled(s))
  BY DEF Settled, Created
<1>2. ASSUME NEW x \in DOMAIN Created(Settled(s))
      PROVE  Settled(Created(s))[x] = Created(Settled(s))[x]
  BY DEF Settled, Created
<1> QED
  BY <1>1, <1>2 DEF Settled, Created

\* The calls of updateLoadBalancer, with all that fails, implement an update
\* that goes straight to its goal or is given up (LBGradual), the shape aside.
THEOREM UpdateIsGradual == ToldApart => (Spec => Gradual)
<1>1. Init => Promise!Init
  BY SettledIsThere DEF Init, Promise!Init
<1>2. ASSUME IInv, [Next]_vars PROVE [Promise!Next]_<<Settled(oci), Settled(spec)>>
  <2>1. /\ phase # "idle" => Settled(spec) # None0
        /\ oci = None0 \/ Settled(oci) # None0
        /\ Settled(None0) = None0
    BY <1>2, SpecIsWhole, SettledIsThere DEF IInv, TypeInv
  <2>2. ASSUME UNCHANGED oci PROVE Settled(oci)' = Settled(oci)
    BY <2>2
  <2>3. ASSUME phase # "idle", Forget, UNCHANGED oci PROVE Promise!Next
    <3>1. Settled(spec)' = None0
      BY <2>1, <2>3 DEF Forget
    <3> QED
      BY <2>1, <2>2, <2>3, <3>1 DEF Promise!Next, Promise!GiveUp
  <2>4. CASE UNCHANGED <<oci, spec>>
    BY <2>4
  <2>5. CASE Crash \/ PoliciesOver \/ Return
    BY <2>3, <2>4, <2>5 DEF Crash, PoliciesOver, Return, Proceed, Goto
  <2>6. CASE CreateLoadBalancer
    <3>1. phase = "idle" /\ spec = None0 /\ oci = None0 /\ ing \in Ingresses
      BY <1>2, <2>6 DEF CreateLoadBalancer, IInv, TypeInv
    <3>2. CASE oci' = Created(LBSpec(ing)) /\ spec' \in {LBSpec(ing), None0}
      <4>1. /\ Settled(oci)' = Created(Settled(LBSpec(ing)))
            /\ Settled(spec)' \in {Settled(LBSpec(ing)), None0}
        BY <2>1, <3>2, SettledCreated
      <4> QED
        BY <2>1, <3>1, <4>1 DEF Promise!Next, Promise!Create
    <3>3. CASE UNCHANGED vars
      BY <2>4, <3>3 DEF vars
    <3> QED
      BY <2>6, <3>2, <3>3 DEF CreateLoadBalancer, Begin, Forget
  <2>7. CASE BeginUpdate
    <3>1. /\ ing \in Ingresses /\ spec = None0 /\ oci # None0
          /\ spec' = LBSpec(ing) /\ UNCHANGED oci
      BY <1>2, <2>7 DEF BeginUpdate, Begin, IInv, TypeInv
    <3>2. Settled(spec)' = Settled(LBSpec(ing))
      BY <3>1
    <3> QED
      BY <2>1, <2>2, <3>1, <3>2 DEF Promise!Next, Promise!Begin
  <2>8. CASE \E a \in todo : Run(a)
    BY <1>2, <2>8, CallIsMove
  <2>9. CASE ReshapeEnds
    <3>1. spec' = spec /\ (oci' = oci \/ oci' = With(oci, <<"shape", "shape">>, reshaping))
      BY <2>9 DEF ReshapeEnds
    <3>2. Settled(oci)' = Settled(oci)
      BY <3>1 DEF Settled, With
    <3> QED
      BY <3>1, <3>2
  <2>10. CASE \/ NoSpecification \/ EditIngress \/ Reread \/ FirstPassOver \/ CreatesOver
              \/ SecondPassOver \/ UpdatesOver \/ DeletesOver \/ UNCHANGED vars
    BY <2>4, <2>10 DEF NoSpecification, EditIngress, Reread, FirstPassOver, CreatesOver,
                       SecondPassOver, UpdatesOver, DeletesOver, Proceed, Goto, vars, envVars
  <2> QED
    BY <1>2, <2>5, <2>6, <2>7, <2>8, <2>9, <2>10 DEF Next, Step
<1> QED
  BY <1>1, <1>2, Invariance, PTL DEF Spec, Gradual, Promise!Spec
=============================================================================
