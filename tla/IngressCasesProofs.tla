-------------------------- MODULE IngressCasesProofs --------------------------
(***************************************************************************)
(* What IngressCases states of an ingress, a path, annotations and a       *)
(* service holds for all of them, not only for the small ones of the run   *)
(* `spec`.  That the four stay among the cases (TypeOK) is the whole       *)
(* invariant: each property is about one case at a time, or about two, and *)
(* the work is in what the code makes of a case.                           *)
(*                                                                         *)
(* That work is done by recursive functions over sequences, with the       *)
(* inductions of IngressSpecProofs, where the proofs about the             *)
(* specification of an ingress are.                                        *)
(***************************************************************************)
EXTENDS IngressCases, IngressSpecProofs, FiniteSetTheorems

-----------------------------------------------------------------------------
(* The four stay among the cases *)

TypeOK ==
    /\ ing \in Ingresses /\ path \in Paths
    /\ annotations \in SomeAnnotations /\ cluster \in Clusters

\* Edits lead from case to case.
LEMMA TypeCorrect == Spec => []TypeOK
<1>1. Init => TypeOK
  BY CasesAssumption DEF Init, TypeOK
<1>2. TypeOK /\ [Next]_vars => TypeOK'
  BY CasesAssumption DEF TypeOK, Next, vars
<1> QED
  BY <1>1, <1>2, PTL DEF Spec

\* What the assumption on the cases says of them.
LEMMA CaseTypes ==
    /\ Ingresses \subseteq Ingress /\ SomeAnnotations \subseteq Annotations
    /\ Paths \subseteq Path(Hosts) /\ \A c \in Clusters : IsCluster(c)
BY CasesAssumption

-----------------------------------------------------------------------------
(* Ingresses *)

\* Whatever a listener or a routing policy refers to is part of the same spec
\* (spec.go:224-308, 437-450), whatever the ingress and however it is edited,
\* unless its redirector is for hosts that no rule mentions.
THEOREM SpecificationsResolve == Spec => []ReferencesResolve
<1>1. TypeOK => ReferencesResolve
  BY CaseTypes, SpecificationResolves DEF TypeOK, ReferencesResolve
<1> QED
  BY <1>1, TypeCorrect, PTL

\* A request has one listener that takes it, and that listener tries the backends
\* of all rules for the host, in order, then the default backend, or redirects
\* (spec.go:224-308, helpers.go:16-111): whatever the ingress, if all its rules
\* name a host.
THEOREM RequestsGoAsAsked == Spec => []RoutesAsAsked
<1>1. TypeOK => RoutesAsAsked
  BY CaseTypes, SpecificationServes DEF TypeOK, RoutesAsAsked
<1> QED
  BY <1>1, TypeCorrect, PTL

-----------------------------------------------------------------------------
(* What is found changed has changed *)

\* The list of a finite set is a list of that set.
LEMMA ListOfSet ==
    ASSUME NEW S, IsFiniteSet(S)
    PROVE  \A x : x \in S <=> \E k \in DOMAIN SetToSeq(S) : SetToSeq(S)[k] = x
<1> DEFINE f == SetToSeq(S)
           I == 1..Cardinality(S)
<1>1. Cardinality(S) \in Nat /\ ExistsBijection(I, S)
  BY FS_CardinalityType
<1>2. \E g \in [I -> S] : IsInjective(g)
  BY <1>1 DEF ExistsBijection, Bijection, Injection, IsInjective
<1>3. f \in [I -> S] /\ IsInjective(f)
  BY <1>2 DEF SetToSeq
<1>4. IsFiniteSet(I) /\ Cardinality(I) = Cardinality(S)
  BY <1>1, FS_Interval
<1>5. f \in Injection(I, S)
  BY <1>3 DEF Injection, IsInjective
<1>6. f \in Surjection(I, S)
  BY <1>4, <1>5, FS_Injection
<1> QED
  BY <1>3, <1>6 DEF Surjection

\* Sets sent as the same list are the same.
LEMMA SameList ==
    ASSUME NEW S, NEW T, IsFiniteSet(S), IsFiniteSet(T), SetToSeq(S) = SetToSeq(T)
    PROVE  S = T
BY ListOfSet

\* What the comparison has to tell apart of a listener.
Fields == {"backendSet", "port", "hostnames", "certificate", "policy", "ruleSets"}
IsListener(l) ==
    /\ l = [backendSet |-> l.backendSet, port |-> l.port, hostnames |-> l.hostnames,
            certificate |-> l.certificate, policy |-> l.policy, ruleSets |-> l.ruleSets]
    /\ IsFiniteSet(l.hostnames)

\* The details of a listener, and what OCI makes of them.
DetailsOf(l) ==
    [backendSet |-> l.backendSet, port |-> l.port,
     protocol |-> IF l.certificate = None THEN "HTTP" ELSE "HTTP2",
     ssl |-> IF l.certificate = None THEN {} ELSE {SSL(l.certificate)},
     idleTimeout |-> None, hostnames |-> SetToSeq(l.hostnames), policy |-> l.policy,
     ruleSets |-> l.ruleSets]

\* What is sent for a listener: there is one list of its hostnames.
LEMMA OneDetails ==
    ASSUME NEW l PROVE ListenerDetails(l) = {DetailsOf(l)}
BY DEF ListenerDetails, HostnameLists, DetailsOf

\* The comparison of what is stored for one listener with what is to be sent for
\* another, field by field (load_balancer_util.go:383-464).
LEMMA ComparisonIsExact ==
    ASSUME NEW old, NEW new, IsListener(old), IsListener(new)
    PROVE  ToldRight(old, new)
<1> DEFINE actual == StoredListener(DetailsOf(old))
           desired == DetailsOf(new)
<1>1. /\ actual.backendSet = old.backendSet /\ actual.port = old.port
      /\ actual.protocol = DetailsOf(old).protocol
      /\ actual.hostnames = SetToSeq(old.hostnames)
      /\ actual.policy = old.policy /\ actual.ruleSets = old.ruleSets
      /\ actual.ssl = {[s EXCEPT !.verify = IF @ = None THEN FALSE ELSE @] :
                           s \in DetailsOf(old).ssl}
  BY DEF StoredListener, DetailsOf
<1>2. /\ desired.backendSet = new.backendSet /\ desired.port = new.port
      /\ desired.hostnames = SetToSeq(new.hostnames)
      /\ desired.policy = new.policy /\ desired.ruleSets = new.ruleSets
      /\ desired.idleTimeout = None
  BY DEF DetailsOf
<1>3. SSLChanged(actual.ssl, desired.ssl) <=> old.certificate # new.certificate
  <2> DEFINE a == [SSL(old.certificate) EXCEPT !.verify = FALSE]
             d == SSL(new.certificate)
             Stored(s) == [s EXCEPT !.verify = IF @ = None THEN FALSE ELSE @]
  <2>1. actual.ssl = IF old.certificate = None THEN {} ELSE {a}
    <3>1. Stored(SSL(old.certificate)) = a
      BY DEF SSL
    <3>2. actual.ssl = {Stored(s) : s \in DetailsOf(old).ssl}
      BY <1>1
    <3>3. DetailsOf(old).ssl = IF old.certificate = None THEN {} ELSE {SSL(old.certificate)}
      BY DEF DetailsOf
    <3> HIDE DEF Stored, a, actual
    <3> QED
      BY <3>1, <3>2, <3>3
  <2>2. desired.ssl = IF new.certificate = None THEN {} ELSE {d}
    BY DEF DetailsOf
  <2>3. /\ a.certificate = old.certificate /\ d.certificate = new.certificate
        /\ a.depth = d.depth /\ a.verify = FALSE /\ d.verify = None
    BY DEF SSL
  <2> HIDE DEF a, d, actual, desired
  <2> QED
    BY <2>1, <2>2, <2>3, NoneAssumption DEF SSLChanged
<1>4. old.certificate = new.certificate => actual.protocol = desired.protocol
  BY <1>1 DEF DetailsOf
<1>5. actual.hostnames = desired.hostnames <=> old.hostnames = new.hostnames
  BY <1>1, <1>2, SameList DEF IsListener
<1>6. ListenerChanged(actual, desired)
        <=> \/ old.backendSet # new.backendSet \/ old.port # new.port
            \/ actual.protocol # desired.protocol \/ old.hostnames # new.hostnames
            \/ old.policy # new.policy \/ old.ruleSets # new.ruleSets
            \/ old.certificate # new.certificate
  BY <1>1, <1>2, <1>3, <1>5 DEF ListenerChanged, ConnectionChanged
<1>7. old = new <=> \A f \in Fields : old[f] = new[f]
  BY DEF IsListener, Fields
<1> QED
  BY <1>4, <1>6, <1>7, OneDetails DEF ToldRight, Fields

\* For any two ingresses, the code finds the listener that it has made for the
\* one changed just when the other asks for another one
\* (load_balancer_util.go:383-464, helpers.go:16-111): LBDiff may compare
\* listeners as a whole.
THEOREM ListenerComparisonIsExact ==
    ASSUME NEW i \in Ingress, NEW j \in Ingress, NEW n \in Listeners(i) \cap Listeners(j),
           IsFiniteSet(TLSHosts(i)), IsFiniteSet(TLSHosts(j))
    PROVE  ToldRight(Listener(i, n), Listener(j, n))
<1>1. ASSUME NEW k \in Ingress, NEW m, IsFiniteSet(TLSHosts(k))
      PROVE  IsListener(Listener(k, m))
  <2>1. IsFiniteSet({m} \ {NoHost}) /\ IsFiniteSet({})
    BY FS_Subset, FS_Singleton, FS_EmptySet
  <2>2. IsListener(Redirector(k))
    BY <1>1 DEF IsListener, Redirector
  <2>3. IsListener(DefaultListener(k))
    BY <2>1 DEF IsListener, DefaultListener
  <2>4. IsListener(HostListener(k, m))
    BY <2>1 DEF IsListener, HostListener
  <2> QED
    BY <2>2, <2>3, <2>4 DEF Listener, DefaultListenerName, RedirectorName
<1> QED
  BY <1>1, ComparisonIsExact

\* And so, whenever an ingress is edited, the code finds a listener changed just
\* when the edit asks for another one (load_balancer_util.go:383-464).
THEOREM ListenerChangesAreSeen == Spec => ListenerChangesSeen
<1> DEFINE Right ==
        \A n \in Listeners(ing) \cap Listeners(ing') :
            ToldRight(Listener(ing, n), Listener(ing', n))
<1>1. TypeOK /\ TypeOK' => Right
  BY CasesAssumption, ListenerComparisonIsExact DEF TypeOK
<1> HIDE DEF Right
<1>2. TypeOK /\ TypeOK' => [Right]_ing
  BY <1>1
<1>3. Spec => [][Right]_ing
  BY <1>2, TypeCorrect, PTL
<1> QED
  BY <1>3 DEF ListenerChangesSeen, Right

-----------------------------------------------------------------------------
(* Shapes *)

\* Clamp (sharable_helpers.go:75-86) yields a bandwidth OCI offers and leaves
\* one that is offered alone.
LEMMA ClampInRange ==
  ASSUME NEW n \in Int
  PROVE  /\ Clamp(n) \in Int
         /\ FlexShapeAbsoluteMinMbps <= Clamp(n)
         /\ Clamp(n) <= FlexShapeAbsoluteMaxMbps
         /\ FlexShapeAbsoluteMinMbps <= n /\ n <= FlexShapeAbsoluteMaxMbps
               => Clamp(n) = n
BY ShapeAssumption DEF Clamp

\* Upper (sharable_helpers.go:87-89) is not below the lower bound, within the
\* range if both are, and leaves ordered bounds alone.
LEMMA UpperOrdered ==
  ASSUME NEW m \in Int, NEW n \in Int, NEW top \in Int, m <= top, n <= top
  PROVE  /\ Upper(m, n) \in Int /\ m <= Upper(m, n) /\ Upper(m, n) <= top
         /\ m <= n => Upper(m, n) = n
BY DEF Upper

\* Whatever the annotations, and whatever the range and the defaults: the
\* bandwidths of a flexible shape are legal, they are those asked for if these
\* are legal, and a load balancer that has them is left alone
\* (sharable_helpers.go:22-91, load_balancer_util.go:521-540).
THEOREM ShapesAreInBounds == \A a \in Annotations : ShapeInBounds(a)
<1> SUFFICES ASSUME NEW a \in Annotations
             PROVE  ShapeInBounds(a)
  OBVIOUS
<1> DEFINE b == Bandwidths(a)
           s == getLBShape(a)
<1>1. AskedShape(a) \in {Flexible, Capitalized} \cup FixedShapes
  BY ShapeAssumption DEF AskedShape, Annotations
<1>2. CASE ~AsksFlexible(a)
  <2>1. s = ShapeSpec(AskedShape(a), Absent, Absent)
    BY <1>2 DEF getLBShape
  <2>2. s.name # Flexible /\ s.min = Absent
    BY <1>1, <1>2, <2>1 DEF ShapeSpec, AsksFlexible
  <2>3. Shaped(s) = s
    BY <2>1 DEF Shaped, ShapeSpec
  <2> QED BY <1>2, <2>2, <2>3 DEF ShapeInBounds, hasLoadbalancerShapeChanged
<1>3. CASE AsksFlexible(a) /\ (b[1] \notin Int \/ b[2] \notin Int)
  <2>1. s = Refused
    BY <1>3 DEF getLBShape
  <2> QED BY <2>1 DEF ShapeInBounds
<1>4. CASE AsksFlexible(a) /\ b[1] \in Int /\ b[2] \in Int
  <2>1. s = ShapeSpec(Flexible, Clamp(b[1]), Upper(Clamp(b[1]), Clamp(b[2])))
    BY <1>4 DEF getLBShape
  <2> DEFINE lower == Clamp(b[1])
             upper == Clamp(b[2])
             least == FlexShapeAbsoluteMinMbps
             most == FlexShapeAbsoluteMaxMbps
  <2>2. /\ lower \in Int /\ least <= lower /\ lower <= most
        /\ least <= b[1] /\ b[1] <= most => lower = b[1]
    BY <1>4, ClampInRange
  <2>3. /\ upper \in Int /\ least <= upper /\ upper <= most
        /\ least <= b[2] /\ b[2] <= most => upper = b[2]
    BY <1>4, ClampInRange
  <2>4. least \in Int /\ most \in Int
    BY ShapeAssumption
  <2> HIDE DEF b, lower, upper
  <2>5. /\ Upper(lower, upper) \in Int
        /\ lower <= Upper(lower, upper) /\ Upper(lower, upper) <= most
        /\ lower <= upper => Upper(lower, upper) = upper
    BY <2>2, <2>3, <2>4, UpperOrdered
  <2>6. s.name = Flexible /\ s.min = lower /\ s.max = Upper(lower, upper)
    BY <2>1 DEF ShapeSpec, lower, upper
  <2>7. Shaped(s) = s
    BY <2>6 DEF Shaped
  <2>8. least <= b[1] /\ b[1] <= b[2] /\ b[2] <= most
          => s.min = b[1] /\ s.max = b[2]
    BY <1>4, <2>2, <2>3, <2>4, <2>5, <2>6
  <2>9. ~hasLoadbalancerShapeChanged(s, Shaped(s))
    BY <2>7 DEF hasLoadbalancerShapeChanged
  <2> HIDE DEF s
  <2> QED BY <1>4, <2>2, <2>5, <2>6, <2>8, <2>9 DEF ShapeInBounds, b, s
<1> QED BY <1>2, <1>3, <1>4

\* And so, however the annotations are edited.
THEOREM ShapesStayInBounds == Spec => []ShapesInBounds
<1>1. TypeOK => ShapesInBounds
  BY CaseTypes, ShapesAreInBounds DEF TypeOK, ShapesInBounds
<1> QED
  BY <1>1, TypeCorrect, PTL

-----------------------------------------------------------------------------
(* What a rule matches *)

\* What the condition of a rule asks is asked part by part.
LEMMA Together ==
    \A r, C, D : Satisfies(r, C \cup D) <=> Satisfies(r, C) /\ Satisfies(r, D)
BY DEF Satisfies

\* The condition on the host asks for the host, with or without one of the two
\* ports.
LEMMA HostAsked ==
    ASSUME NEW text, NEW host, NEW port \in HeaderPorts, NEW satisfies, NEW h
    PROVE  Satisfies(Request(text, host, port, satisfies), HostCondition(h))
               <=> (h = host /\ port = "") \/ h \in Unnamed
<1> DEFINE r == Request(text, host, port, satisfies)
           p == Predicate("host", {<<h, "">>, <<h, "443">>, <<h, "80">>})
<1>1. CASE h \in Unnamed
  BY <1>1 DEF Satisfies, HostCondition
<1>2. CASE h \notin Unnamed
  <2>1. Satisfies(r, HostCondition(h)) <=> Holds(p, r)
    BY <1>2 DEF Satisfies, HostCondition
  <2>2. Holds(p, r) <=> <<host, port>> \in {<<h, "">>, <<h, "443">>, <<h, "80">>}
    BY DEF Holds, Predicate, Request
  <2>3. <<host, port>> \in {<<h, "">>, <<h, "443">>, <<h, "80">>}
            <=> h = host /\ port = ""
    BY DEF HeaderPorts
  <2> QED
    BY <1>2, <2>1, <2>2, <2>3
<1> QED
  BY <1>1, <1>2

\* A text begins with itself.
LEMMA OwnPrefix == ASSUME NEW S, NEW s \in Seq(S) PROVE IsPrefix(s, s)
<1>1. SubSeq(s, 1, Len(s)) = s
  OBVIOUS
<1> QED
  BY <1>1 DEF IsPrefix

\* The user's condition is one predicate for each that has to hold, or one for
\* all of them.
LEMMA CustomAsked ==
    ASSUME NEW r, NEW Q
    PROVE  /\ Satisfies(r, {Predicate("custom", q) : q \in Q}) <=> Q \subseteq r.satisfies
           /\ Satisfies(r, {Predicate("any", Q)}) <=> Q \cap r.satisfies # {}
           /\ Satisfies(r, {Predicate("not any", Q)}) <=> Q \cap r.satisfies = {}
           /\ Satisfies(r, {Predicate("not all", Q)}) <=> ~(Q \subseteq r.satisfies)
<1>1. \A q : Holds(Predicate("custom", q), r) <=> q \in r.satisfies
  BY DEF Holds, Predicate
<1>2. Holds(Predicate("any", Q), r) <=> Q \cap r.satisfies # {}
  BY DEF Holds, Predicate
<1>3. Holds(Predicate("not all", Q), r) <=> ~(Q \subseteq r.satisfies)
  BY DEF Holds, Predicate
<1>4. Satisfies(r, {Predicate("custom", q) : q \in Q}) <=> Q \subseteq r.satisfies
  BY <1>1 DEF Satisfies
<1>5. Satisfies(r, {Predicate("any", Q)}) <=> Q \cap r.satisfies # {}
  BY <1>2 DEF Satisfies
<1>6. Satisfies(r, {Predicate("not all", Q)}) <=> ~(Q \subseteq r.satisfies)
  BY <1>3 DEF Satisfies
<1>7. Holds(Predicate("not any", Q), r) <=> Q \cap r.satisfies = {}
  BY DEF Holds, Predicate
<1>8. Satisfies(r, {Predicate("not any", Q)}) <=> Q \cap r.satisfies = {}
  BY <1>7 DEF Satisfies
<1> QED
  BY <1>4, <1>5, <1>6, <1>8

\* What there is to a path of each type.
LEMMA PathTypes ==
    ASSUME NEW p \in Path(Hosts)
    PROVE  \/ /\ p.type \in {"Exact", "Prefix", "ImplementationSpecific"}
              /\ p.text \in Seq(Characters)
           \/ /\ p.type = "condition" /\ p.quantifier \in Quantifier
              /\ p.predicates \subseteq Predicates
BY DEF Path

\* A rule never matches a request for another host or another port, nor one that
\* does not satisfy the user's condition, and it matches one for its host that
\* names no port (routing_rule.go:34-68, 81-115): whatever the hosts, the paths
\* and the predicates.
THEOREM RulesKeepToTheirHosts == Spec => []HostsAsWritten
<1>1. TypeOK => HostsAsWritten
  <2> SUFFICES ASSUME path \in Path(Hosts),
                      NEW host \in Hosts, NEW port \in HeaderPorts,
                      NEW satisfies \in SUBSET Predicates
               PROVE
        LET text == IF path.type = "condition" THEN <<Slash>> ELSE path.text
            matched == Satisfies(Request(text, host, port, satisfies), RuleCondition(path))
            hostFits == (path.host = host /\ port = "") \/ path.host \in Unnamed
        IN  CASE path.type \in {"Exact", "Prefix"} -> matched <=> hostFits
              [] path.type = "ImplementationSpecific" ->
                    Accepted(path.text) => (matched => hostFits)
              [] OTHER ->
                    matched <=> /\ CustomHolds(satisfies)
                                /\ path.quantifier \in {"none", "all"} => hostFits
    BY CaseTypes DEF TypeOK, HostsAsWritten
  <2> DEFINE text == IF path.type = "condition" THEN <<Slash>> ELSE path.text
             r == Request(text, host, port, satisfies)
             matched == Satisfies(r, RuleCondition(path))
             hostFits == (path.host = host /\ port = "") \/ path.host \in Unnamed
  <2> SUFFICES CASE path.type \in {"Exact", "Prefix"} -> matched <=> hostFits
                 [] path.type = "ImplementationSpecific" ->
                       Accepted(path.text) => (matched => hostFits)
                 [] OTHER ->
                       matched <=> /\ CustomHolds(satisfies)
                                   /\ path.quantifier \in {"none", "all"} => hostFits
    OBVIOUS
  <2>0. r.satisfies = satisfies
    BY DEF Request
  <2>1. Satisfies(r, HostCondition(path.host)) <=> hostFits
    BY HostAsked
  <2>2. CASE path.type = "Exact"
    <3>1. RuleCondition(path) = HostCondition(path.host) \cup {Predicate("eq", path.text)}
      BY <2>2 DEF RuleCondition
    <3>2. Holds(Predicate("eq", path.text), r)
      BY <2>2 DEF Holds, Predicate, Request
    <3>3. Satisfies(r, {Predicate("eq", path.text)})
      BY <3>2 DEF Satisfies
    <3> HIDE DEF r, hostFits
    <3>4. matched <=> hostFits
      BY <2>1, <3>1, <3>3, Together
    <3> HIDE DEF matched
    <3> QED
      BY <2>2, <3>4
  <2>3. CASE path.type = "Prefix"
    <3>1. RuleCondition(path) = HostCondition(path.host) \cup {Predicate("sw", path.text)}
      BY <2>3 DEF RuleCondition
    <3>2. IsPrefix(path.text, text)
      BY <2>3, PathTypes, OwnPrefix
    <3>3. Holds(Predicate("sw", path.text), r)
      BY <3>2 DEF Holds, Predicate, Request
    <3>4. Satisfies(r, {Predicate("sw", path.text)})
      BY <3>3 DEF Satisfies
    <3> HIDE DEF r, hostFits
    <3>5. matched <=> hostFits
      BY <2>1, <3>1, <3>4, Together
    <3> HIDE DEF matched
    <3> QED
      BY <2>3, <3>5
  <2>4. CASE path.type = "ImplementationSpecific"
    <3>1. RuleCondition(path) = HostCondition(path.host) \cup TextCondition(path.text)
      BY <2>4 DEF RuleCondition
    <3>2. matched => hostFits
      BY <2>1, <3>1, Together
    <3> HIDE DEF matched, hostFits
    <3> QED
      BY <2>4, <3>2
  <2>5. CASE path.type = "condition"
    <3>1. CASE path.quantifier \in {"none", "all"}
      <4> DEFINE C == {Predicate("custom", p) : p \in path.predicates}
      <4>1. RuleCondition(path) = HostCondition(path.host) \cup C
        BY <2>5, <3>1 DEF RuleCondition
      <4>2. CustomHolds(satisfies) <=> path.predicates \subseteq satisfies
        BY <3>1 DEF CustomHolds
      <4>3. Satisfies(r, C) <=> path.predicates \subseteq satisfies
        <5> HIDE DEF r
        <5> QED
          BY <2>0, CustomAsked
      <4> HIDE DEF C, r, hostFits
      <4>4. matched <=> hostFits /\ CustomHolds(satisfies)
        BY <2>1, <4>1, <4>2, <4>3, Together
      <4> HIDE DEF matched
      <4> QED
        BY <2>5, <3>1, <4>4
    <3>2. CASE path.quantifier = "any"
      <4>1. RuleCondition(path) = {Predicate("any", path.predicates)}
        BY <2>5, <3>2 DEF RuleCondition
      <4>2. CustomHolds(satisfies) <=> path.predicates \cap satisfies # {}
        BY <3>2 DEF CustomHolds
      <4>3. Satisfies(r, {Predicate("any", path.predicates)}) <=> CustomHolds(satisfies)
        <5> HIDE DEF r
        <5> QED
          BY <2>0, <4>2, CustomAsked
      <4> HIDE DEF r, hostFits
      <4>4. matched <=> CustomHolds(satisfies)
        BY <4>1, <4>3
      <4> HIDE DEF matched
      <4> QED
        BY <2>5, <3>2, <4>4
    <3>3. CASE path.quantifier = "not all"
      <4>1. RuleCondition(path) = {Predicate("not all", path.predicates)}
        BY <2>5, <3>3 DEF RuleCondition
      <4>2. CustomHolds(satisfies) <=> ~(path.predicates \subseteq satisfies)
        BY <3>3 DEF CustomHolds
      <4>3. Satisfies(r, {Predicate("not all", path.predicates)}) <=> CustomHolds(satisfies)
        <5> HIDE DEF r
        <5> QED
          BY <2>0, <4>2, CustomAsked
      <4> HIDE DEF r, hostFits
      <4>4. matched <=> CustomHolds(satisfies)
        BY <4>1, <4>3
      <4> HIDE DEF matched
      <4> QED
        BY <2>5, <3>3, <4>4
    <3>4. CASE path.quantifier = "not any"
      <4>1. RuleCondition(path) = {Predicate("not any", path.predicates)}
        BY <2>5, <3>4 DEF RuleCondition
      <4>2. CustomHolds(satisfies) <=> path.predicates \cap satisfies = {}
        BY <3>4 DEF CustomHolds
      <4>3. Satisfies(r, {Predicate("not any", path.predicates)}) <=> CustomHolds(satisfies)
        <5> HIDE DEF r
        <5> QED
          BY <2>0, <4>2, CustomAsked
      <4> HIDE DEF r, hostFits
      <4>4. matched <=> CustomHolds(satisfies)
        BY <4>1, <4>3
      <4> HIDE DEF matched
      <4> QED
        BY <2>5, <3>4, <4>4
    <3> QED
      BY <2>5, <3>1, <3>2, <3>3, <3>4, PathTypes DEF Quantifier
  <2> QED
    BY <2>2, <2>3, <2>4, <2>5, PathTypes
<1> QED
  BY <1>1, TypeCorrect, PTL

-----------------------------------------------------------------------------
(* Backend sets *)

\* Append adds one element.
LEMMA AppendedSet ==
    ASSUME NEW S, NEW s \in Seq(S), NEW x \in S
    PROVE  ToSet(Append(s, x)) = ToSet(s) \cup {x}
<1> DEFINE t == Append(s, x)
<1>1. DOMAIN s = 1..Len(s) /\ DOMAIN t = 1..(Len(s) + 1) /\ Len(s) \in Nat
  OBVIOUS
<1>2. \A n \in 1..Len(s) : t[n] = s[n]
  OBVIOUS
<1>3. t[Len(s) + 1] = x
  OBVIOUS
<1> HIDE DEF t
<1>4. ToSet(t) = {t[n] : n \in 1..(Len(s) + 1)} /\ ToSet(s) = {s[n] : n \in 1..Len(s)}
  BY <1>1 DEF ToSet
<1>5. ASSUME NEW y \in ToSet(t) PROVE y \in ToSet(s) \cup {x}
  <2>1. PICK n \in 1..(Len(s) + 1) : y = t[n]
    BY <1>4
  <2>2. n \in 1..Len(s) \/ n = Len(s) + 1
    BY <1>1
  <2> QED
    BY <1>2, <1>3, <1>4, <2>1, <2>2
<1>6. ASSUME NEW y \in ToSet(s) \cup {x} PROVE y \in ToSet(t)
  <2>1. CASE y \in ToSet(s)
    <3>1. PICK n \in 1..Len(s) : y = s[n]
      BY <1>4, <2>1
    <3>2. n \in 1..(Len(s) + 1)
      BY <1>1
    <3> QED
      BY <1>2, <1>4, <3>1, <3>2
  <2>2. CASE y = x
    BY <1>1, <1>3, <1>4, <2>2
  <2> QED
    BY <2>1, <2>2
<1> QED
  BY <1>5, <1>6 DEF t

\* Nodes that have an address.
Ready(c) == {n \in DOMAIN c.address : c.address[n] # Unset}
AllBackends(c, nodePort) == {BackendOn(c, n, nodePort) : n \in DOMAIN c.address}

\* The backends, after each of the nodes.
ReadyUpTo(c, nodePort, backends) ==
    /\ backends \in [0..Len(c.order) -> Seq(AllBackends(c, nodePort))]
    /\ backends[0] = <<>>
    /\ \A k \in 1..Len(c.order) :
           backends[k] = IF c.address[c.order[k]] = Unset THEN backends[k - 1]
                         ELSE Append(backends[k - 1], BackendOn(c, c.order[k], nodePort))

\* ReadyBackends computes that.
LEMMA BackendsAreCollected ==
    ASSUME NEW c, IsCluster(c), NEW nodePort
    PROVE  \E backends : /\ ReadyUpTo(c, nodePort, backends)
                         /\ ReadyBackends(c, nodePort) = backends[Len(c.order)]
<1> DEFINE N == Len(c.order)
           B == AllBackends(c, nodePort)
           T == Seq(B)
           Step(k, b) == IF c.address[c.order[k]] = Unset THEN b
                         ELSE Append(b, BackendOn(c, c.order[k], nodePort))
           next == [x \in (1..N) \X T |-> Step(x[1], x[2])]
           Made(f) == f = [k \in 0..N |->
                              IF k = 0 THEN <<>>
                              ELSE IF c.address[c.order[k]] = Unset THEN f[k - 1]
                              ELSE Append(f[k - 1], BackendOn(c, c.order[k], nodePort))]
           backends == CHOOSE f : Made(f)
<1>1. N \in Nat /\ \A k \in 1..N : BackendOn(c, c.order[k], nodePort) \in B
  <2>1. c.order \in Seq(DOMAIN c.address)
    BY DEF IsCluster
  <2>2. N \in Nat /\ \A k \in 1..N : c.order[k] \in DOMAIN c.address
    BY <2>1
  <2> QED
    BY <2>2 DEF AllBackends
<1>2. <<>> \in T /\ next \in [(1..N) \X T -> T]
  <2>1. ASSUME NEW k \in 1..N, NEW b \in T PROVE Step(k, b) \in T
    <3> HIDE DEF B, N
    <3> QED
      BY <1>1
  <2> HIDE DEF Step
  <2> QED
    BY <2>1
<1>3. PICK f \in [0..N -> T] : f[0] = <<>> /\ \A k \in 1..N : f[k] = next[<<k, f[k - 1]>>]
  <2> HIDE DEF next, T, N
  <2>1. \E f \in [0..N -> T] : Follows(f, N, <<>>, next)
    BY <1>1, <1>2, Recursion
  <2> QED
    BY <2>1 DEF Follows
<1>4. ASSUME NEW k \in 1..N PROVE f[k] = Step(k, f[k - 1])
  <2>1. k - 1 \in 0..N
    BY <1>1
  <2>2. f[k - 1] \in T /\ <<k, f[k - 1]>> \in (1..N) \X T
    <3> HIDE DEF N, T
    <3> QED
      BY <2>1
  <2>3. next[<<k, f[k - 1]>>] = Step(k, f[k - 1])
    BY <2>2
  <2> QED
    BY <1>3, <2>3
<1>5. Made(f)
  <2>1. \A k \in 0..N : f[k] = IF k = 0 THEN <<>> ELSE Step(k, f[k - 1])
    <3> HIDE DEF Step
    <3> QED
      BY <1>1, <1>3, <1>4
  <2>2. f = [k \in 0..N |-> f[k]]
    BY <1>3
  <2> HIDE DEF N
  <2> QED
    BY <2>1, <2>2
<1>6. Made(backends)
  <2> HIDE DEF Made
  <2> QED
    BY <1>5, Zenon
<1>7. /\ backends[0] = <<>>
      /\ \A k \in 1..N : backends[k] = Step(k, backends[k - 1])
  <2> DEFINE made == [k \in 0..N |->
                         IF k = 0 THEN <<>>
                         ELSE IF c.address[c.order[k]] = Unset THEN backends[k - 1]
                         ELSE Append(backends[k - 1], BackendOn(c, c.order[k], nodePort))]
  <2>1. backends = made
    BY <1>6, Zenon
  <2>2. made[0] = <<>> /\ \A k \in 1..N : made[k] = Step(k, backends[k - 1])
    <3> HIDE DEF backends
    <3> QED
      BY <1>1
  <2> HIDE DEF made, backends
  <2> QED
    BY <2>1, <2>2
<1>8. \A k \in 0..N : f[k] = backends[k]
  <2>1. StayTogether(f, backends, N)
    <3> HIDE DEF Step, backends, N, T
    <3> QED
      BY <1>3, <1>4, <1>7 DEF StayTogether
  <2> HIDE DEF backends, N, T
  <2> QED
    BY <1>1, <2>1, SameValues
<1>9. ReadyBackends(c, nodePort) = backends[N]
  BY DEF ReadyBackends
<1> QED
  <2>1. ReadyUpTo(c, nodePort, f)
    <3> HIDE DEF backends
    <3> QED
      BY <1>3, <1>4 DEF ReadyUpTo
  <2>2. N \in 0..N /\ f[N] = backends[N]
    <3> HIDE DEF backends, N
    <3> QED
      BY <1>1, <1>8
  <2> HIDE DEF backends
  <2> QED
    BY <1>9, <2>1, <2>2

\* One backend for each node that has an address, and no other.
LEMMA BackendsAreThoseReady ==
    ASSUME NEW c, IsCluster(c), NEW nodePort
    PROVE  /\ ReadyBackends(c, nodePort) \in Seq(AllBackends(c, nodePort))
           /\ ToSet(ReadyBackends(c, nodePort)) = {BackendOn(c, n, nodePort) : n \in Ready(c)}
<1> DEFINE N == Len(c.order)
           B == AllBackends(c, nodePort)
           Upto(k) == {c.order[j] : j \in 1..k} \cap Ready(c)
           On(k) == {BackendOn(c, n, nodePort) : n \in Upto(k)}
<1>1. PICK f : ReadyUpTo(c, nodePort, f) /\ ReadyBackends(c, nodePort) = f[N]
  BY BackendsAreCollected
<1>2. N \in Nat /\ \A k \in 1..N : c.order[k] \in DOMAIN c.address
  BY DEF IsCluster
<1>3. \A k \in 0..N : f[k] \in Seq(B)
  <2> HIDE DEF B
  <2> QED
    BY <1>1 DEF ReadyUpTo, B
<1> DEFINE S == {k \in 0..N : ToSet(f[k]) = On(k)}
<1>4. 0 \in S
  <2>1. f[0] = <<>> /\ ToSet(<<>>) = {} /\ On(0) = {}
    BY <1>1 DEF ReadyUpTo, ToSet
  <2> HIDE DEF On, N
  <2> QED
    BY <1>2, <2>1
<1>5. ASSUME NEW k \in 1..N, k - 1 \in S PROVE k \in S
  <2> DEFINE n == c.order[k]
  <2>1. k - 1 \in 0..N /\ k \in 0..N /\ f[k - 1] \in Seq(B) /\ n \in DOMAIN c.address
    BY <1>2, <1>3
  <2>2. ToSet(f[k - 1]) = On(k - 1)
    BY <1>5
  <2>3. f[k] = IF c.address[n] = Unset THEN f[k - 1]
               ELSE Append(f[k - 1], BackendOn(c, n, nodePort))
    BY <1>1 DEF ReadyUpTo
  <2>4. {c.order[j] : j \in 1..k} = {c.order[j] : j \in 1..(k - 1)} \cup {n}
    <3>1. \A j : j \in 1..k <=> j \in 1..(k - 1) \/ j = k
      BY <1>2
    <3> QED
      BY <3>1
  <2>5. CASE c.address[n] = Unset
    <3>1. Upto(k) = Upto(k - 1)
      BY <2>4, <2>5 DEF Ready
    <3> HIDE DEF Upto
    <3> QED
      BY <2>1, <2>2, <2>3, <2>5, <3>1
  <2>6. CASE c.address[n] # Unset
    <3>1. Upto(k) = Upto(k - 1) \cup {n}
      BY <2>1, <2>4, <2>6 DEF Ready
    <3>2. On(k) = On(k - 1) \cup {BackendOn(c, n, nodePort)}
      <4> HIDE DEF Upto
      <4> QED
        BY <3>1
    <3>3. BackendOn(c, n, nodePort) \in B
      BY <2>1 DEF AllBackends
    <3> HIDE DEF On, B, n
    <3>4. ToSet(f[k]) = ToSet(f[k - 1]) \cup {BackendOn(c, n, nodePort)}
      BY <2>1, <2>3, <2>6, <3>3, AppendedSet
    <3> QED
      BY <2>1, <2>2, <3>2, <3>4
  <2> QED
    BY <2>5, <2>6
<1>6. N \in S
  <2>1. \A k \in 0..N : k \in S
    <3> HIDE DEF S, N
    <3> QED
      BY <1>2, <1>4, <1>5, BoundedInduction
  <2> HIDE DEF S, N
  <2> QED
    BY <1>2, <2>1
<1>7. {c.order[j] : j \in 1..N} = DOMAIN c.address
  <2>1. DOMAIN c.order = 1..N
    BY DEF IsCluster
  <2> QED
    BY <2>1 DEF IsCluster, ToSet
<1>8. Upto(N) = Ready(c)
  BY <1>7 DEF Ready
<1> QED
  <2>1. N \in 0..N
    BY <1>2
  <2>2. ReadyBackends(c, nodePort) \in Seq(B)
    BY <1>1, <1>3, <2>1
  <2>3. ToSet(ReadyBackends(c, nodePort)) = On(N)
    BY <1>1, <1>6
  <2> HIDE DEF Upto, N
  <2> QED
    BY <1>8, <2>2, <2>3

\* What Reverse(s) is, by index.
LEMMA ReversedTypes ==
    ASSUME NEW S, NEW s \in Seq(S)
    PROVE  /\ Reverse(s) \in Seq(S) /\ Len(Reverse(s)) = Len(s)
           /\ \A k \in 1..Len(s) : Reverse(s)[k] = s[Len(s) - k + 1]
<1>1. Len(s) \in Nat /\ \A k \in 1..Len(s) : Len(s) - k + 1 \in 1..Len(s)
  OBVIOUS
<1> QED
  BY <1>1 DEF Reverse

\* Reverse keeps the elements.
LEMMA ReversedSet ==
    ASSUME NEW S, NEW s \in Seq(S)
    PROVE  ToSet(Reverse(s)) = ToSet(s)
<1>1. DOMAIN s = 1..Len(s) /\ Len(s) \in Nat
  OBVIOUS
<1>2. DOMAIN Reverse(s) = 1..Len(s) /\ \A k \in 1..Len(s) : Reverse(s)[k] = s[Len(s) - k + 1]
  BY <1>1 DEF Reverse
<1>3. \A k \in 1..Len(s) : Len(s) - k + 1 \in 1..Len(s) /\ Len(s) - (Len(s) - k + 1) + 1 = k
  BY <1>1
<1>4. ASSUME NEW x \in ToSet(s) PROVE x \in ToSet(Reverse(s))
  <2>1. PICK k \in 1..Len(s) : x = s[k]
    BY <1>1 DEF ToSet
  <2> QED
    BY <1>2, <1>3, <2>1 DEF ToSet
<1>5. ASSUME NEW x \in ToSet(Reverse(s)) PROVE x \in ToSet(s)
  <2>1. PICK k \in 1..Len(s) : x = s[Len(s) - k + 1]
    BY <1>2 DEF ToSet
  <2> QED
    BY <1>1, <1>3, <2>1 DEF ToSet
<1> QED
  BY <1>4, <1>5

\* The health check that is sent leaves the return code to OCI; else, one that
\* OCI has returned is found changed if it is another one.
LEMMA HealthComparison ==
    ASSUME NEW c, NEW d, NEW code
    PROVE  HealthCheckerChanged([HealthChecker(c) EXCEPT !.returnCode = code], HealthChecker(d))
               <=> HealthChecker(c) # HealthChecker(d)
BY DEF HealthCheckerChanged, HealthChecker

DetailsTypesOf(c, k, x, stored) ==
    /\ x.backends \in Seq(AllBackends(c, c.ports[k].nodePort))
    /\ stored.backends = Reverse(x.backends)
    /\ stored.policy = x.policy
    /\ stored.health = [HealthChecker(c) EXCEPT !.returnCode = 200]
    /\ x.health = HealthChecker(c)

\* BackendSetDetails makes a backend set of such parts.
LEMMA DetailsTypes ==
    ASSUME NEW c, IsCluster(c), NEW k \in DOMAIN c.ports
    PROVE  DetailsTypesOf(c, k, BackendSetDetails(c, k), StoredBackendSet(BackendSetDetails(c, k)))
<1> DEFINE x == BackendSetDetails(c, k)
<1>1. x.backends \in Seq(AllBackends(c, c.ports[k].nodePort))
  BY BackendsAreThoseReady DEF BackendSetDetails
<1>2. /\ StoredBackendSet(x).backends = Reverse(x.backends)
      /\ StoredBackendSet(x).policy = x.policy
  BY DEF StoredBackendSet, BackendSetDetails
<1>3. x.health = HealthChecker(c)
  BY DEF BackendSetDetails
<1>4. HealthChecker(c).returnCode = 0
  BY DEF HealthChecker
<1>5. StoredBackendSet(x).health = [HealthChecker(c) EXCEPT !.returnCode = 200]
  BY <1>4 DEF StoredBackendSet, BackendSetDetails
<1> QED
  BY <1>1, <1>2, <1>3, <1>5 DEF DetailsTypesOf

\* All backends of a set have the same port, so to compare that of the first is
\* to compare no more than the addresses.
LEMMA OnePort ==
    ASSUME NEW c, NEW nodePort, NEW b \in Seq(AllBackends(c, nodePort)), b # <<>>
    PROVE  /\ Head(b).port = nodePort
           /\ Addressed(b) # {} /\ \A a \in Addressed(b) : a.port = nodePort
<1>1. DOMAIN b = 1..Len(b) /\ 1 \in 1..Len(b) /\ \A n \in 1..Len(b) : b[n] \in AllBackends(c, nodePort)
  OBVIOUS
<1>2. ToSet(b) = {b[n] : n \in 1..Len(b)}
  BY <1>1 DEF ToSet
<1>3. b[1] \in ToSet(b) /\ ToSet(b) \subseteq AllBackends(c, nodePort)
  BY <1>1, <1>2
<1>4. \A x \in AllBackends(c, nodePort) : x.port = nodePort
  BY DEF AllBackends, BackendOn
<1>5. Head(b) = b[1]
  OBVIOUS
<1>6. Head(b).port = nodePort
  BY <1>3, <1>4, <1>5
<1>7. [ip |-> b[1].ip, port |-> b[1].port] \in Addressed(b)
  BY <1>3 DEF Addressed
<1>8. ASSUME NEW a \in Addressed(b) PROVE a.port = nodePort
  <2>1. PICK x \in ToSet(b) : a = [ip |-> x.ip, port |-> x.port]
    BY DEF Addressed
  <2> QED
    BY <1>3, <1>4, <2>1
<1> QED
  BY <1>6, <1>7, <1>8

\* The comparison of the backend sets of two services, or of one as it was and is
\* (load_balancer_util.go:157-260).
LEMMA DetailsComparison ==
    ASSUME NEW c, IsCluster(c), NEW j \in DOMAIN c.ports,
           NEW d, IsCluster(d), NEW k \in DOMAIN d.ports
    PROVE  LET old == BackendSetDetails(c, j)
               new == BackendSetDetails(d, k)
           IN  BackendSetChanged(StoredBackendSet(old), new)
                   <=> Substance(old) # Substance(new)
<1> DEFINE old == BackendSetDetails(c, j)
           new == BackendSetDetails(d, k)
           actual == StoredBackendSet(old)
<1>0. DetailsTypesOf(c, j, old, actual) /\ DetailsTypesOf(d, k, new, StoredBackendSet(new))
  BY DetailsTypes
<1> HIDE DEF old, new, actual
<1>1. /\ old.backends \in Seq(AllBackends(c, c.ports[j].nodePort))
      /\ new.backends \in Seq(AllBackends(d, d.ports[k].nodePort))
      /\ actual.backends = Reverse(old.backends) /\ actual.policy = old.policy
      /\ actual.health = [HealthChecker(c) EXCEPT !.returnCode = 200]
      /\ old.health = HealthChecker(c) /\ new.health = HealthChecker(d)
  BY <1>0 DEF DetailsTypesOf
<1>2. HealthCheckerChanged(actual.health, new.health) <=> old.health # new.health
  <2>1. HealthCheckerChanged([HealthChecker(c) EXCEPT !.returnCode = 200], HealthChecker(d))
            <=> HealthChecker(c) # HealthChecker(d)
    BY HealthComparison
  <2> QED
    BY <1>1, <2>1
<1>3. Addressed(actual.backends) = Addressed(old.backends)
  <2>1. ToSet(actual.backends) = ToSet(old.backends)
    BY <1>1, ReversedSet
  <2> QED
    BY <2>1 DEF Addressed
<1>4. ASSUME actual.backends # <<>>, new.backends # <<>>,
             Head(actual.backends).port # Head(new.backends).port
      PROVE  Addressed(actual.backends) # Addressed(new.backends)
  <2>1. actual.backends \in Seq(AllBackends(c, c.ports[j].nodePort))
    BY <1>1, ReversedTypes
  <2>2. /\ Head(actual.backends).port = c.ports[j].nodePort
        /\ Addressed(actual.backends) # {}
        /\ \A a \in Addressed(actual.backends) : a.port = c.ports[j].nodePort
    BY <1>4, <2>1, OnePort
  <2>3. /\ Head(new.backends).port = d.ports[k].nodePort
        /\ \A a \in Addressed(new.backends) : a.port = d.ports[k].nodePort
    BY <1>1, <1>4, OnePort
  <2> QED
    BY <1>4, <2>2, <2>3
<1>5. Substance(old) # Substance(new) <=>
          \/ Addressed(old.backends) # Addressed(new.backends)
          \/ old.policy # new.policy \/ old.health # new.health
  BY DEF Substance
<1>6. BackendSetChanged(actual, new) <=>
          \/ old.health # new.health
          \/ /\ actual.backends # <<>> /\ new.backends # <<>>
             /\ Head(actual.backends).port # Head(new.backends).port
          \/ old.policy # new.policy
          \/ Addressed(old.backends) # Addressed(new.backends)
  BY <1>1, <1>2, <1>3 DEF BackendSetChanged
<1>7. BackendSetChanged(actual, new) <=> Substance(old) # Substance(new)
  BY <1>3, <1>4, <1>5, <1>6
<1> QED
  BY <1>7 DEF old, new, actual

\* Every backend set is that of one of the ports.
LEMMA SetsOfPorts ==
    ASSUME NEW c, IsCluster(c), NEW name \in DOMAIN BackendSets(c)
    PROVE  \E k \in DOMAIN c.ports :
               NameOf(c, k) = name /\ BackendSets(c)[name] = BackendSetDetails(c, k)
<1> DEFINE Latest(k) == \A j \in DOMAIN c.ports : NameOf(c, j) = name => j <= k
           last == CHOOSE k \in DOMAIN c.ports : NameOf(c, k) = name /\ Latest(k)
<1>1. name \in {NameOf(c, k) : k \in DOMAIN c.ports}
  BY DEF BackendSets
<1>2. BackendSets(c)[name] = BackendSetDetails(c, last)
  BY <1>1 DEF BackendSets
<1>3. \E k \in DOMAIN c.ports : NameOf(c, k) = name /\ Latest(k)
  <2>1. DOMAIN c.ports = 1..Len(c.ports) /\ Len(c.ports) \in Nat
    BY DEF IsCluster
  <2>2. PICK i \in DOMAIN c.ports : NameOf(c, i) = name
    BY <1>1
  <2> DEFINE S == {k \in DOMAIN c.ports : NameOf(c, k) = name}
             T == {Len(c.ports) - k : k \in S}
  <2>3. T \subseteq Nat /\ T # {}
    <3>1. i \in S
      BY <2>2
    <3>2. \A k \in S : Len(c.ports) - k \in Nat
      BY <2>1
    <3> HIDE DEF S
    <3> QED
      BY <3>1, <3>2
  <2>4. PICK t \in T : \A u \in T : ~(u < t)
    <3> HIDE DEF T
    <3> QED
      BY <2>3, LeastNumber
  <2>5. PICK k \in S : t = Len(c.ports) - k
    BY <2>4
  <2>6. ASSUME NEW j \in DOMAIN c.ports, NameOf(c, j) = name PROVE j <= k
    <3>1. Len(c.ports) - j \in T
      BY <2>6
    <3>2. ~(Len(c.ports) - j < Len(c.ports) - k)
      BY <2>4, <2>5, <3>1
    <3> QED
      BY <2>1, <3>2
  <2> QED
    BY <2>5, <2>6
<1>4. last \in DOMAIN c.ports /\ NameOf(c, last) = name
  <2> HIDE DEF Latest
  <2> QED
    BY <1>3
<1> QED
  BY <1>2, <1>4

\* A backend set is found changed when there is something to it that is new, and
\* never because of the order of a map or of what OCI filled in
\* (load_balancer_util.go:157-260): whatever the services and the nodes.
THEOREM BackendSetChangesAreSeen == Spec => BackendSetChangesSeen
<1>1. ASSUME NEW c, IsCluster(c), NEW d, IsCluster(d),
             NEW name \in DOMAIN BackendSets(c) \cap DOMAIN BackendSets(d)
      PROVE  BackendSetChanged(StoredBackendSet(BackendSets(c)[name]), BackendSets(d)[name])
                 <=> Substance(BackendSets(c)[name]) # Substance(BackendSets(d)[name])
  <2>1. PICK j \in DOMAIN c.ports : BackendSets(c)[name] = BackendSetDetails(c, j)
    BY <1>1, SetsOfPorts
  <2>2. PICK k \in DOMAIN d.ports : BackendSets(d)[name] = BackendSetDetails(d, k)
    BY <1>1, SetsOfPorts
  <2> QED
    BY <1>1, <2>1, <2>2, DetailsComparison
<1> DEFINE Right ==
        Readable(cluster) /\ Readable(cluster') =>
            LET old == BackendSets(cluster)
                new == BackendSets(cluster')
            IN  \A name \in DOMAIN old \cap DOMAIN new :
                    BackendSetChanged(StoredBackendSet(old[name]), new[name])
                        <=> Substance(old[name]) # Substance(new[name])
<1>2. TypeOK /\ TypeOK' => Right
  BY <1>1, CaseTypes DEF TypeOK
<1> HIDE DEF Right
<1>3. TypeOK /\ TypeOK' => [Right]_vars
  BY <1>2
<1>4. Spec => [][Right]_vars
  BY <1>3, TypeCorrect, PTL
<1> QED
  BY <1>4 DEF BackendSetChangesSeen, Right

-----------------------------------------------------------------------------
(* The port a backend stands for *)

\* What has been found after each port of the service.
ResolvedUpTo(ports, backend, found) ==
    /\ found[0] = [port |-> backend.number, nodePort |-> -1]
    /\ \A k \in 1..Len(ports) : found[k] = Consider(found[k - 1], ports[k], backend.name)

\* The types of a service's ports.
LEMMA PortTypes ==
    ASSUME NEW ports \in Seq(ServicePort)
    PROVE  /\ Len(ports) \in Nat /\ DOMAIN ports = 1..Len(ports)
           /\ \A k \in 1..Len(ports) :
                  /\ ports[k].protocol \in {"TCP", "UDP"} /\ ports[k].port \in Nat \ {0}
                  /\ ports[k].nodePort \in Nat
<1>1. \A k \in 1..Len(ports) : ports[k] \in ServicePort
  OBVIOUS
<1> QED
  BY <1>1 DEF ServicePort

\* Resolve computes that.
LEMMA PortIsSought ==
    ASSUME NEW ports \in Seq(ServicePort), NEW backend \in Backend
    PROVE  \E found : /\ ResolvedUpTo(ports, backend, found)
                      /\ Resolve(ports, backend) = found[Len(ports)]
<1> DEFINE N == Len(ports)
           T == [port : Nat, nodePort : Int]
           first == [port |-> backend.number, nodePort |-> -1]
           Step(k, x) == Consider(x, ports[k], backend.name)
           next == [x \in (1..N) \X T |-> Step(x[1], x[2])]
           Made(f) == f = [k \in 0..N |-> IF k = 0 THEN [port |-> backend.number, nodePort |-> -1]
                                          ELSE Consider(f[k - 1], ports[k], backend.name)]
           found == CHOOSE f : Made(f)
<1>1. N \in Nat /\ first \in T
  BY DEF Backend
<1>2. next \in [(1..N) \X T -> T]
  <2>1. ASSUME NEW k \in 1..N, NEW x \in T PROVE Step(k, x) \in T
    <3>1. ports[k].port \in Nat /\ ports[k].nodePort \in Nat
      BY PortTypes
    <3> QED
      BY <3>1 DEF Consider
  <2> HIDE DEF Step, T
  <2> QED
    BY <2>1
<1>3. PICK f \in [0..N -> T] : f[0] = first /\ \A k \in 1..N : f[k] = next[<<k, f[k - 1]>>]
  <2> HIDE DEF next, T, N, first
  <2>1. \E f \in [0..N -> T] : Follows(f, N, first, next)
    BY <1>1, <1>2, Recursion
  <2> QED
    BY <2>1 DEF Follows
<1>4. ASSUME NEW k \in 1..N PROVE f[k] = Step(k, f[k - 1])
  <2>1. k - 1 \in 0..N
    BY <1>1
  <2>2. f[k - 1] \in T /\ <<k, f[k - 1]>> \in (1..N) \X T
    <3> HIDE DEF N, T
    <3> QED
      BY <2>1
  <2>3. next[<<k, f[k - 1]>>] = Step(k, f[k - 1])
    BY <2>2
  <2> QED
    BY <1>3, <2>3
<1>5. Made(f)
  <2>1. \A k \in 0..N : f[k] = IF k = 0 THEN first ELSE Step(k, f[k - 1])
    <3> HIDE DEF Step
    <3> QED
      BY <1>1, <1>3, <1>4
  <2>2. f = [k \in 0..N |-> f[k]]
    BY <1>3
  <2> HIDE DEF N
  <2> QED
    BY <2>1, <2>2
<1>6. Made(found)
  <2> HIDE DEF Made
  <2> QED
    BY <1>5, Zenon
<1>7. found[0] = first /\ \A k \in 1..N : found[k] = Step(k, found[k - 1])
  <2> DEFINE made == [k \in 0..N |-> IF k = 0 THEN [port |-> backend.number, nodePort |-> -1]
                                     ELSE Consider(found[k - 1], ports[k], backend.name)]
  <2>1. found = made
    BY <1>6, Zenon
  <2>2. made[0] = first /\ \A k \in 1..N : made[k] = Step(k, found[k - 1])
    <3> HIDE DEF found
    <3> QED
      BY <1>1
  <2> HIDE DEF made, found
  <2> QED
    BY <2>1, <2>2
<1>8. Resolve(ports, backend) = found[N]
  BY DEF Resolve
<1>9. ResolvedUpTo(ports, backend, found)
  <2> HIDE DEF found
  <2> QED
    BY <1>7 DEF ResolvedUpTo
<1> HIDE DEF found
<1> QED
  BY <1>8, <1>9

\* A TCP port that the backend names, and what is found there.
Named(ports, backend, k) ==
    /\ ports[k].protocol = "TCP"
    /\ IF backend.number = 0 THEN ports[k].name = backend.name
                             ELSE ports[k].port = backend.number
FoundAt(ports, k) ==
    [port |-> ports[k].port,
     nodePort |-> IF ports[k].nodePort > 0 THEN ports[k].nodePort ELSE -1]

\* There is at most one, and what comes behind it changes nothing: the number it
\* has is no other TCP port's.
LEMMA PortIsFound ==
    ASSUME NEW ports \in Seq(ServicePort), Valid(ports), NEW backend \in Backend
    PROVE  /\ (\A k \in DOMAIN ports : ~Named(ports, backend, k)) =>
                  Resolve(ports, backend) = [port |-> backend.number, nodePort |-> -1]
           /\ \A k \in DOMAIN ports :
                  Named(ports, backend, k) => Resolve(ports, backend) = FoundAt(ports, k)
<1> DEFINE N == Len(ports)
           first == [port |-> backend.number, nodePort |-> -1]
           Hit(k) == Named(ports, backend, k)
<1>1. PICK f : ResolvedUpTo(ports, backend, f) /\ Resolve(ports, backend) = f[N]
  BY PortIsSought
<1>2. /\ N \in Nat /\ DOMAIN ports = 1..N
      /\ \A k \in 1..N : /\ ports[k].protocol \in {"TCP", "UDP"} /\ ports[k].port \in Nat \ {0}
                         /\ ports[k].nodePort \in Nat
  BY PortTypes
<1>3. \A j, k \in 1..N : j # k /\ ports[j].protocol = "TCP" /\ ports[k].protocol = "TCP" =>
          ports[j].name # ports[k].name /\ ports[j].port # ports[k].port
  BY <1>2 DEF Valid
<1> DEFINE Good(k) == /\ (\A j \in 1..k : ~Hit(j)) => f[k] = first
                      /\ \A j \in 1..k : Hit(j) => f[k] = FoundAt(ports, j)
           S == {k \in 0..N : Good(k)}
<1>4. 0 \in S
  BY <1>1, <1>2 DEF ResolvedUpTo
<1>5. ASSUME NEW k \in 1..N, k - 1 \in S PROVE k \in S
  <2>1. Good(k - 1)
    BY <1>5
  <2>2. f[k] = Consider(f[k - 1], ports[k], backend.name)
    BY <1>1 DEF ResolvedUpTo
  <2>3. \A j : j \in 1..k <=> j \in 1..(k - 1) \/ j = k
    BY <1>2
  <2>4. CASE \A j \in 1..(k - 1) : ~Hit(j)
    <3>1. f[k - 1] = first
      BY <2>1, <2>4
    <3>2. f[k] = IF Hit(k) THEN FoundAt(ports, k) ELSE first
      BY <1>2, <2>2, <3>1 DEF Consider, Named, FoundAt, Backend
    <3>3. Good(k)
      <4> HIDE DEF Hit, first
      <4> QED
        BY <2>3, <2>4, <3>2
    <3> QED
      BY <1>2, <3>3
  <2>5. ASSUME NEW j \in 1..(k - 1), Hit(j) PROVE k \in S
    <3>1. j \in 1..N /\ j # k
      BY <1>2
    <3>2. f[k - 1] = FoundAt(ports, j)
      BY <2>1, <2>5
    <3>3. f[k - 1].port = ports[j].port /\ ports[j].port # 0 /\ ports[j].protocol = "TCP"
      BY <1>2, <2>5, <3>1, <3>2 DEF FoundAt, Named
    <3>4. ports[k].protocol # "TCP" \/ ports[k].port # ports[j].port
      BY <1>3, <3>1, <3>3
    <3>5. f[k] = FoundAt(ports, j)
      BY <2>2, <3>2, <3>3, <3>4 DEF Consider
    <3>6. \A m \in 1..k : Hit(m) => m = j
      <4> SUFFICES ASSUME NEW m \in 1..k, Hit(m), m # j
                   PROVE  FALSE
        OBVIOUS
      <4>1. m \in 1..N /\ ports[m].protocol = "TCP"
        BY <1>2 DEF Named
      <4>2. ports[j].name # ports[m].name /\ ports[j].port # ports[m].port
        BY <1>3, <3>1, <3>3, <4>1
      <4> QED
        BY <2>5, <4>2 DEF Named
    <3>7. Good(k)
      <4> HIDE DEF Hit, first
      <4> QED
        BY <2>3, <2>5, <3>5, <3>6
    <3> QED
      BY <1>2, <3>7
  <2> QED
    BY <2>4, <2>5
<1>6. N \in S
  <2>1. \A k \in 0..N : k \in S
    <3> HIDE DEF S, N
    <3> QED
      BY <1>2, <1>4, <1>5, BoundedInduction
  <2> HIDE DEF S, N
  <2> QED
    BY <1>2, <2>1
<1>7. Good(N)
  BY <1>6
<1> HIDE DEF Good
<1> QED
  BY <1>1, <1>2, <1>7 DEF Good

\* The backend set that rules and listeners refer to is one of those made, and
\* leads to the port the ingress means, on every node with an address; an
\* ingress with a backend that means no port is refused (spec.go:177-226,
\* load_balancer_spec.go:183-221): whatever the service's ports and the nodes.
THEOREM BackendsMeanWhatTheySay == Spec => []BackendsAsMeant
<1>1. ASSUME IsCluster(cluster), NEW backend \in Backend
      PROVE  /\ Found(cluster.ports, backend) <=> Meant(backend) # {}
             /\ \A k \in Meant(backend) :
                    LET name == BackendSetOf(cluster.ports, backend)
                        nodes == {n \in DOMAIN cluster.address : cluster.address[n] # Unset}
                    IN  /\ name \in DOMAIN BackendSets(cluster)
                        /\ Addressed(BackendSets(cluster)[name].backends) =
                               {[ip |-> cluster.address[n], port |-> cluster.ports[k].nodePort] :
                                   n \in nodes}
  <2> DEFINE ports == cluster.ports
  <2>1. /\ ports \in Seq(ServicePort) /\ Valid(ports)
        /\ \A k \in DOMAIN ports : ports[k].nodePort \in Nat
    <3>1. ports \in Seq(ServicePort) /\ Valid(ports)
      BY <1>1 DEF IsCluster
    <3> HIDE DEF ports
    <3> QED
      BY <3>1, PortTypes
  <2>2. \A k : k \in Meant(backend) <=>
            k \in DOMAIN ports /\ Named(ports, backend, k) /\ ports[k].nodePort > 0
    BY DEF Meant, Named
  <2>3. /\ (\A k \in DOMAIN ports : ~Named(ports, backend, k)) =>
               Resolve(ports, backend) = [port |-> backend.number, nodePort |-> -1]
        /\ \A k \in DOMAIN ports :
               Named(ports, backend, k) => Resolve(ports, backend) = FoundAt(ports, k)
    <3> HIDE DEF ports
    <3> QED
      BY <2>1, PortIsFound
  <2> HIDE DEF ports
  <2>4. Found(ports, backend) <=> Meant(backend) # {}
    <3>1. CASE \A k \in DOMAIN ports : ~Named(ports, backend, k)
      <4>1. Meant(backend) = {}
        BY <2>2, <3>1
      <4> QED
        BY <2>3, <3>1, <4>1 DEF Found
    <3>2. ASSUME NEW k \in DOMAIN ports, Named(ports, backend, k)
          PROVE  Found(ports, backend) <=> Meant(backend) # {}
      <4>1. Resolve(ports, backend) = FoundAt(ports, k)
        BY <2>3, <3>2
      <4>2. CASE ports[k].nodePort > 0
        <5>1. Found(ports, backend)
          BY <2>1, <4>1, <4>2 DEF Found, FoundAt
        <5> QED
          BY <2>2, <3>2, <4>2, <5>1
      <4>3. CASE ~(ports[k].nodePort > 0)
        <5>1. ~Found(ports, backend)
          BY <4>1, <4>3 DEF Found, FoundAt
        <5>2. ASSUME NEW j \in Meant(backend) PROVE FALSE
          <6>1. j \in DOMAIN ports /\ Named(ports, backend, j) /\ ports[j].nodePort > 0
            BY <2>2
          <6>2. FoundAt(ports, j) = FoundAt(ports, k)
            BY <2>3, <4>1, <6>1
          <6>3. FoundAt(ports, j).nodePort > 0 /\ FoundAt(ports, k).nodePort = -1
            BY <4>3, <6>1 DEF FoundAt
          <6> QED
            BY <6>2, <6>3
        <5> QED
          BY <5>1, <5>2
      <4> QED
        BY <4>2, <4>3
    <3> QED
      BY <3>1, <3>2
  <2>5. ASSUME NEW k \in Meant(backend)
        PROVE  /\ BackendSetOf(ports, backend) \in DOMAIN BackendSets(cluster)
               /\ Addressed(BackendSets(cluster)[BackendSetOf(ports, backend)].backends) =
                      {[ip |-> cluster.address[n], port |-> ports[k].nodePort] :
                          n \in Ready(cluster)}
    <3> DEFINE name == BackendSetOf(ports, backend)
    <3>1. k \in DOMAIN ports /\ Named(ports, backend, k)
      BY <2>2
    <3>2. name = <<"TCP", ports[k].port>>
      BY <2>3, <3>1 DEF BackendSetOf, BackendSetName, FoundAt
    <3>3. name = NameOf(cluster, k)
      BY <3>1, <3>2 DEF NameOf, BackendSetName, Named, ports
    <3>4. name \in DOMAIN BackendSets(cluster)
      BY <3>1, <3>3 DEF BackendSets, ports
    <3>5. PICK j \in DOMAIN ports :
              NameOf(cluster, j) = name /\ BackendSets(cluster)[name] = BackendSetDetails(cluster, j)
      BY <1>1, <3>4, SetsOfPorts DEF ports
    <3>6. ports[j].protocol = "TCP" /\ ports[j].port = ports[k].port
      BY <3>2, <3>5 DEF NameOf, BackendSetName, ports
    <3>7. j = k
      BY <2>1, <3>1, <3>6 DEF Valid, Named
    <3>8. BackendSets(cluster)[name].backends = ReadyBackends(cluster, ports[k].nodePort)
      BY <3>5, <3>7 DEF BackendSetDetails, ports
    <3>9. ToSet(ReadyBackends(cluster, ports[k].nodePort)) =
              {BackendOn(cluster, n, ports[k].nodePort) : n \in Ready(cluster)}
      BY <1>1, BackendsAreThoseReady
    <3>10. \A n : /\ BackendOn(cluster, n, ports[k].nodePort).ip = cluster.address[n]
                  /\ BackendOn(cluster, n, ports[k].nodePort).port = ports[k].nodePort
      BY DEF BackendOn
    <3>11. Addressed(BackendSets(cluster)[name].backends) =
               {[ip |-> cluster.address[n], port |-> ports[k].nodePort] : n \in Ready(cluster)}
      <4> HIDE DEF name
      <4> QED
        BY <3>8, <3>9, <3>10 DEF Addressed
    <3> QED
      BY <3>4, <3>11
  <2> QED
    BY <2>4, <2>5 DEF Ready, ports
<1>2. TypeOK => BackendsAsMeant
  BY <1>1, CasesAssumption DEF TypeOK, BackendsAsMeant
<1> QED
  BY <1>2, TypeCorrect, PTL

-----------------------------------------------------------------------------
(* Paths *)

\* s is the beginning of t.
BeginsAlike(s, t) == Len(s) <= Len(t) /\ \A m \in 1..Len(s) : s[m] = t[m]

\* Prefixes, suffixes and occurrences, character by character.
LEMMA PrefixByIndex ==
    ASSUME NEW S, NEW s \in Seq(S), NEW t \in Seq(S)
    PROVE  IsPrefix(s, t) <=> BeginsAlike(s, t)
<1>1. SubSeq(s, 1, Len(s)) = s
  OBVIOUS
<1> SUFFICES ASSUME Len(s) <= Len(t)
             PROVE  s = SubSeq(t, 1, Len(s)) <=> \A m \in 1..Len(s) : s[m] = t[m]
  BY <1>1 DEF IsPrefix, BeginsAlike
<1> DEFINE u == SubSeq(t, 1, Len(s))
<1>2. Len(s) \in Nat /\ Len(t) \in Nat
  OBVIOUS
<1>3. u \in Seq(S) /\ Len(u) = Len(s) /\ \A m \in 1..Len(s) : u[m] = t[m]
  BY <1>2
<1> HIDE DEF u
<1>4. (\A m \in 1..Len(s) : s[m] = u[m]) => s = u
  BY <1>3
<1> QED
  BY <1>3, <1>4 DEF u

\* A suffix is compared from the end.
LEMMA SuffixByIndex ==
    ASSUME NEW S, NEW s \in Seq(S), NEW t \in Seq(S)
    PROVE  IsSuffix(s, t) <=>
               Len(s) <= Len(t) /\ \A m \in 1..Len(s) : s[m] = t[Len(t) - Len(s) + m]
<1>1. /\ Reverse(s) \in Seq(S) /\ Len(Reverse(s)) = Len(s)
      /\ Reverse(t) \in Seq(S) /\ Len(Reverse(t)) = Len(t)
  BY ReversedTypes
<1>2. IsSuffix(s, t) <=>
          Len(s) <= Len(t) /\ \A n \in 1..Len(s) : Reverse(s)[n] = Reverse(t)[n]
  BY <1>1, PrefixByIndex DEF IsSuffix, BeginsAlike
<1> SUFFICES ASSUME Len(s) <= Len(t)
             PROVE  (\A n \in 1..Len(s) : Reverse(s)[n] = Reverse(t)[n])
                        <=> \A m \in 1..Len(s) : s[m] = t[Len(t) - Len(s) + m]
  BY <1>2
<1>3. Len(s) \in Nat /\ Len(t) \in Nat
  OBVIOUS
<1>4. \A n \in 1..Len(s) : /\ Reverse(s)[n] = s[Len(s) - n + 1]
                           /\ Reverse(t)[n] = t[Len(t) - n + 1]
  <2>1. \A n \in 1..Len(s) : n \in 1..Len(t)
    BY <1>3
  <2> QED
    BY <2>1, ReversedTypes
<1>5. ASSUME NEW n \in 1..Len(s)
      PROVE  /\ Len(s) - n + 1 \in 1..Len(s)
             /\ Len(s) - (Len(s) - n + 1) + 1 = n
             /\ Len(t) - Len(s) + (Len(s) - n + 1) = Len(t) - n + 1
             /\ Len(t) - (Len(s) - n + 1) + 1 = Len(t) - Len(s) + n
  BY <1>3
<1>6. ASSUME \A n \in 1..Len(s) : Reverse(s)[n] = Reverse(t)[n], NEW m \in 1..Len(s)
      PROVE  s[m] = t[Len(t) - Len(s) + m]
  <2> DEFINE n == Len(s) - m + 1
  <2>1. n \in 1..Len(s) /\ Len(s) - n + 1 = m /\ Len(t) - n + 1 = Len(t) - Len(s) + m
    BY <1>5
  <2> HIDE DEF n
  <2>2. Reverse(s)[n] = Reverse(t)[n]
    BY <1>6, <2>1
  <2>3. Reverse(s)[n] = s[Len(s) - n + 1] /\ Reverse(t)[n] = t[Len(t) - n + 1]
    BY <1>4, <2>1
  <2> QED
    BY <2>1, <2>2, <2>3
<1>7. ASSUME \A m \in 1..Len(s) : s[m] = t[Len(t) - Len(s) + m], NEW n \in 1..Len(s)
      PROVE  Reverse(s)[n] = Reverse(t)[n]
  <2> DEFINE m == Len(s) - n + 1
  <2>1. m \in 1..Len(s) /\ Len(t) - Len(s) + m = Len(t) - n + 1
    BY <1>5
  <2>2. s[m] = t[Len(t) - Len(s) + m]
    <3> HIDE DEF m
    <3> QED
      BY <1>7, <2>1
  <2>3. Reverse(s)[n] = s[m] /\ Reverse(t)[n] = t[Len(t) - n + 1]
    BY <1>4
  <2> HIDE DEF m
  <2> QED
    BY <2>1, <2>2, <2>3
<1> QED
  BY <1>6, <1>7

\* s is in t, after some of its characters.
OccursAt(s, t) ==
    \E k \in 0..Len(t) :
        Len(s) <= Len(t) - k /\ \A m \in 1..Len(s) : s[m] = t[k + m]

\* An occurrence is somewhere.
LEMMA OccursByIndex ==
    ASSUME NEW S, NEW s \in Seq(S), NEW t \in Seq(S)
    PROVE  Occurs(s, t) <=> OccursAt(s, t)
<1>1. ASSUME NEW k \in 0..Len(t)
      PROVE  IsPrefix(s, SubSeq(t, k + 1, Len(t))) <=>
                 Len(s) <= Len(t) - k /\ \A m \in 1..Len(s) : s[m] = t[k + m]
  <2> DEFINE u == SubSeq(t, k + 1, Len(t))
  <2>1. Len(s) \in Nat /\ Len(t) \in Nat
    OBVIOUS
  <2>2. /\ u \in Seq(S) /\ Len(u) = Len(t) - k
        /\ \A m \in 1..(Len(t) - k) : u[m] = t[k + m]
    <3>1. \A m \in 1..(Len(t) - k) : k + m \in 1..Len(t) /\ (k + 1) + m - 1 = k + m
      BY <2>1
    <3>2. Len(u) = Len(t) - k
      BY <2>1
    <3>3. u \in Seq(S)
      BY <2>1
    <3> QED
      BY <2>1, <3>1, <3>2, <3>3
  <2> HIDE DEF u
  <2>3. IsPrefix(s, u) <=> Len(s) <= Len(u) /\ \A m \in 1..Len(s) : s[m] = u[m]
    BY <2>2, PrefixByIndex DEF BeginsAlike
  <2>4. Len(s) <= Len(t) - k => \A m \in 1..Len(s) : m \in 1..(Len(t) - k)
    BY <2>1
  <2> QED
    BY <2>2, <2>3, <2>4 DEF u
<1> QED
  BY <1>1 DEF Occurs, OccursAt

\* What fits after the first i characters of a text.
FitsUpTo(text, request, fits) ==
    /\ fits \in [0..Len(text) -> SUBSET (0..Len(request))]
    /\ fits[0] = {0}
    /\ \A i \in 1..Len(text) :
           fits[i] = IF text[i] = Star
                     THEN {j \in 0..Len(request) : \E k \in fits[i - 1] : k <= j}
                     ELSE {j \in 1..Len(request) :
                              text[i] = request[j] /\ j - 1 \in fits[i - 1]}

\* Fits computes that.
LEMMA FitsIsWorkedOut ==
    ASSUME NEW S, NEW text \in Seq(S), NEW request \in Seq(S)
    PROVE  \E fits : /\ FitsUpTo(text, request, fits)
                     /\ Fits(text, request) <=> Len(request) \in fits[Len(text)]
<1> DEFINE N == Len(text)
           T == SUBSET (0..Len(request))
           Step(i, x) == IF text[i] = Star
                         THEN {j \in 0..Len(request) : \E k \in x : k <= j}
                         ELSE {j \in 1..Len(request) : text[i] = request[j] /\ j - 1 \in x}
           next == [x \in (1..N) \X T |-> Step(x[1], x[2])]
           Made(f) == f = [i \in 0..N |->
                              IF i = 0 THEN {0}
                              ELSE IF text[i] = Star
                              THEN {j \in 0..Len(request) : \E k \in f[i - 1] : k <= j}
                              ELSE {j \in 1..Len(request) :
                                       text[i] = request[j] /\ j - 1 \in f[i - 1]}]
           fits == CHOOSE f : Made(f)
<1>1. N \in Nat /\ Len(request) \in Nat /\ {0} \in T
  OBVIOUS
<1>2. next \in [(1..N) \X T -> T]
  <2>1. ASSUME NEW i \in 1..N, NEW x \in T PROVE Step(i, x) \in T
    <3>1. {j \in 0..Len(request) : \E k \in x : k <= j} \in T
      OBVIOUS
    <3>2. {j \in 1..Len(request) : text[i] = request[j] /\ j - 1 \in x} \in T
      BY <1>1
    <3> HIDE DEF T
    <3> QED
      BY <3>1, <3>2
  <2> HIDE DEF Step, T
  <2> QED
    BY <2>1
<1>3. PICK f \in [0..N -> T] : f[0] = {0} /\ \A i \in 1..N : f[i] = next[<<i, f[i - 1]>>]
  <2> HIDE DEF next, T, N
  <2>1. \E f \in [0..N -> T] : Follows(f, N, {0}, next)
    BY <1>1, <1>2, Recursion
  <2> QED
    BY <2>1 DEF Follows
<1>4. ASSUME NEW i \in 1..N PROVE f[i] = Step(i, f[i - 1])
  <2>1. i - 1 \in 0..N
    BY <1>1
  <2>2. f[i - 1] \in T /\ <<i, f[i - 1]>> \in (1..N) \X T
    <3> HIDE DEF N, T
    <3> QED
      BY <2>1
  <2>3. next[<<i, f[i - 1]>>] = Step(i, f[i - 1])
    <3> HIDE DEF Step, T
    <3> QED
      BY <2>2
  <2> HIDE DEF Step, next
  <2> QED
    BY <1>3, <2>3
<1>5. Made(f)
  <2>1. \A i \in 0..N : f[i] = IF i = 0 THEN {0} ELSE Step(i, f[i - 1])
    <3> HIDE DEF Step
    <3> QED
      BY <1>1, <1>3, <1>4
  <2>2. f = [i \in 0..N |-> f[i]]
    BY <1>3
  <2>3. f = [i \in 0..N |-> IF i = 0 THEN {0} ELSE Step(i, f[i - 1])]
    <3> HIDE DEF N, Step
    <3> QED
      BY <2>1, <2>2
  <2> QED
    BY <2>3, Zenon
<1>6. Made(fits)
  <2> HIDE DEF Made
  <2> QED
    BY <1>5, Zenon
<1>7. fits[0] = {0} /\ \A i \in 1..N : fits[i] = Step(i, fits[i - 1])
  <2> DEFINE made == [i \in 0..N |-> IF i = 0 THEN {0} ELSE Step(i, fits[i - 1])]
  <2>1. fits = made
    BY <1>6, Zenon
  <2>2. made[0] = {0} /\ \A i \in 1..N : made[i] = Step(i, fits[i - 1])
    <3> HIDE DEF fits, Step
    <3> QED
      BY <1>1
  <2> HIDE DEF made, fits, Step
  <2> QED
    BY <2>1, <2>2
<1>8. \A i \in 0..N : f[i] = fits[i]
  <2>1. StayTogether(f, fits, N)
    <3> HIDE DEF Step, fits, N, T
    <3> QED
      BY <1>3, <1>4, <1>7 DEF StayTogether
  <2> HIDE DEF fits, N, T
  <2> QED
    BY <1>1, <2>1, SameValues
<1>9. Fits(text, request) <=> Len(request) \in fits[N]
  BY DEF Fits
<1>10. FitsUpTo(text, request, f)
  <2> HIDE DEF fits
  <2> QED
    BY <1>3, <1>4 DEF FitsUpTo
<1>11. f[N] = fits[N]
  <2> HIDE DEF fits, N
  <2> QED
    BY <1>1, <1>8
<1> HIDE DEF fits
<1> QED
  BY <1>9, <1>10, <1>11

\* Characters that are no stars stand for themselves: those between the a-th and
\* the b-th.
StandForThemselves(text, request, fits, a, b) ==
    \A j \in 0..Len(request) :
        j \in fits[b] <=>
            /\ j - (b - a) \in fits[a]
            /\ \A m \in 1..(b - a) : text[a + m] = request[j - (b - a) + m]
NoStar(text, a, b) == \A i \in (a + 1)..b : text[i] # Star

\* Where there is no star, a text fits what is the same.
LEMMA PlainCharacters ==
    ASSUME NEW S, NEW text \in Seq(S), NEW request \in Seq(S),
           NEW fits, FitsUpTo(text, request, fits),
           NEW a \in 0..Len(text), NEW b \in a..Len(text), NoStar(text, a, b)
    PROVE  StandForThemselves(text, request, fits, a, b)
<1> DEFINE Same(n, j) == \A m \in 1..n : text[a + m] = request[j - n + m]
           Good(n) == \A j \in 0..Len(request) :
                          j \in fits[a + n] <=> j - n \in fits[a] /\ Same(n, j)
           D == b - a
           G == {n \in 0..D : Good(n)}
<1>1. Len(text) \in Nat /\ Len(request) \in Nat /\ D \in Nat /\ a \in Nat /\ b \in Nat
  OBVIOUS
<1>2. 0 \in G
  <2>1. a + 0 = a /\ \A j \in 0..Len(request) : j - 0 = j
    BY <1>1
  <2>2. Good(0)
    BY <2>1
  <2> HIDE DEF Good
  <2> QED
    BY <1>1, <2>2
<1>3. ASSUME NEW n \in 1..D, n - 1 \in G PROVE n \in G
  <2> DEFINE i == a + n
  <2>1. i \in 1..Len(text) /\ i - 1 = a + (n - 1) /\ i \in (a + 1)..b /\ text[i] # Star
    BY <1>1 DEF NoStar
  <2>2. fits[i] = {j \in 1..Len(request) : text[i] = request[j] /\ j - 1 \in fits[a + (n - 1)]}
    <3> HIDE DEF i
    <3> QED
      BY <2>1 DEF FitsUpTo
  <2>3. Good(n - 1)
    BY <1>3
  <2>4. ASSUME NEW j \in 0..Len(request)
        PROVE  j \in fits[i] <=> j - n \in fits[a] /\ Same(n, j)
    <3>1. CASE j = 0
      <4>1. fits[a] \subseteq 0..Len(request)
        BY DEF FitsUpTo
      <4>2. j - n \notin fits[a]
        BY <1>1, <3>1, <4>1
      <4>3. j \notin fits[i]
        BY <1>1, <2>2, <3>1
      <4> QED
        BY <4>2, <4>3
    <3>2. CASE j # 0
      <4>1. j \in 1..Len(request) /\ j - 1 \in 0..Len(request)
        BY <1>1, <3>2
      <4>2. j \in fits[i] <=> text[i] = request[j] /\ j - 1 \in fits[a + (n - 1)]
        <5> HIDE DEF i
        <5> QED
          BY <2>2, <4>1
      <4>3. j - 1 \in fits[a + (n - 1)] <=>
                (j - 1) - (n - 1) \in fits[a] /\ Same(n - 1, j - 1)
        BY <2>3, <4>1
      <4>4. (j - 1) - (n - 1) = j - n /\ j - n + n = j
        BY <1>1
      <4>5. Same(n, j) <=> Same(n - 1, j - 1) /\ text[a + n] = request[j]
        <5>1. \A m : m \in 1..n <=> m \in 1..(n - 1) \/ m = n
          BY <1>1
        <5>2. \A m \in 1..(n - 1) : (j - 1) - (n - 1) + m = j - n + m
          BY <1>1
        <5>3. Same(n, j) <=> /\ \A m \in 1..(n - 1) : text[a + m] = request[j - n + m]
                             /\ text[a + n] = request[j - n + n]
          BY <5>1
        <5>4. Same(n - 1, j - 1) <=>
                  \A m \in 1..(n - 1) : text[a + m] = request[j - n + m]
          BY <4>4
        <5> HIDE DEF Same
        <5> QED
          BY <4>4, <5>3, <5>4
      <4> HIDE DEF Same
      <4> QED
        BY <4>2, <4>3, <4>4, <4>5
    <3> HIDE DEF i, Same
    <3> QED
      BY <3>1, <3>2
  <2>5. Good(n)
    <3> HIDE DEF Same
    <3> QED
      BY <2>4
  <2> HIDE DEF Good
  <2> QED
    BY <1>1, <2>5
<1>4. D \in G
  <2>1. \A n \in 0..D : n \in G
    <3> HIDE DEF G, D
    <3> QED
      BY <1>1, <1>2, <1>3, BoundedInduction
  <2> HIDE DEF G, D
  <2> QED
    BY <1>1, <2>1
<1>5. Good(D) /\ a + D = b
  BY <1>1, <1>4
<1> QED
  BY <1>5 DEF StandForThemselves

\* A text without stars is fit by itself, one with a star by what begins and
\* ends like it and is long enough.
LEMMA FitsItself ==
    ASSUME NEW S, NEW text \in Seq(S), NEW request \in Seq(S), Stars(text) = {}
    PROVE  Fits(text, request) <=> request = text
<1> DEFINE L == Len(text)
           R == Len(request)
<1>1. PICK f : FitsUpTo(text, request, f) /\ (Fits(text, request) <=> R \in f[L])
  BY FitsIsWorkedOut
<1>2. L \in Nat /\ R \in Nat /\ f[0] = {0} /\ \A i \in 1..L : text[i] # Star
  BY <1>1 DEF FitsUpTo, Stars
<1>3. R \in f[L] <=> R - L \in f[0] /\ \A m \in 1..L : text[m] = request[R - L + m]
  <2>1. \A j \in 0..R : j \in f[L] <=> /\ j - (L - 0) \in f[0]
                                       /\ \A m \in 1..(L - 0) : text[0 + m] = request[j - (L - 0) + m]
    <3>1. 0 \in 0..L /\ L \in 0..L /\ NoStar(text, 0, L)
      BY <1>2 DEF NoStar
    <3>2. StandForThemselves(text, request, f, 0, L)
      BY <1>1, <3>1, PlainCharacters
    <3> QED
      BY <3>2 DEF StandForThemselves
  <2>2. R \in 0..R /\ L - 0 = L /\ \A m \in 1..L : 0 + m = m
    BY <1>2
  <2> HIDE DEF L, R
  <2> QED
    BY <2>1, <2>2
<1>4. R - L \in f[0] <=> R = L
  BY <1>2
<1>5. R = L => \A m \in 1..L : R - L + m = m
  BY <1>2
<1>6. request = text <=> R = L /\ \A m \in 1..L : text[m] = request[m]
  OBVIOUS
<1> HIDE DEF L, R
<1> QED
  BY <1>1, <1>3, <1>4, <1>5, <1>6

\* The request begins and ends as the text does before and after its star at k,
\* and is long enough for both.
Around(text, request, k) ==
    /\ Len(request) >= Len(text) - 1
    /\ \A m \in 1..(k - 1) : text[m] = request[m]
    /\ \A m \in 1..(Len(text) - k) :
           text[k + m] = request[Len(request) - (Len(text) - k) + m]

\* What fits a text with one star.
LEMMA FitsAroundStar ==
    ASSUME NEW S, NEW text \in Seq(S), NEW request \in Seq(S),
           NEW k \in 1..Len(text), Stars(text) = {k}
    PROVE  Fits(text, request) <=> Around(text, request, k)
<1> DEFINE L == Len(text)
           R == Len(request)
           Fore == \A m \in 1..(k - 1) : text[m] = request[m]
           Back == \A m \in 1..(L - k) : text[k + m] = request[R - (L - k) + m]
<1>1. PICK f : FitsUpTo(text, request, f) /\ (Fits(text, request) <=> R \in f[L])
  BY FitsIsWorkedOut
<1>2. /\ L \in Nat /\ R \in Nat /\ f[0] = {0} /\ text[k] = Star
      /\ \A i \in 1..L : i # k => text[i] # Star
  BY <1>1 DEF FitsUpTo, Stars
<1>3. ASSUME NEW j \in 0..R PROVE j \in f[k - 1] <=> j = k - 1 /\ Fore
  <2>1. \A h \in 0..R : h \in f[k - 1] <=>
            /\ h - ((k - 1) - 0) \in f[0]
            /\ \A m \in 1..((k - 1) - 0) : text[0 + m] = request[h - ((k - 1) - 0) + m]
    <3>1. 0 \in 0..L /\ k - 1 \in 0..L /\ NoStar(text, 0, k - 1)
      BY <1>2 DEF NoStar
    <3>2. StandForThemselves(text, request, f, 0, k - 1)
      BY <1>1, <3>1, PlainCharacters
    <3> QED
      BY <3>2 DEF StandForThemselves
  <2>2. (k - 1) - 0 = k - 1 /\ \A m \in 1..(k - 1) : 0 + m = m
    BY <1>2
  <2>3. j \in f[k - 1] <=> /\ j - (k - 1) \in f[0]
                           /\ \A m \in 1..(k - 1) : text[m] = request[j - (k - 1) + m]
    <3> HIDE DEF R
    <3> QED
      BY <2>1, <2>2
  <2>4. j - (k - 1) \in f[0] <=> j = k - 1
    BY <1>2
  <2>5. j = k - 1 => \A m \in 1..(k - 1) : j - (k - 1) + m = m
    BY <1>2
  <2> HIDE DEF L, R
  <2> QED
    BY <2>3, <2>4, <2>5
<1>4. ASSUME NEW j \in 0..R PROVE j \in f[k] <=> k - 1 <= j /\ Fore
  <2>1. f[k] = {h \in 0..R : \E q \in f[k - 1] : q <= h}
    BY <1>1, <1>2 DEF FitsUpTo
  <2>2. k - 1 \in 0..L /\ f[k - 1] \subseteq 0..R
    BY <1>1, <1>2 DEF FitsUpTo
  <2>3. k - 1 <= j => k - 1 \in 0..R
    BY <1>2
  <2>4. j \in f[k] <=> \E q \in f[k - 1] : q <= j
    <3> HIDE DEF R
    <3> QED
      BY <2>1
  <2>5. ASSUME NEW q \in f[k - 1], q <= j PROVE k - 1 <= j /\ Fore
    <3>1. q = k - 1 /\ Fore
      <4> HIDE DEF R, Fore
      <4> QED
        BY <1>3, <2>2
    <3> QED
      BY <2>5, <3>1
  <2>6. ASSUME k - 1 <= j, Fore PROVE \E q \in f[k - 1] : q <= j
    <3>1. k - 1 \in f[k - 1]
      <4> HIDE DEF R, Fore
      <4> QED
        BY <1>3, <2>3, <2>6
    <3> QED
      BY <2>6, <3>1
  <2> HIDE DEF Fore
  <2> QED
    BY <2>4, <2>5, <2>6
<1>5. R \in f[L] <=> R - (L - k) \in f[k] /\ Back
  <2>1. \A j \in 0..R : j \in f[L] <=> /\ j - (L - k) \in f[k]
                                       /\ \A m \in 1..(L - k) : text[k + m] = request[j - (L - k) + m]
    <3>1. k \in 0..L /\ L \in k..L /\ NoStar(text, k, L)
      BY <1>2 DEF NoStar
    <3>2. StandForThemselves(text, request, f, k, L)
      BY <1>1, <3>1, PlainCharacters
    <3> QED
      BY <3>2 DEF StandForThemselves
  <2>2. R \in 0..R
    BY <1>2
  <2> HIDE DEF L, R
  <2> QED
    BY <2>1, <2>2 DEF Back
<1>6. R - (L - k) \in f[k] <=> R >= L - 1 /\ Fore
  <2>1. CASE R - (L - k) \in 0..R
    <3>1. R - (L - k) \in f[k] <=> k - 1 <= R - (L - k) /\ Fore
      <4> DEFINE j == R - (L - k)
      <4>1. j \in 0..R
        BY <2>1
      <4> HIDE DEF j, R, Fore
      <4>2. j \in f[k] <=> k - 1 <= j /\ Fore
        BY <1>4, <4>1
      <4> QED
        BY <4>2 DEF j, R
    <3>2. k - 1 <= R - (L - k) <=> R >= L - 1
      BY <1>2
    <3> HIDE DEF Fore
    <3> QED
      BY <3>1, <3>2
  <2>2. CASE R - (L - k) \notin 0..R
    <3>1. ~(R >= L - 1)
      BY <1>2, <2>2
    <3>2. f[k] \subseteq 0..R
      BY <1>1, <1>2 DEF FitsUpTo
    <3> QED
      BY <2>2, <3>1, <3>2
  <2> QED
    BY <2>1, <2>2
<1> HIDE DEF Fore, Back, L, R
<1>7. Fits(text, request) <=> R >= L - 1 /\ Fore /\ Back
  BY <1>1, <1>5, <1>6
<1> QED
  BY <1>7 DEF Around, Fore, Back, L, R

\* One with stars at both ends is fit by what has the rest of it somewhere.
Inside(text, request) ==
    \E k \in 0..Len(request) :
        /\ Len(text) - 2 <= Len(request) - k
        /\ \A m \in 1..(Len(text) - 2) : text[1 + m] = request[k + m]

\* What fits a text with a star at either end.
LEMMA FitsInside ==
    ASSUME NEW S, NEW text \in Seq(S), NEW request \in Seq(S),
           Len(text) > 2, Stars(text) = {1, Len(text)}
    PROVE  Fits(text, request) <=> Inside(text, request)
<1> DEFINE L == Len(text)
           R == Len(request)
           Same(k) == \A m \in 1..(L - 2) : text[1 + m] = request[k + m]
<1>1. PICK f : FitsUpTo(text, request, f) /\ (Fits(text, request) <=> R \in f[L])
  BY FitsIsWorkedOut
<1>2. /\ L \in Nat /\ L > 2 /\ R \in Nat /\ f[0] = {0} /\ text[1] = Star /\ text[L] = Star
      /\ \A i \in 2..(L - 1) : text[i] # Star
  BY <1>1 DEF FitsUpTo, Stars
<1>3. \A i \in 1..L : text[i] = Star =>
          f[i] = {j \in 0..R : \E k \in f[i - 1] : k <= j}
  BY <1>1 DEF FitsUpTo
<1>4. f[1] = 0..R
  <2>1. 1 \in 1..L /\ 1 - 1 = 0 /\ \A j \in 0..R : 0 <= j
    BY <1>2
  <2>2. f[1] = {j \in 0..R : \E k \in {0} : k <= j}
    <3> HIDE DEF L, R
    <3> QED
      BY <1>2, <1>3, <2>1
  <2> HIDE DEF L, R
  <2> QED
    BY <2>1, <2>2
<1>5. ASSUME NEW q \in 0..R PROVE q \in f[L - 1] <=> q - (L - 2) \in 0..R /\ Same(q - (L - 2))
  <2>1. 1 \in 0..L /\ L - 1 \in 1..L /\ NoStar(text, 1, L - 1)
    BY <1>2 DEF NoStar
  <2>2. StandForThemselves(text, request, f, 1, L - 1)
    BY <1>1, <2>1, PlainCharacters
  <2>3. (L - 1) - 1 = L - 2
    BY <1>2
  <2> HIDE DEF L
  <2> QED
    BY <1>4, <2>2, <2>3 DEF StandForThemselves
<1>6. R \in f[L] <=> \E q \in f[L - 1] : q <= R
  <2>1. L \in 1..L /\ R \in 0..R
    BY <1>2
  <2>2. f[L] = {j \in 0..R : \E k \in f[L - 1] : k <= j}
    <3> HIDE DEF L, R
    <3> QED
      BY <1>2, <1>3, <2>1
  <2> HIDE DEF L, R
  <2> QED
    BY <2>1, <2>2
<1>7. f[L - 1] \subseteq 0..R
  <2>1. L - 1 \in 0..L
    BY <1>2
  <2> QED
    BY <1>1, <2>1 DEF FitsUpTo
<1>8. ASSUME NEW q \in f[L - 1] PROVE \E k \in 0..R : L - 2 <= R - k /\ Same(k)
  <2> DEFINE k == q - (L - 2)
  <2>1. q \in 0..R
    BY <1>7
  <2>2. k \in 0..R /\ Same(k)
    <3> HIDE DEF R, Same
    <3> QED
      BY <1>5, <2>1
  <2>3. L - 2 <= R - k
    BY <1>2, <2>1
  <2> HIDE DEF k, Same, L, R
  <2> QED
    BY <2>2, <2>3
<1>9. ASSUME NEW k \in 0..R, L - 2 <= R - k, Same(k) PROVE \E q \in f[L - 1] : q <= R
  <2> DEFINE q == k + (L - 2)
  <2>1. q \in 0..R /\ q - (L - 2) = k /\ q <= R
    BY <1>2, <1>9
  <2>2. q \in f[L - 1]
    <3> HIDE DEF R, L, Same, q
    <3> QED
      BY <1>5, <1>9, <2>1
  <2> HIDE DEF q, R, L
  <2> QED
    BY <2>1, <2>2
<1> HIDE DEF Same
<1>10. Fits(text, request) <=> \E k \in 0..R : L - 2 <= R - k /\ Same(k)
  <2> HIDE DEF L, R
  <2> QED
    BY <1>1, <1>6, <1>8, <1>9
<1> QED
  BY <1>10 DEF Inside, Same

\* Where the stars of a text are: nowhere, in one place, or at both ends.
LEMMA StarsOfAccepted ==
    ASSUME NEW S, NEW text \in Seq(S), Accepted(text), ~Doubled(text)
    PROVE  \/ Stars(text) = {}
           \/ \E k \in 1..Len(text) : Len(text) > 1 /\ Stars(text) = {k}
           \/ Len(text) > 2 /\ Stars(text) = {1, Len(text)}
<1> DEFINE L == Len(text)
<1>1. L \in Nat /\ DOMAIN text = 1..L
  OBVIOUS
<1>2. CASE AtBothEnds(text)
  <2>1. PICK i, j \in 1..L : i + 1 < j /\ Stars(text) = (1..L) \ (i + 1)..(j - 1)
    BY <1>1, <1>2 DEF AtBothEnds
  <2>2. i = 1
    <3> SUFFICES ASSUME i # 1 PROVE FALSE
      OBVIOUS
    <3>1. 2 \in 2..L /\ 2 - 1 \in Stars(text) /\ 2 \in Stars(text)
      BY <1>1, <2>1
    <3>2. {2 - 1, 2} \subseteq Stars(text)
      BY <3>1
    <3> QED
      BY <3>1, <3>2 DEF Doubled
  <2>3. j = L
    <3> SUFFICES ASSUME j # L PROVE FALSE
      OBVIOUS
    <3>0. /\ L \in 2..L /\ L \in 1..L /\ L - 1 \in 1..L
          /\ L \notin (i + 1)..(j - 1) /\ L - 1 \notin (i + 1)..(j - 1)
      <4>1. i + 1 < j
        BY <2>1
      <4> HIDE DEF L
      <4>2. i \in Nat /\ j \in Nat /\ 1 <= i /\ j <= L /\ j # L
        BY <1>1
      <4> QED
        BY <1>1, <4>1, <4>2
    <3>1. L \in 2..L /\ L - 1 \in Stars(text) /\ L \in Stars(text)
      <4> HIDE DEF L
      <4> QED
        BY <2>1, <3>0
    <3>2. {L - 1, L} \subseteq Stars(text)
      BY <3>1
    <3> QED
      BY <3>1, <3>2 DEF Doubled
  <2>4. L > 2
    BY <1>1, <2>1, <2>2, <2>3
  <2>5. Stars(text) = {1, L}
    <3>1. \A n : n \in (1..L) \ 2..(L - 1) <=> n = 1 \/ n = L
      BY <1>1, <2>4
    <3>2. Stars(text) = (1..L) \ 2..(L - 1)
      BY <2>1, <2>2, <2>3
    <3> QED
      BY <3>1, <3>2
  <2> QED
    BY <2>4, <2>5
<1>3. CASE InMiddle(text) \/ AtFront(text) \/ AtEnd(text)
  <2>1. PICK k : k \in 1..L /\ L > 1 /\ Stars(text) = {k}
    BY <1>1, <1>3 DEF InMiddle, AtFront, AtEnd
  <2> QED
    BY <2>1
<1> QED
  BY <1>2, <1>3 DEF Accepted

\* The condition for a path with wildcards, in each of these places.
LEMMA TextConditionIs ==
    ASSUME NEW S, NEW text \in Seq(S)
    PROVE  /\ Stars(text) = {} => TextCondition(text) = {Predicate("eq", text)}
           /\ \A k \in 1..Len(text) : Len(text) > 1 /\ Stars(text) = {k} =>
                  TextCondition(text) =
                      (IF k = 1 THEN {} ELSE {Predicate("sw", Before(text, k))})
                      \cup (IF k = Len(text) THEN {} ELSE {Predicate("ew", After(text, k))})
           /\ Len(text) > 2 /\ Stars(text) = {1, Len(text)} =>
                  TextCondition(text) = {Predicate("cw", SubSeq(text, 2, Len(text) - 1))}
<1> DEFINE L == Len(text)
           star == CHOOSE k \in Stars(text) : TRUE
           before == Predicate("sw", Before(text, star))
           after == Predicate("ew", After(text, star))
<1>1. L \in Nat /\ DOMAIN text = 1..L
  OBVIOUS
<1>2. ASSUME AtBothEnds(text) PROVE 1 \in Stars(text) /\ L \in Stars(text) /\ L > 2
  <2>1. PICK i, j \in 1..L : i + 1 < j /\ Stars(text) = (1..L) \ (i + 1)..(j - 1)
    BY <1>1, <1>2 DEF AtBothEnds
  <2>2. i + 1 < j
    BY <2>1
  <2> HIDE DEF L
  <2>3. /\ 1 \in 1..L /\ L \in 1..L /\ L > 2
        /\ 1 \notin (i + 1)..(j - 1) /\ L \notin (i + 1)..(j - 1)
    BY <1>1, <2>2
  <2> QED
    BY <2>1, <2>3
<1>3. CASE Stars(text) = {}
  <2>1. ~InMiddle(text) /\ ~AtFront(text) /\ ~AtEnd(text) /\ ~AtBothEnds(text)
    BY <1>2, <1>3 DEF InMiddle, AtFront, AtEnd
  <2>2. TextCondition(text) = {Predicate("eq", text)}
    BY <1>3, <2>1 DEF TextCondition
  <2> QED
    BY <1>3, <2>2
<1>4. ASSUME NEW k \in 1..L, L > 1, Stars(text) = {k}
      PROVE  TextCondition(text) =
                 (IF k = 1 THEN {} ELSE {Predicate("sw", Before(text, k))})
                 \cup (IF k = L THEN {} ELSE {Predicate("ew", After(text, k))})
  <2> DEFINE b == Predicate("sw", Before(text, k))
             a == Predicate("ew", After(text, k))
  <2> SUFFICES TextCondition(text) =
                   (IF k = 1 THEN {} ELSE {b}) \cup (IF k = L THEN {} ELSE {a})
    OBVIOUS
  <2>0. star = k /\ Stars(text) # {}
    BY <1>4
  <2>1. before = b /\ after = a /\ Stars(text) # {}
    BY <2>0
  <2>2. ~AtBothEnds(text)
    BY <1>2, <1>4
  <2>3. CASE k = 1
    <3>1. AtFront(text) /\ ~InMiddle(text) /\ ~AtEnd(text)
      BY <1>1, <1>4, <2>3 DEF InMiddle, AtFront, AtEnd
    <3>2. TextCondition(text) = {after}
      BY <2>1, <2>2, <3>1 DEF TextCondition
    <3> HIDE DEF a, b, before, after, L
    <3> QED
      BY <1>4, <2>1, <2>3, <3>2
  <2>4. CASE k = L
    <3>1. AtEnd(text) /\ ~InMiddle(text) /\ ~AtFront(text)
      BY <1>1, <1>4, <2>4 DEF InMiddle, AtFront, AtEnd
    <3>2. TextCondition(text) = {before}
      BY <2>1, <2>2, <3>1 DEF TextCondition
    <3> HIDE DEF a, b, before, after, L
    <3> QED
      BY <1>4, <2>1, <2>4, <3>2
  <2>5. CASE k # 1 /\ k # L
    <3>1. InMiddle(text) /\ ~AtFront(text) /\ ~AtEnd(text)
      <4>1. k \in 2..(L - 1)
        <5> HIDE DEF L
        <5> QED
          BY <1>1, <2>5
      <4>2. InMiddle(text)
        BY <1>4, <4>1 DEF InMiddle
      <4>3. Stars(text) # {1} /\ Stars(text) # {L}
        BY <1>4, <2>5
      <4> QED
        BY <4>2, <4>3 DEF AtFront, AtEnd
    <3>2. TextCondition(text) = {before, after}
      BY <2>1, <2>2, <3>1 DEF TextCondition
    <3> HIDE DEF a, b, before, after, L
    <3> QED
      BY <1>4, <2>1, <2>5, <3>2
  <2> QED
    BY <2>3, <2>4, <2>5
<1>5. ASSUME L > 2, Stars(text) = {1, L}
      PROVE  TextCondition(text) = {Predicate("cw", SubSeq(text, 2, L - 1))}
  <2>1. AtBothEnds(text)
    <3>1. 1 \in 1..L /\ L \in 1..L /\ 1 + 1 < L
      BY <1>1, <1>5
    <3>2. {1, L} = (1..L) \ (1 + 1)..(L - 1)
      <4>1. \A n : n \in (1..L) \ (1 + 1)..(L - 1) <=> n = 1 \/ n = L
        BY <1>1, <1>5
      <4> QED
        BY <4>1
    <3> QED
      BY <1>1, <1>5, <3>1, <3>2 DEF AtBothEnds
  <2>2. ~InMiddle(text) /\ ~AtFront(text) /\ ~AtEnd(text) /\ Stars(text) # {}
    BY <1>1, <1>5 DEF InMiddle, AtFront, AtEnd
  <2>3. TextCondition(text) = {Predicate("cw", SubSeq(text, 2, Len(text) - 1))}
    BY <2>1, <2>2 DEF TextCondition
  <2> QED
    BY <2>3
<1> QED
  BY <1>3, <1>4, <1>5

\* What the predicates of a path say of a request.
LEMMA TextHolds ==
    ASSUME NEW q, NEW arg
    PROVE  /\ Satisfies(q, {Predicate("eq", arg)}) <=> q.path = arg
           /\ Satisfies(q, {Predicate("sw", arg)}) <=> IsPrefix(arg, q.path)
           /\ Satisfies(q, {Predicate("ew", arg)}) <=> IsSuffix(arg, q.path)
           /\ Satisfies(q, {Predicate("cw", arg)}) <=> Occurs(arg, q.path)
           /\ Satisfies(q, {})
<1>1. /\ Holds(Predicate("eq", arg), q) <=> q.path = arg
      /\ Holds(Predicate("sw", arg), q) <=> IsPrefix(arg, q.path)
      /\ Holds(Predicate("ew", arg), q) <=> IsSuffix(arg, q.path)
      /\ Holds(Predicate("cw", arg), q) <=> Occurs(arg, q.path)
  BY DEF Holds, Predicate
<1>2. \A p : Satisfies(q, {p}) <=> Holds(p, q)
  BY DEF Satisfies
<1>3. Satisfies(q, {})
  BY DEF Satisfies
<1> QED
  BY <1>1, <1>2, <1>3

\* Part of a sequence, by index.
LEMMA PartOfSeq ==
    ASSUME NEW S, NEW s \in Seq(S), NEW a \in 1..(Len(s) + 1), NEW b \in 0..Len(s), a <= b + 1
    PROVE  /\ SubSeq(s, a, b) \in Seq(S) /\ Len(SubSeq(s, a, b)) = b - a + 1
           /\ \A m \in 1..(b - a + 1) : SubSeq(s, a, b)[m] = s[a - 1 + m]
<1> DEFINE u == SubSeq(s, a, b)
<1>1. Len(s) \in Nat
  OBVIOUS
<1>2. Len(u) = b - a + 1
  BY <1>1
<1>3. \A m \in 1..(b - a + 1) : a - 1 + m \in 1..Len(s) /\ a + m - 1 = a - 1 + m
  BY <1>1
<1>4. \A m \in 1..(b - a + 1) : u[m] = s[a + m - 1]
  BY <1>1
<1>5. u \in Seq(S)
  BY <1>1
<1> QED
  BY <1>2, <1>3, <1>4, <1>5

\* The condition holds of what fits the text.
LEMMA TextConditionMeansFits ==
    ASSUME NEW S, NEW text \in Seq(S), NEW r \in Seq(S), NEW q, q.path = r,
           Accepted(text), ~Overlap(text, r), ~Doubled(text)
    PROVE  Satisfies(q, TextCondition(text)) <=> Fits(text, r)
<1> DEFINE L == Len(text)
           R == Len(r)
<1>1. L \in Nat /\ R \in Nat
  OBVIOUS
<1>2. CASE Stars(text) = {}
  <2>1. TextCondition(text) = {Predicate("eq", text)}
    BY <1>2, TextConditionIs
  <2>2. Fits(text, r) <=> r = text
    BY <1>2, FitsItself
  <2> QED
    BY <2>1, <2>2, TextHolds
<1>3. ASSUME NEW k \in 1..L, L > 1, Stars(text) = {k}
      PROVE  Satisfies(q, TextCondition(text)) <=> Fits(text, r)
  <2> DEFINE B == Before(text, k)
             A == After(text, k)
             Fore == \A m \in 1..(k - 1) : text[m] = r[m]
             Back == \A m \in 1..(L - k) : text[k + m] = r[R - (L - k) + m]
             sw == Predicate("sw", B)
             ew == Predicate("ew", A)
             sws == IF k = 1 THEN {} ELSE {sw}
             ews == IF k = L THEN {} ELSE {ew}
  <2>1. IsPrefix(B, r) <=> k - 1 <= R /\ Fore
    <3>1. B \in Seq(S) /\ Len(B) = k - 1 /\ \A m \in 1..(k - 1) : B[m] = text[m]
      <4>1. /\ SubSeq(text, 1, k - 1) \in Seq(S) /\ Len(SubSeq(text, 1, k - 1)) = (k - 1) - 1 + 1
            /\ \A m \in 1..((k - 1) - 1 + 1) : SubSeq(text, 1, k - 1)[m] = text[1 - 1 + m]
        BY <1>1, PartOfSeq
      <4>2. (k - 1) - 1 + 1 = k - 1 /\ \A m \in 1..(k - 1) : 1 - 1 + m = m
        BY <1>1
      <4> HIDE DEF L
      <4> QED
        BY <4>1, <4>2 DEF Before
    <3> HIDE DEF B
    <3> QED
      BY <3>1, PrefixByIndex DEF BeginsAlike
  <2>2. IsSuffix(A, r) <=> L - k <= R /\ Back
    <3>1. A \in Seq(S) /\ Len(A) = L - k /\ \A m \in 1..(L - k) : A[m] = text[k + m]
      <4>1. /\ SubSeq(text, k + 1, L) \in Seq(S) /\ Len(SubSeq(text, k + 1, L)) = L - (k + 1) + 1
            /\ \A m \in 1..(L - (k + 1) + 1) : SubSeq(text, k + 1, L)[m] = text[(k + 1) - 1 + m]
        BY <1>1, PartOfSeq
      <4>2. L - (k + 1) + 1 = L - k /\ \A m \in 1..(L - k) : (k + 1) - 1 + m = k + m
        BY <1>1
      <4>3. A = SubSeq(text, k + 1, L)
        BY DEF After
      <4> HIDE DEF L, A
      <4> QED
        BY <4>1, <4>2, <4>3
    <3> HIDE DEF A
    <3>2. IsSuffix(A, r) <=> Len(A) <= R /\ \A m \in 1..Len(A) : A[m] = r[R - Len(A) + m]
      BY <1>1, <3>1, SuffixByIndex
    <3> HIDE DEF L, R
    <3> QED
      BY <3>1, <3>2
  <2>3. Fits(text, r) <=> R >= L - 1 /\ Fore /\ Back
    <3>1. Fits(text, r) <=> Around(text, r, k)
      BY <1>3, FitsAroundStar
    <3> QED
      BY <3>1 DEF Around
  <2>4. TextCondition(text) = sws \cup ews
    BY <1>3, TextConditionIs
  <2>5. /\ Satisfies(q, {sw}) <=> IsPrefix(B, r)
        /\ Satisfies(q, {ew}) <=> IsSuffix(A, r)
        /\ Satisfies(q, {})
    BY TextHolds
  <2>6. Satisfies(q, sws \cup ews) <=> Satisfies(q, sws) /\ Satisfies(q, ews)
    BY Together
  <2> HIDE DEF sw, ew, A, B
  <2>7. CASE k = 1
    <3>1. Satisfies(q, sws) /\ (Satisfies(q, ews) <=> IsSuffix(A, r))
      <4>1. sws = {} /\ ews = {ew}
        <5>1. k # L
          <6>1. L > 1
            BY <1>3
          <6> HIDE DEF L
          <6> QED
            BY <1>1, <2>7, <6>1
        <5> QED
          BY <2>7, <5>1
      <4> QED
        BY <2>5, <4>1
    <3>2. Fore /\ (L - k <= R <=> R >= L - 1)
      BY <1>1, <2>7
    <3> HIDE DEF Fore, Back, sws, ews, L, R
    <3> QED
      BY <2>2, <2>3, <2>4, <2>6, <3>1, <3>2
  <2>8. CASE k = L
    <3>1. Satisfies(q, ews) /\ (Satisfies(q, sws) <=> IsPrefix(B, r))
      <4>1. ews = {} /\ sws = {sw}
        BY <1>3, <2>8
      <4> QED
        BY <2>5, <4>1
    <3>2. Back /\ (k - 1 <= R <=> R >= L - 1)
      BY <1>1, <2>8
    <3> HIDE DEF Fore, Back, sws, ews, L, R
    <3> QED
      BY <2>1, <2>3, <2>4, <2>6, <3>1, <3>2
  <2>9. CASE k # 1 /\ k # L
    <3>1. (Satisfies(q, sws) <=> IsPrefix(B, r)) /\ (Satisfies(q, ews) <=> IsSuffix(A, r))
      <4>1. sws = {sw} /\ ews = {ew}
        BY <2>9
      <4> QED
        BY <2>5, <4>1
    <3>2. InMiddle(text)
      <4>1. k \in 2..(L - 1)
        <5> HIDE DEF L
        <5> QED
          BY <1>1, <2>9
      <4> QED
        BY <1>3, <4>1 DEF InMiddle
    <3>3. R >= L - 1
      BY <1>1, <3>2 DEF Overlap
    <3>4. k - 1 <= R /\ L - k <= R
      <4> HIDE DEF L, R
      <4> QED
        BY <1>1, <3>3
    <3> HIDE DEF Fore, Back, sws, ews, L, R
    <3> QED
      BY <2>1, <2>2, <2>3, <2>4, <2>6, <3>1, <3>3, <3>4
  <2> QED
    BY <2>7, <2>8, <2>9
<1>4. CASE L > 2 /\ Stars(text) = {1, L}
  <2> DEFINE C == SubSeq(text, 2, L - 1)
  <2>1. TextCondition(text) = {Predicate("cw", C)}
    BY <1>4, TextConditionIs
  <2>2. C \in Seq(S) /\ Len(C) = L - 2 /\ \A m \in 1..(L - 2) : C[m] = text[1 + m]
    <3>1. /\ SubSeq(text, 2, L - 1) \in Seq(S) /\ Len(SubSeq(text, 2, L - 1)) = (L - 1) - 2 + 1
          /\ \A m \in 1..((L - 1) - 2 + 1) : SubSeq(text, 2, L - 1)[m] = text[2 - 1 + m]
      BY <1>1, <1>4, PartOfSeq
    <3>2. (L - 1) - 2 + 1 = L - 2 /\ \A m \in 1..(L - 2) : 2 - 1 + m = 1 + m
      BY <1>1
    <3> HIDE DEF L
    <3> QED
      BY <3>1, <3>2
  <2> HIDE DEF C
  <2>3. Occurs(C, r) <=> OccursAt(C, r)
    BY <2>2, OccursByIndex
  <2>4. Fits(text, r) <=> Inside(text, r)
    BY <1>4, FitsInside
  <2>5. Satisfies(q, TextCondition(text)) <=> Occurs(C, r)
    <3>1. Satisfies(q, {Predicate("cw", C)}) <=> Occurs(C, q.path)
      BY TextHolds
    <3> QED
      BY <2>1, <3>1
  <2>6. OccursAt(C, r) <=> Inside(text, r)
    <3>1. Inside(text, r) <=>
              \E k \in 0..R : L - 2 <= R - k /\ \A m \in 1..(L - 2) : text[1 + m] = r[k + m]
      BY DEF Inside
    <3>2. OccursAt(C, r) <=>
              \E k \in 0..R : Len(C) <= R - k /\ \A m \in 1..Len(C) : C[m] = r[k + m]
      BY DEF OccursAt
    <3> HIDE DEF L, R
    <3> QED
      BY <2>2, <3>1, <3>2
  <2> QED
    BY <2>3, <2>4, <2>5, <2>6
<1> QED
  BY <1>2, <1>3, <1>4, StarsOfAccepted

\* What PathsAsWritten says of one request, to the host or to a port of it.
MatchesAsWritten(p, text, q) ==
    LET matched == Satisfies(q, RuleCondition(p))
        below == p.text = <<Slash>> \/ text = p.text \/ IsPrefix(p.text \o <<Slash>>, text)
    IN  /\ p.type = "Exact" => (matched <=> text = p.text)
        /\ p.type = "Prefix" => (below => matched)
        /\ p.type = "ImplementationSpecific" /\ Accepted(p.text)
              /\ ~Overlap(p.text, text) /\ ~Doubled(p.text)
              => (matched <=> Fits(p.text, text))

\* What is below a path begins with it.
LEMMA BelowBegins ==
    ASSUME NEW S, NEW s \in Seq(S), NEW x \in S, NEW t \in Seq(S), IsPrefix(s \o <<x>>, t)
    PROVE  IsPrefix(s, t)
<1> DEFINE u == s \o <<x>>
<1>1. Len(s) \in Nat /\ Len(t) \in Nat
  OBVIOUS
<1>2. u \in Seq(S) /\ Len(u) = Len(s) + 1 /\ \A m \in 1..Len(s) : u[m] = s[m]
  BY <1>1
<1>3. BeginsAlike(u, t)
  BY <1>2, PrefixByIndex
<1> HIDE DEF u
<1>4. BeginsAlike(s, t)
  BY <1>1, <1>2, <1>3 DEF BeginsAlike
<1> QED
  BY <1>4, PrefixByIndex

\* What begins with the one character x is below it.
LEMMA RootBegins ==
    ASSUME NEW S, NEW x \in S, NEW t \in Seq(S), t # <<>>, t[1] = x
    PROVE  IsPrefix(<<x>>, t)
<1>1. <<x>> \in Seq(S) /\ Len(<<x>>) = 1 /\ <<x>>[1] = x /\ Len(t) \in Nat /\ Len(t) >= 1
  OBVIOUS
<1>2. BeginsAlike(<<x>>, t)
  BY <1>1 DEF BeginsAlike
<1> QED
  BY <1>1, <1>2, PrefixByIndex

\* A path is matched as it is written, for a request that its host's condition
\* admits.
LEMMA PathMatches ==
    ASSUME NEW p \in Path(Hosts), NEW text \in Seq(Characters), text # <<>>, text[1] = Slash,
           NEW q, q.path = text, Satisfies(q, HostCondition(p.host))
    PROVE  MatchesAsWritten(p, text, q)
<1> DEFINE matched == Satisfies(q, RuleCondition(p))
<1>0. Slash \in Characters
  BY CharactersAssumption
<1>1. ASSUME p.type = "Exact" PROVE matched <=> text = p.text
  <2>1. RuleCondition(p) = HostCondition(p.host) \cup {Predicate("eq", p.text)}
    BY <1>1 DEF RuleCondition
  <2>2. Satisfies(q, {Predicate("eq", p.text)}) <=> q.path = p.text
    BY TextHolds
  <2> QED
    BY <2>1, <2>2, Together
<1>2. ASSUME p.type = "Prefix",
             p.text = <<Slash>> \/ text = p.text \/ IsPrefix(p.text \o <<Slash>>, text)
      PROVE  matched
  <2>1. RuleCondition(p) = HostCondition(p.host) \cup {Predicate("sw", p.text)}
    BY <1>2 DEF RuleCondition
  <2>2. Satisfies(q, {Predicate("sw", p.text)}) <=> IsPrefix(p.text, q.path)
    BY TextHolds
  <2>3. p.text \in Seq(Characters)
    BY <1>2, PathTypes
  <2>4. IsPrefix(p.text, text)
    <3>1. CASE p.text = <<Slash>>
      <4>1. IsPrefix(<<Slash>>, text)
        BY <1>0, RootBegins
      <4> QED
        BY <3>1, <4>1
    <3>2. CASE text = p.text
      <4>1. IsPrefix(text, text)
        BY OwnPrefix
      <4> QED
        BY <3>2, <4>1
    <3>3. CASE IsPrefix(p.text \o <<Slash>>, text)
      BY <1>0, <2>3, <3>3, BelowBegins
    <3> QED
      BY <1>2, <3>1, <3>2, <3>3
  <2> QED
    BY <2>1, <2>2, <2>4, Together
<1>3. ASSUME p.type = "ImplementationSpecific", Accepted(p.text),
             ~Overlap(p.text, text), ~Doubled(p.text)
      PROVE  matched <=> Fits(p.text, text)
  <2>1. RuleCondition(p) = HostCondition(p.host) \cup TextCondition(p.text)
    BY <1>3 DEF RuleCondition
  <2>2. p.text \in Seq(Characters)
    BY <1>3, PathTypes
  <2>3. Satisfies(q, TextCondition(p.text)) <=> Fits(p.text, text)
    BY <1>3, <2>2, TextConditionMeansFits
  <2> QED
    BY <2>1, <2>3, Together
<1> HIDE DEF matched
<1> QED
  BY <1>1, <1>2, <1>3 DEF MatchesAsWritten, matched

\* A path is matched by the requests it describes (routing_rule.go:28-79,
\* 117-150): an exact one by itself, a prefix by everything below it, one with
\* wildcards by what it fits, but for the cases left out; the default backend's
\* rule by everything: whatever the characters and the length of the texts.
THEOREM PathsMatchAsWritten == Spec => []PathsAsWritten
<1>1. ASSUME path \in Path(Hosts), NEW text \in Requests, NEW host \in Hosts
      PROVE  /\ Satisfies(Request(text, host, "", {}), DefaultCondition)
             /\ path.host \in Unnamed \cup {host} =>
                    MatchesAsWritten(path, text, Request(text, host, "", {}))
  <2> DEFINE q == Request(text, host, "", {})
  <2>1. text \in Seq(Characters) /\ text # <<>> /\ text[1] = Slash /\ Slash \in Characters
    BY CasesAssumption, CharactersAssumption
  <2>2. q.path = text
    BY Zenon DEF Request
  <2>3. "" \in HeaderPorts
    BY Zenon DEF HeaderPorts
  <2>4. Satisfies(q, HostCondition(path.host)) <=>
            path.host = host \/ path.host \in Unnamed
    BY <2>3, HostAsked, Zenon
  <2>5. path.host \in Unnamed \cup {host} => Satisfies(q, HostCondition(path.host))
    BY <2>3, <2>4, Zenon
  <2> HIDE DEF q
  <2>6. Satisfies(q, DefaultCondition)
    <3>1. IsPrefix(<<Slash>>, text)
      BY <2>1, RootBegins
    <3> QED
      BY <2>2, <3>1, TextHolds DEF DefaultCondition
  <2>7. path.host \in Unnamed \cup {host} => MatchesAsWritten(path, text, q)
    BY <1>1, <2>1, <2>2, <2>5, PathMatches
  <2> QED
    BY <2>6, <2>7 DEF q
<1>2. TypeOK => PathsAsWritten
  BY <1>1, CaseTypes, Zenon DEF TypeOK, PathsAsWritten, MatchesAsWritten
<1> QED
  BY <1>2, TypeCorrect, PTL
=============================================================================
