-------------------------- MODULE IngressSpecProofs --------------------------
(***************************************************************************)
(* What NewIngressLBSpec makes of an ingress, whatever the ingress: its    *)
(* parts refer to each other only, and a load balancer that has them does  *)
(* with requests what the ingress asks for.                                *)
(*                                                                         *)
(* The routing policies are made by a recursive function over the rules.   *)
(* Recursion gives the function that such a definition chooses;            *)
(* SetInduction and BoundedInduction are inductions whose hypothesis is a  *)
(* set of numbers.                                                         *)
(***************************************************************************)
EXTENDS IngressSpec, SequenceTheorems, WellFoundedInduction, TLAPS

-----------------------------------------------------------------------------
(* Induction and recursion, over sets and functions *)

\* Every set of numbers has a least one.
LEMMA LeastNumber ==
    ASSUME NEW S, S \subseteq Nat, S # {}
    PROVE  \E n \in S : \A m \in S : ~(m < n)
<1>1. PICK n \in S : \A m \in S : ~(<<m, n>> \in OpToRel(<, Nat))
  BY NatLessThanWellFounded, WFMin, Zenon
<1>2. \A m \in S : ~(m < n)
  BY <1>1 DEF OpToRel
<1> QED
  BY <1>2

\* A set of numbers that holds 0 and, with each number, the next one holds all.
LEMMA SetInduction ==
    ASSUME NEW S, 0 \in S, \A n \in S \cap Nat : n + 1 \in S
    PROVE  Nat \subseteq S
<1> SUFFICES ASSUME Nat \ S # {}
             PROVE  FALSE
  OBVIOUS
<1>1. PICK n \in Nat \ S : \A m \in Nat \ S : ~(m < n)
  BY LeastNumber
<1>2. n - 1 \in Nat /\ n - 1 < n /\ (n - 1) + 1 = n
  BY <1>1
<1>3. n - 1 \in S
  BY <1>1, <1>2
<1> QED
  BY <1>1, <1>2, <1>3

\* The same for the numbers up to n.
LEMMA BoundedInduction ==
    ASSUME NEW n \in Nat, NEW S, 0 \in S, \A k \in 1..n : k - 1 \in S => k \in S
    PROVE  \A k \in 0..n : k \in S
<1> DEFINE T == {k \in Nat : k <= n => k \in S}
<1>1. 0 \in T
  OBVIOUS
<1>2. ASSUME NEW k \in T \cap Nat PROVE k + 1 \in T
  <2>1. CASE k + 1 <= n
    <3>1. k + 1 \in 1..n /\ (k + 1) - 1 = k /\ k <= n
      BY <2>1
    <3> QED
      BY <3>1
  <2>2. CASE ~(k + 1 <= n)
    BY <2>2
  <2> QED
    BY <2>1, <2>2
<1>3. Nat \subseteq T
  <2> HIDE DEF T
  <2> QED
    BY <1>1, <1>2, SetInduction
<1> QED
  BY <1>3

StayTogether(f, g, n) ==
    f[0] = g[0] /\ \A k \in 1..n : f[k - 1] = g[k - 1] => f[k] = g[k]

\* Two functions with the same first value and the same next ones are the same.
LEMMA SameValues ==
    ASSUME NEW n \in Nat, NEW f, NEW g, StayTogether(f, g, n)
    PROVE  \A k \in 0..n : f[k] = g[k]
<1> DEFINE S == {k \in 0..n : f[k] = g[k]}
<1>1. 0 \in S /\ \A k \in 1..n : k - 1 \in S => k \in S
  BY DEF StayTogether
<1>2. \A k \in 0..n : k \in S
  <2> HIDE DEF S
  <2> QED
    BY <1>1, BoundedInduction
<1> QED
  BY <1>2

\* There is a function with a first value and a rule for the next one.
Follows(f, n, first, next) ==
    f[0] = first /\ \A k \in 1..n : f[k] = next[<<k, f[k - 1]>>]

\* There is one with values in T, if the rule is a function.
LEMMA Recursion ==
    ASSUME NEW n \in Nat, NEW T, NEW first \in T, NEW next \in [(1..n) \X T -> T]
    PROVE  \E f \in [0..n -> T] : Follows(f, n, first, next)
<1> DEFINE Upto(m, f) == f[0] = first /\ \A k \in 1..m : f[k] = next[<<k, f[k - 1]>>]
           S == {m \in 0..n : \E f \in [0..m -> T] : Upto(m, f)}
<1>1. 0 \in S
  <2> DEFINE f == [k \in 0..0 |-> first]
  <2>1. f \in [0..0 -> T] /\ f[0] = first
    OBVIOUS
  <2>2. Upto(0, f)
    BY <2>1
  <2> HIDE DEF f, Upto
  <2> QED
    BY <2>1, <2>2
<1>2. ASSUME NEW m \in 1..n, m - 1 \in S PROVE m \in S
  <2>1. PICK f \in [0..(m - 1) -> T] : Upto(m - 1, f)
    <3> HIDE DEF Upto
    <3> QED
      BY <1>2
  <2> DEFINE g == [k \in 0..m |-> IF k = m THEN next[<<m, f[m - 1]>>] ELSE f[k]]
  <2>2. f[m - 1] \in T /\ next[<<m, f[m - 1]>>] \in T
    OBVIOUS
  <2>3. g \in [0..m -> T]
    BY <2>2
  <2>4. g[0] = first
    BY <2>1
  <2>5. ASSUME NEW k \in 1..m PROVE g[k] = next[<<k, g[k - 1]>>]
    <3>1. CASE k = m
      <4>1. m \in 0..m /\ m - 1 \in 0..m /\ m - 1 # m
        OBVIOUS
      <4>2. g[m] = next[<<m, f[m - 1]>>] /\ g[m - 1] = f[m - 1]
        BY <4>1
      <4> HIDE DEF g
      <4> QED
        BY <3>1, <4>2
    <3>2. CASE k # m
      <4>1. k \in 1..(m - 1) /\ k \in 0..m /\ k - 1 \in 0..m /\ k - 1 # m
        BY <3>2
      <4>2. g[k] = f[k] /\ g[k - 1] = f[k - 1]
        BY <3>2, <4>1
      <4>3. f[k] = next[<<k, f[k - 1]>>]
        BY <2>1, <4>1
      <4> QED
        BY <4>2, <4>3
    <3> QED
      BY <3>1, <3>2
  <2>6. Upto(m, g)
    BY <2>4, <2>5
  <2> HIDE DEF g, Upto
  <2> QED
    BY <2>3, <2>6
<1>3. n \in S
  <2> HIDE DEF S
  <2> QED
    BY <1>1, <1>2, BoundedInduction
<1>4. \E f \in [0..n -> T] : Upto(n, f)
  <2> HIDE DEF Upto
  <2> QED
    BY <1>3
<1> QED
  BY <1>4 DEF Follows

-----------------------------------------------------------------------------
(* Routing policies *)

\* The types of an ingress's rules.
LEMMA RuleTypes ==
    ASSUME NEW i \in Ingress
    PROVE  /\ Len(i.rules) \in Nat /\ DOMAIN i.rules = 1..Len(i.rules)
           /\ \A n \in 1..Len(i.rules) :
                  i.rules[n].host \in Hosts \cup {NoHost} /\ i.rules[n].to \in Seq(Services)
           /\ RuleHosts(i) \subseteq Hosts \cup {NoHost}
<1>1. i.rules \in Seq(Rule)
  BY DEF Ingress
<1>2. \A n \in 1..Len(i.rules) : i.rules[n] \in Rule
  BY <1>1
<1> QED
  BY <1>1, <1>2 DEF Rule, RuleHosts

\* The policy of a host, after each of the ingress's rules.
MergedUpTo(i, h, policy) ==
    /\ policy \in [0..Len(i.rules) -> Seq(Services)]
    /\ policy[0] = <<>>
    /\ \A n \in 1..Len(i.rules) :
           policy[n] = IF i.rules[n].host # h THEN policy[n - 1]
                       ELSE policy[n - 1] \o i.rules[n].to

\* RoutingPolicy computes that.
LEMMA PolicyIsMerged ==
    ASSUME NEW i \in Ingress, NEW h
    PROVE  \E policy : /\ MergedUpTo(i, h, policy)
                       /\ RoutingPolicy(i, h) = policy[Len(i.rules)] \o Fallback(i)
<1> DEFINE N == Len(i.rules)
           T == Seq(Services)
           Merged(n, p) == IF i.rules[n].host # h THEN p ELSE p \o i.rules[n].to
           next == [x \in (1..N) \X T |-> Merged(x[1], x[2])]
           Made(f) == f = [n \in 0..N |->
                              IF n = 0 THEN <<>>
                              ELSE IF i.rules[n].host # h THEN f[n - 1]
                              ELSE f[n - 1] \o i.rules[n].to]
           policy == CHOOSE f : Made(f)
<1>1. N \in Nat /\ \A n \in 1..N : i.rules[n].to \in T
  BY RuleTypes
<1>2. <<>> \in T /\ next \in [(1..N) \X T -> T]
  BY <1>1
<1>3. PICK f \in [0..N -> T] : f[0] = <<>> /\ \A k \in 1..N : f[k] = next[<<k, f[k - 1]>>]
  <2> HIDE DEF next, T, N
  <2>1. \E f \in [0..N -> T] : Follows(f, N, <<>>, next)
    BY <1>1, <1>2, Recursion
  <2> QED
    BY <2>1 DEF Follows
<1>4. ASSUME NEW k \in 1..N PROVE f[k] = Merged(k, f[k - 1])
  <2>0. k - 1 \in 0..N
    BY <1>1
  <2>1. f[k - 1] \in T /\ <<k, f[k - 1]>> \in (1..N) \X T
    <3> HIDE DEF N, T
    <3> QED
      BY <2>0
  <2>2. next[<<k, f[k - 1]>>] = Merged(k, f[k - 1])
    BY <2>1
  <2> QED
    BY <1>3, <2>2
<1>5. Made(f)
  BY <1>3, <1>4
<1>6. Made(policy)
  <2> HIDE DEF Made
  <2> QED
    BY <1>5, Zenon
<1>7. /\ policy[0] = <<>>
      /\ \A k \in 1..N : policy[k] = Merged(k, policy[k - 1])
  <2> DEFINE made == [n \in 0..N |->
                         IF n = 0 THEN <<>>
                         ELSE IF i.rules[n].host # h THEN policy[n - 1]
                         ELSE policy[n - 1] \o i.rules[n].to]
  <2>1. policy = made
    BY <1>6, Zenon
  <2>2. made[0] = <<>> /\ \A k \in 1..N : made[k] = Merged(k, policy[k - 1])
    <3> HIDE DEF policy
    <3> QED
      BY <1>1
  <2> HIDE DEF made, policy
  <2> QED
    BY <2>1, <2>2
<1>8. \A k \in 0..N : f[k] = policy[k]
  <2>1. StayTogether(f, policy, N)
    <3> HIDE DEF Merged, policy, N, T
    <3> QED
      BY <1>3, <1>4, <1>7 DEF StayTogether
  <2> HIDE DEF policy, N, T
  <2> QED
    BY <1>1, <2>1, SameValues
<1>9. RoutingPolicy(i, h) = policy[N] \o Fallback(i)
  BY DEF RoutingPolicy, Fallback
<1> QED
  <2>1. MergedUpTo(i, h, f)
    <3> HIDE DEF policy
    <3> QED
      BY <1>3, <1>4 DEF MergedUpTo
  <2>2. N \in 0..N /\ f[N] = policy[N]
    <3> HIDE DEF policy, N
    <3> QED
      BY <1>1, <1>8
  <2> HIDE DEF policy
  <2> QED
    BY <1>9, <2>1, <2>2

\* FlattenSeq puts one sequence behind the other.
LEMMA FlattenIsConcatenation ==
    ASSUME NEW S, NEW seqs \in Seq(Seq(S))
    PROVE  \E f \in [0..Len(seqs) -> Seq(S)] :
               /\ f[0] = <<>>
               /\ \A k \in 1..Len(seqs) : f[k] = f[k - 1] \o seqs[k]
               /\ FlattenSeq(seqs) = f[Len(seqs)]
<1> DEFINE N == Len(seqs)
           T == Seq(S)
           next == [x \in (1..N) \X T |-> x[2] \o seqs[x[1]]]
           Made(g) == g = [k \in 1..N |-> IF k = 1 THEN seqs[k] ELSE g[k - 1] \o seqs[k]]
           flatten == CHOOSE g : Made(g)
<1>1. N \in Nat /\ \A k \in 1..N : seqs[k] \in T
  OBVIOUS
<1>2. <<>> \in T /\ next \in [(1..N) \X T -> T]
  BY <1>1
<1>3. PICK f \in [0..N -> T] : f[0] = <<>> /\ \A k \in 1..N : f[k] = next[<<k, f[k - 1]>>]
  <2> HIDE DEF next, T, N
  <2>1. \E f \in [0..N -> T] : Follows(f, N, <<>>, next)
    BY <1>1, <1>2, Recursion
  <2> QED
    BY <2>1 DEF Follows
<1>4. ASSUME NEW k \in 1..N PROVE f[k - 1] \in T /\ f[k] = f[k - 1] \o seqs[k]
  <2>0. k - 1 \in 0..N
    BY <1>1
  <2>1. f[k - 1] \in T /\ <<k, f[k - 1]>> \in (1..N) \X T
    <3> HIDE DEF N, T
    <3> QED
      BY <2>0
  <2>2. next[<<k, f[k - 1]>>] = f[k - 1] \o seqs[k]
    BY <2>1
  <2> QED
    BY <1>3, <2>1, <2>2
<1>5. CASE N = 0
  <2>1. FlattenSeq(seqs) = <<>>
    BY <1>5 DEF FlattenSeq
  <2> QED
    BY <1>3, <1>4, <1>5, <2>1
<1>6. CASE N # 0
  <2> DEFINE g == [k \in 1..N |-> f[k]]
  <2>1. f[1] = seqs[1]
    <3>1. 1 \in 1..N
      BY <1>1, <1>6
    <3>2. f[1] = f[0] \o seqs[1] /\ seqs[1] \in Seq(S)
      <4> HIDE DEF next, N
      <4>1. f[1] = f[1 - 1] \o seqs[1]
        BY <1>4, <3>1
      <4> QED
        BY <1>1, <3>1, <4>1
    <3> QED
      BY <1>3, <3>2
  <2>2. Made(g)
    <3> SUFFICES ASSUME NEW k \in 1..N
                 PROVE  f[k] = IF k = 1 THEN seqs[k] ELSE g[k - 1] \o seqs[k]
      BY Zenon
    <3>1. CASE k = 1
      BY <2>1, <3>1
    <3>2. CASE k # 1
      <4>1. k - 1 \in 1..N
        BY <1>1, <3>2
      <4>2. g[k - 1] = f[k - 1]
        BY <4>1
      <4> HIDE DEF g, next
      <4> QED
        BY <1>4, <3>2, <4>2
    <3> QED
      BY <3>1, <3>2
  <2>3. Made(flatten)
    <3> HIDE DEF Made
    <3> QED
      BY <2>2, Zenon
  <2>4. \A k \in 1..N : flatten[k] = IF k = 1 THEN seqs[k] ELSE flatten[k - 1] \o seqs[k]
    <3> DEFINE made == [k \in 1..N |-> IF k = 1 THEN seqs[k] ELSE flatten[k - 1] \o seqs[k]]
    <3>1. flatten = made
      BY <2>3, Zenon
    <3>2. \A k \in 1..N :
              made[k] = IF k = 1 THEN seqs[k] ELSE flatten[k - 1] \o seqs[k]
      <4> HIDE DEF flatten
      <4> QED
        OBVIOUS
    <3> HIDE DEF made, flatten
    <3> QED
      BY <3>1, <3>2
  <2>5. FlattenSeq(seqs) = flatten[N]
    BY <1>6 DEF FlattenSeq
  <2> DEFINE h == [k \in 0..N |-> IF k = 0 THEN <<>> ELSE flatten[k]]
  <2>6. StayTogether(f, h, N)
    <3>1. f[0] = h[0]
      BY <1>1, <1>3
    <3>2. ASSUME NEW k \in 1..N, f[k - 1] = h[k - 1] PROVE f[k] = h[k]
      <4> HIDE DEF flatten
      <4>1. CASE k = 1
        <5>1. h[1] = flatten[1]
          BY <1>6
        <5> QED
          BY <2>1, <2>4, <4>1, <5>1
      <4>2. CASE k # 1
        <5>1. h[k] = flatten[k] /\ h[k - 1] = flatten[k - 1]
          BY <4>2
        <5> HIDE DEF h
        <5> QED
          BY <1>4, <2>4, <3>2, <4>2, <5>1
      <4> QED
        BY <4>1, <4>2
    <3> HIDE DEF h
    <3> QED
      BY <3>1, <3>2 DEF StayTogether
  <2>7. \A k \in 0..N : f[k] = h[k]
    <3> HIDE DEF h, N
    <3> QED
      BY <1>1, <2>6, SameValues
  <2>8. f[N] = flatten[N]
    <3> HIDE DEF flatten
    <3> QED
      BY <1>1, <1>6, <2>7
  <2> HIDE DEF flatten
  <2> QED
    BY <1>3, <1>4, <2>5, <2>8
<1> QED
  BY <1>5, <1>6

\* What NewIngressLBSpec merges (spec.go:224-296) is what the ingress says: the
\* rules of the host, of every rule for it, in order, then the default backend.
THEOREM PolicyIsAsAsked ==
    \A i \in Ingress : \A h : RoutingPolicy(i, h) = RulesFor(i, h) \o Fallback(i)
<1> SUFFICES ASSUME NEW i \in Ingress, NEW h
             PROVE  RoutingPolicy(i, h) = RulesFor(i, h) \o Fallback(i)
  OBVIOUS
<1> DEFINE N == Len(i.rules)
           Part(n) == IF i.rules[n].host = h THEN i.rules[n].to ELSE <<>>
           seqs == [n \in DOMAIN i.rules |-> Part(n)]
<1>1. N \in Nat /\ DOMAIN i.rules = 1..N /\ \A n \in 1..N : i.rules[n].to \in Seq(Services)
  BY RuleTypes
<1>2. /\ seqs \in Seq(Seq(Services)) /\ Len(seqs) = N
      /\ \A n \in 1..N : seqs[n] = Part(n)
  <2>1. \A n \in 1..N : Part(n) \in Seq(Services)
    BY <1>1
  <2> HIDE DEF Part, N
  <2> QED
    BY <1>1, <2>1
<1>3. RulesFor(i, h) = FlattenSeq(seqs)
  BY DEF RulesFor
<1>4. PICK f \in [0..N -> Seq(Services)] :
          /\ f[0] = <<>> /\ FlattenSeq(seqs) = f[N]
          /\ \A n \in 1..N : f[n] = f[n - 1] \o seqs[n]
  <2> HIDE DEF seqs, N
  <2> QED
    BY <1>2, FlattenIsConcatenation
<1>5. PICK policy : /\ MergedUpTo(i, h, policy)
                    /\ RoutingPolicy(i, h) = policy[N] \o Fallback(i)
  BY PolicyIsMerged
<1>6. ASSUME NEW n \in 1..N, policy[n - 1] = f[n - 1] PROVE policy[n] = f[n]
  <2>1. policy[n] = IF i.rules[n].host # h THEN policy[n - 1]
                    ELSE policy[n - 1] \o i.rules[n].to
    BY <1>5 DEF MergedUpTo
  <2>2. f[n] = f[n - 1] \o Part(n)
    BY <1>2, <1>4
  <2>3. n - 1 \in 0..N
    BY <1>1
  <2>4. f[n - 1] \in Seq(Services)
    BY <2>3
  <2>5. f[n - 1] \o <<>> = f[n - 1]
    BY <2>4
  <2> QED
    BY <1>6, <2>1, <2>2, <2>5
<1>7. \A n \in 0..N : policy[n] = f[n]
  <2> HIDE DEF N
  <2>1. policy[0] = f[0]
    BY <1>4, <1>5 DEF MergedUpTo
  <2>2. StayTogether(policy, f, N)
    BY <1>6, <2>1 DEF StayTogether
  <2>3. N \in Nat
    BY <1>1
  <2> QED
    BY <2>2, <2>3, SameValues
<1>8. policy[N] = f[N]
  <2> HIDE DEF N
  <2> QED
    BY <1>1, <1>7
<1> HIDE DEF seqs, N
<1> QED
  BY <1>3, <1>4, <1>5, <1>8

\* Its rules lead to services that were looked up.
\* A policy is a sequence of services,
LEMMA PolicyType ==
    ASSUME NEW i \in Ingress, NEW h
    PROVE  RoutingPolicy(i, h) \in Seq(Services)
<1>1. PICK policy : /\ MergedUpTo(i, h, policy)
                    /\ RoutingPolicy(i, h) = policy[Len(i.rules)] \o Fallback(i)
  BY PolicyIsMerged
<1>2. policy[Len(i.rules)] \in Seq(Services)
  BY <1>1, RuleTypes DEF MergedUpTo
<1>3. Fallback(i) \in Seq(Services)
  BY DEF Fallback, Ingress
<1>4. policy[Len(i.rules)] \o Fallback(i) \in Seq(Services)
  BY <1>2, <1>3
<1> QED
  BY <1>1, <1>4

\* all of which the ingress mentions.
LEMMA PolicyIsOfUsedServices ==
    ASSUME NEW i \in Ingress, NEW h
    PROVE  ToSet(RoutingPolicy(i, h)) \subseteq UsedServices(i)
<1> DEFINE N == Len(i.rules)
           U == UsedServices(i)
<1>1. N \in Nat /\ DOMAIN i.rules = 1..N
  BY RuleTypes
<1>2. PICK policy : /\ MergedUpTo(i, h, policy)
                    /\ RoutingPolicy(i, h) = policy[N] \o Fallback(i)
  BY PolicyIsMerged
<1>3. \A n \in 1..N : i.rules[n].to \in Seq(U)
  <2> SUFFICES ASSUME NEW n \in 1..N
               PROVE  i.rules[n].to \in Seq(U)
    OBVIOUS
  <2> DEFINE to == i.rules[n].to
  <2>1. to \in Seq(Services)
    BY RuleTypes
  <2>2. \A k \in 1..Len(to) : to[k] \in U
    BY <1>1, <2>1 DEF UsedServices, ToSet
  <2> HIDE DEF to, U
  <2> QED
    BY <2>1, <2>2 DEF to
<1>4. Fallback(i) \in Seq(U)
  <2>1. i.default # None => i.default \in U
    BY DEF UsedServices
  <2> QED
    BY <2>1 DEF Fallback
<1>5. policy[N] \in Seq(U)
  <2> DEFINE S == {n \in 0..N : policy[n] \in Seq(U)}
  <2>1. 0 \in S
    BY <1>1, <1>2 DEF MergedUpTo
  <2>2. ASSUME NEW n \in 1..N, n - 1 \in S PROVE n \in S
    <3>1. policy[n] = IF i.rules[n].host # h THEN policy[n - 1]
                      ELSE policy[n - 1] \o i.rules[n].to
      BY <1>2 DEF MergedUpTo
    <3> HIDE DEF U
    <3>2. policy[n] \in Seq(U)
      BY <1>3, <2>2, <3>1
    <3> QED
      BY <1>1, <3>2
  <2>3. N \in S
    <3> HIDE DEF S, N, U
    <3>1. \A n \in 1..N : n - 1 \in S => n \in S
      BY <2>2
    <3>2. \A n \in 0..N : n \in S
      BY <1>1, <2>1, <3>1, BoundedInduction
    <3> QED
      BY <1>1, <3>2
  <2> QED
    BY <2>3
<1> DEFINE merged == policy[N]
           last == Fallback(i)
<1>6. merged \o last \in Seq(U)
  <2> HIDE DEF U, merged, last
  <2>1. merged \in Seq(U) /\ last \in Seq(U)
    BY <1>4, <1>5 DEF merged, last
  <2> QED
    BY <2>1
<1>7. RoutingPolicy(i, h) \in Seq(U)
  BY <1>2, <1>6, Zenon
<1> HIDE DEF U
<1>8. \A k \in DOMAIN RoutingPolicy(i, h) : RoutingPolicy(i, h)[k] \in U
  BY <1>7
<1> QED
  BY <1>8 DEF ToSet, U

-----------------------------------------------------------------------------
(* What is sent refers to nothing that is missing *)

\* The specification of an ingress contains whatever its listeners refer to
\* (spec.go:224-308, helpers.go:16-111), unless its redirector is for hosts that
\* no rule mentions: the backend sets, policies, hostnames, certificates and rule
\* sets come with it.
LEMMA ListenersResolve ==
    \A i \in Ingress :
        TLSHosts(i) \subseteq RuleHosts(i) \/ ~i.redirect =>
            \A x \in ListenerIds(LBSpec(i)) :
                References(x, LBSpec(i)[x]) \subseteq SubResources(i)
<1> SUFFICES ASSUME NEW i \in Ingress, TLSHosts(i) \subseteq RuleHosts(i) \/ ~i.redirect,
                    NEW x \in ListenerIds(LBSpec(i))
             PROVE  References(x, LBSpec(i)[x]) \subseteq SubResources(i)
  OBVIOUS
<1> DEFINE n == x[2]
<1>1. PICK m \in Listeners(i) : x = <<"listener", m>>
  BY DEF ListenerIds, LBSpec, SubResources
<1>2. n \in Listeners(i) /\ x = <<"listener", n>>
  BY <1>1
<1>3. References(x, LBSpec(i)[x]) = References(x, Listener(i, n))
  BY <1>2 DEF ListenerIds, LBSpec
<1>4. RuleHosts(i) \subseteq Hosts \cup {NoHost}
  <2>1. i.rules \in Seq(Rule)
    BY DEF Ingress
  <2>2. \A k \in DOMAIN i.rules : i.rules[k] \in Rule
    BY <2>1
  <2> QED
    BY <2>2 DEF RuleHosts, Rule
<1>5. <<"backendSet", Dummy>> \in SubResources(i)
  BY DEF SubResources
<1>6. CASE n = RedirectorName
  <2>1. Redirects(i)
    BY <1>2, <1>4, <1>6, RedirectorAssumption
    DEF Listeners, DefaultListenerName, RedirectorName
  <2>2. \A h \in TLSHosts(i) : h \in RuleHosts(i) \ {NoHost}
    BY <2>1, NamesAssumption DEF Redirects, TLSHosts
  <2>3. Listener(i, n) = Redirector(i)
    BY <1>6 DEF Listener, DefaultListenerName, RedirectorName
  <2> QED
    BY <1>2, <1>3, <1>5, <2>1, <2>2, <2>3 DEF References, Redirector, SubResources
<1>7. CASE n # RedirectorName /\ n = DefaultListenerName(i)
  <2>1. Listener(i, n) = DefaultListener(i)
    BY <1>7 DEF Listener, DefaultListenerName, RedirectorName
  <2>2. i.default # None => i.default \in UsedServices(i)
    BY DEF UsedServices
  <2>3. i.default # None => <<"backendSet", i.default>> \in SubResources(i)
    BY <2>2 DEF SubResources
  <2> QED
    BY <1>2, <1>3, <1>5, <2>1, <2>3 DEF References, DefaultListener
<1>8. CASE n # RedirectorName /\ n # DefaultListenerName(i)
  <2>1. n \in RuleHosts(i)
    BY <1>2, <1>8 DEF Listeners
  <2>2. Listener(i, n) = HostListener(i, n)
    BY <1>8 DEF Listener
  <2>3. CertificateOf(i, n) # None => <<"certificate", CertificateOf(i, n)>> \in SubResources(i)
    BY <2>1 DEF CertificateOf, SubResources, TLSHosts
  <2>4. /\ <<"policy", n>> \in SubResources(i)
        /\ n # NoHost => <<"hostname", n>> \in SubResources(i)
    BY <2>1 DEF SubResources
  <2> QED
    BY <1>2, <1>3, <1>5, <2>2, <2>3, <2>4 DEF References, HostListener
<1> QED
  BY <1>6, <1>7, <1>8

\* Whatever a listener or a routing policy refers to is part of the same spec
\* (spec.go:224-308, 437-450), unless the redirector is for hosts that no rule
\* mentions.
LEMMA SpecificationResolves ==
    ASSUME NEW i \in Ingress, TLSHosts(i) \subseteq RuleHosts(i) \/ ~i.redirect,
           NEW x \in SubResources(i)
    PROVE  References(x, LBSpec(i)[x]) \subseteq SubResources(i)
<1>1. CASE x[1] = "listener"
  <2>1. x \in ListenerIds(LBSpec(i))
    BY <1>1 DEF ListenerIds, LBSpec
  <2> QED
    BY <2>1, ListenersResolve
<1>2. CASE x[1] = "policy"
  <2>1. LBSpec(i)[x] = RoutingPolicy(i, x[2])
    BY <1>2 DEF LBSpec
  <2>2. References(x, LBSpec(i)[x])
            = {<<"backendSet", s>> : s \in ToSet(RoutingPolicy(i, x[2]))}
    BY <1>2, <2>1 DEF References
  <2>3. ToSet(RoutingPolicy(i, x[2])) \subseteq UsedServices(i)
    BY PolicyIsOfUsedServices
  <2> QED
    BY <2>2, <2>3 DEF SubResources
<1>3. CASE x[1] # "listener" /\ x[1] # "policy"
  BY <1>3 DEF References
<1> QED
  BY <1>1, <1>2, <1>3

-----------------------------------------------------------------------------
(* Requests go where the ingress says *)

ListenerId(n) == <<"listener", n>>
PolicyId(h) == <<"policy", h>>
RedirectorId == ListenerId(RedirectorName)
DefaultId(i) == ListenerId(DefaultListenerName(i))
HostIds(i) == {ListenerId(h) : h \in RuleHosts(i)}

\* The listeners of a specification, and what they are.
LEMMA ListenersOfSpec ==
    ASSUME NEW i \in Ingress, NoHost \notin RuleHosts(i)
    PROVE  /\ RuleHosts(i) \subseteq Hosts
           /\ ListenerIds(LBSpec(i)) = HostIds(i) \cup {DefaultId(i)}
                                          \cup IF Redirects(i) THEN {RedirectorId} ELSE {}
           /\ LBSpec(i)[DefaultId(i)] = DefaultListener(i)
           /\ Redirects(i) => LBSpec(i)[RedirectorId] = Redirector(i)
           /\ \A h \in RuleHosts(i) :
                  /\ LBSpec(i)[ListenerId(h)] = HostListener(i, h)
                  /\ LBSpec(i)[PolicyId(h)] = RoutingPolicy(i, h)
<1> DEFINE Named == {ListenerId(n) : n \in Listeners(i)}
<1>1. RuleHosts(i) \subseteq Hosts
  BY RuleTypes
<1>2. ListenerIds(LBSpec(i)) = Named
  BY DEF ListenerIds, LBSpec, SubResources, ListenerId
<1>3. Named = HostIds(i) \cup {DefaultId(i)} \cup IF Redirects(i) THEN {RedirectorId} ELSE {}
  BY DEF Listeners, HostIds, DefaultId, RedirectorId
<1>4. \A n \in Listeners(i) : LBSpec(i)[ListenerId(n)] = Listener(i, n)
  BY DEF LBSpec, SubResources, ListenerId
<1>5. Listener(i, DefaultListenerName(i)) = DefaultListener(i)
  BY DEF Listener, DefaultListenerName, RedirectorName
<1>6. Listener(i, RedirectorName) = Redirector(i)
  BY DEF Listener, DefaultListenerName, RedirectorName
<1>7. ASSUME NEW h \in RuleHosts(i)
      PROVE  Listener(i, h) = HostListener(i, h)
  <2>1. h # RedirectorName /\ h # DefaultListenerName(i)
    BY <1>1, RedirectorAssumption, DefaultListenerAssumption DEF DefaultListenerName
  <2> QED
    BY <2>1 DEF Listener
<1>8. \A h \in RuleHosts(i) : LBSpec(i)[PolicyId(h)] = RoutingPolicy(i, h)
  BY DEF LBSpec, SubResources, PolicyId
<1>9. /\ RuleHosts(i) \subseteq Listeners(i) /\ DefaultListenerName(i) \in Listeners(i)
      /\ Redirects(i) => RedirectorName \in Listeners(i)
  BY DEF Listeners
<1>10. /\ LBSpec(i)[DefaultId(i)] = DefaultListener(i)
       /\ Redirects(i) => LBSpec(i)[RedirectorId] = Redirector(i)
  BY <1>4, <1>5, <1>6, <1>9 DEF DefaultId, RedirectorId
<1>11. \A h \in RuleHosts(i) : LBSpec(i)[ListenerId(h)] = HostListener(i, h)
  BY <1>4, <1>7, <1>9
<1> HIDE DEF Named
<1> QED
  BY <1>1, <1>2, <1>3, <1>8, <1>10, <1>11

\* The port a host is served on.
LEMMA PortOfHost ==
    ASSUME NEW i \in Ingress, NEW h \in Hosts
    PROVE  HostListener(i, h).port = IF h \in TLSHosts(i) THEN 443 ELSE 80
BY DEF HostListener, CertificateOf, TLSHosts

\* A request for host h on a port is taken by the listener of the host, by the
\* redirector, by the default listener or by none.
LEMMA WhoTakes ==
    ASSUME NEW i \in Ingress, NoHost \notin RuleHosts(i), NEW port \in {80, 443}, NEW h \in Hosts
    PROVE  LET secured == h \in TLSHosts(i) IN
           Takes(LBSpec(i), port, h) =
               IF port = 80 /\ secured /\ i.redirect THEN {RedirectorId}
               ELSE IF h \in RuleHosts(i) /\ (port = 443 <=> secured) THEN {ListenerId(h)}
               ELSE IF port = 80 THEN {DefaultId(i)} ELSE {}
<1> DEFINE lb == LBSpec(i)
           secured == h \in TLSHosts(i)
           ids == ListenerIds(lb)
           at == {x \in ids : lb[x].port = port}
           virtual == {x \in at : h \in lb[x].hostnames}
           bare == {x \in at : lb[x].hostnames = {}}
<1>1. Takes(lb, port, h) = IF virtual # {} THEN virtual ELSE bare
  BY DEF Takes
<1>2. ids = HostIds(i) \cup {DefaultId(i)} \cup IF Redirects(i) THEN {RedirectorId} ELSE {}
  BY ListenersOfSpec
<1>0. /\ lb[DefaultId(i)] = DefaultListener(i)
      /\ Redirects(i) => lb[RedirectorId] = Redirector(i)
      /\ \A g \in RuleHosts(i) : lb[ListenerId(g)] = HostListener(i, g) /\ g \in Hosts
  <2>1. /\ RuleHosts(i) \subseteq Hosts /\ lb[DefaultId(i)] = DefaultListener(i)
        /\ Redirects(i) => lb[RedirectorId] = Redirector(i)
    BY ListenersOfSpec
  <2>2. \A g \in RuleHosts(i) : lb[ListenerId(g)] = HostListener(i, g)
    BY ListenersOfSpec
  <2> HIDE DEF lb
  <2> QED
    BY <2>1, <2>2
<1>3. lb[DefaultId(i)].port = 80 /\ lb[DefaultId(i)].hostnames = {}
  <2> HIDE DEF lb
  <2> QED
    BY <1>0 DEF DefaultListener
<1>4. Redirects(i) => /\ lb[RedirectorId].port = 80
                      /\ lb[RedirectorId].hostnames = TLSHosts(i) /\ TLSHosts(i) # {}
  <2> HIDE DEF lb
  <2> QED
    BY <1>0 DEF Redirector, Redirects
<1>5. \A g \in RuleHosts(i) :
          /\ lb[ListenerId(g)].port = IF g \in TLSHosts(i) THEN 443 ELSE 80
          /\ lb[ListenerId(g)].hostnames = {g}
  <2> HIDE DEF lb
  <2>1. \A g \in RuleHosts(i) :
            HostListener(i, g).hostnames = {g} \ {NoHost} /\ g # NoHost
    BY <1>0 DEF HostListener
  <2> QED
    BY <1>0, <2>1, PortOfHost
<1>6. secured /\ i.redirect => Redirects(i)
  BY DEF Redirects
<1>7. Redirects(i) => i.redirect
  BY DEF Redirects
<1> HIDE DEF lb, ids
<1>8. bare = IF port = 80 THEN {DefaultId(i)} ELSE {}
  BY <1>2, <1>3, <1>4, <1>5 DEF HostIds
<1>9. CASE port = 80 /\ secured /\ i.redirect
  <2>1. virtual = {RedirectorId}
    BY <1>2, <1>3, <1>4, <1>5, <1>6, <1>9 DEF HostIds
  <2> QED
    BY <1>1, <1>9, <2>1 DEF lb
<1>10. CASE h \in RuleHosts(i) /\ (port = 443 <=> secured)
  <2>1. virtual = {ListenerId(h)}
    BY <1>2, <1>3, <1>4, <1>5, <1>10 DEF HostIds
  <2>2. ~(port = 80 /\ secured)
    BY <1>10
  <2>3. Takes(lb, port, h) = {ListenerId(h)}
    <3> HIDE DEF virtual, bare
    <3> QED
      BY <1>1, <2>1
  <2> QED
    BY <1>10, <2>2, <2>3 DEF lb
<1>11. CASE /\ ~(port = 80 /\ secured /\ i.redirect)
            /\ ~(h \in RuleHosts(i) /\ (port = 443 <=> secured))
  <2>1. ASSUME NEW x \in ids, lb[x].port = port, h \in lb[x].hostnames
        PROVE  FALSE
    <3>1. CASE x \in HostIds(i)
      <4>1. x = ListenerId(h) /\ h \in RuleHosts(i)
        BY <1>5, <2>1, <3>1 DEF HostIds
      <4> QED
        BY <1>5, <1>11, <2>1, <4>1
    <3>2. CASE x = DefaultId(i)
      BY <1>3, <2>1, <3>2
    <3>3. CASE Redirects(i) /\ x = RedirectorId
      BY <1>4, <1>7, <1>11, <2>1, <3>3
    <3> QED
      BY <1>2, <3>1, <3>2, <3>3
  <2>2. virtual = {}
    BY <2>1
  <2>3. Takes(lb, port, h) = IF port = 80 THEN {DefaultId(i)} ELSE {}
    <3> HIDE DEF virtual, bare
    <3> QED
      BY <1>1, <1>8, <2>2
  <2> QED
    BY <1>11, <2>3 DEF lb
<1> QED
  BY <1>9, <1>10, <1>11

\* A request has one listener that takes it, and that listener tries the backends
\* of all rules for the host, in order, then the default backend, or redirects
\* (spec.go:224-308, helpers.go:16-111): if all rules name a host.
LEMMA SpecificationServes ==
    ASSUME NEW i \in Ingress, NoHost \notin RuleHosts(i),
           NEW port \in {80, 443}, NEW h \in Hosts
    PROVE  Serves(LBSpec(i), i, port, h)
<1> USE DEF Serves
<1> DEFINE lb == LBSpec(i)
           secured == h \in TLSHosts(i)
           t == Takes(lb, port, h)
<1>1. CASE port = 80 /\ secured /\ i.redirect
  <2>1. t = {RedirectorId}
    BY <1>1, WhoTakes
  <2>2. lb[RedirectorId] = Redirector(i)
    BY <1>1, ListenersOfSpec DEF Redirects
  <2> HIDE DEF lb
  <2>3. Backends(lb, RedirectorId) = <<>>
    BY <2>2 DEF Backends, Redirector
  <2>4. Asked(i, port, h) = <<>> /\ Served(i, port, h)
    BY <1>1 DEF Asked, Served, Secured
  <2> QED
    BY <2>1, <2>3, <2>4 DEF lb
<1>2. CASE /\ ~(port = 80 /\ secured /\ i.redirect)
           /\ h \in RuleHosts(i) /\ (port = 443 <=> secured)
  <2>1. t = {ListenerId(h)}
    BY <1>2, WhoTakes
  <2>2. lb[ListenerId(h)] = HostListener(i, h) /\ lb[PolicyId(h)] = RoutingPolicy(i, h)
    BY <1>2, ListenersOfSpec
  <2> HIDE DEF lb
  <2>3. h # None
    BY NamesAssumption
  <2>4. Backends(lb, ListenerId(h)) = RoutingPolicy(i, h) \o <<Dummy>>
    <3>1. /\ lb[ListenerId(h)].ruleSets = {} /\ lb[ListenerId(h)].policy = h
          /\ lb[ListenerId(h)].backendSet = Dummy
      BY <2>2 DEF HostListener
    <3>2. lb[<<"policy", lb[ListenerId(h)].policy>>] = RoutingPolicy(i, h)
      BY <2>2, <3>1 DEF PolicyId
    <3> QED
      BY <2>3, <3>1, <3>2 DEF Backends
  <2>5. Asked(i, port, h) = RulesFor(i, h) \o Fallback(i) \o <<Dummy>>
    BY <1>2 DEF Asked, Secured
  <2>6. Served(i, port, h)
    BY <1>2 DEF Served
  <2>7. RoutingPolicy(i, h) = RulesFor(i, h) \o Fallback(i)
    BY <1>2, PolicyIsAsAsked
  <2>8. Backends(lb, ListenerId(h)) = Asked(i, port, h)
    BY <2>4, <2>5, <2>7
  <2> QED
    BY <2>1, <2>6, <2>8 DEF lb
<1>3. CASE /\ ~(port = 80 /\ secured /\ i.redirect)
           /\ ~(h \in RuleHosts(i) /\ (port = 443 <=> secured)) /\ port = 80
  <2>1. t = {DefaultId(i)}
    BY <1>3, WhoTakes
  <2>2. lb[DefaultId(i)] = DefaultListener(i)
    BY ListenersOfSpec
  <2> HIDE DEF lb
  <2>3. Backends(lb, DefaultId(i)) = <<>> \o <<DefaultListener(i).backendSet>>
    BY <2>2 DEF Backends, DefaultListener
  <2>4. Asked(i, port, h) = <<DefaultListener(i).backendSet>>
    BY <1>3 DEF Asked, Secured, Fallback, DefaultListener
  <2>5. Served(i, port, h)
    BY <1>3 DEF Served
  <2> QED
    BY <2>1, <2>3, <2>4, <2>5 DEF lb
<1>4. CASE /\ ~(h \in RuleHosts(i) /\ (port = 443 <=> secured)) /\ port = 443
  <2>1. t = {}
    BY <1>4, WhoTakes
  <2>2. ~Served(i, port, h)
    BY <1>4 DEF Served
  <2> QED
    BY <2>1, <2>2
<1> QED
  BY <1>1, <1>2, <1>3, <1>4
=============================================================================
