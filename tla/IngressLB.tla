------------------------------ MODULE IngressLB ------------------------------
(***************************************************************************)
(* What the controller promises about the load balancers of a cluster,     *)
(* whatever it does to keep the promise:                                   *)
(*                                                                         *)
(*   - a load balancer only ever carries a version of the ingress that     *)
(*     somebody wrote, and never goes back to an older one;                *)
(*   - a load balancer is torn down only when the incarnation of the       *)
(*     ingress it was configured for is gone.                              *)
(*                                                                         *)
(* Versions are drawn from one clock that ticks at every write.  An        *)
(* incarnation of an ingress is named by the version that created it.      *)
(***************************************************************************)
EXTENDS Naturals

CONSTANTS
    Ingresses       \* the ingress objects' names

VARIABLES
    clock,          \* the last version written by anybody
    obj,            \* obj[i]: the ingress object i, Absent when there is none
    have            \* have[i]: the version i's load balancer carries, 0 = no LB

vars == <<clock, obj, have>>

Absent == [uid |-> 0, gen |-> 0]

TypeOK ==
    /\ clock \in Nat
    /\ obj \in [Ingresses -> [uid : Nat, gen : Nat]]
    /\ have \in [Ingresses -> Nat]

Init ==
    /\ clock = 0
    /\ obj = [i \in Ingresses |-> Absent]
    /\ have = [i \in Ingresses |-> 0]

\* A user creates, changes or deletes an ingress.
Write(i) ==
    /\ clock' = clock + 1
    /\ \E o \in {Absent, [uid |-> clock', gen |-> clock']}
                  \cup {[obj[i] EXCEPT !.gen = clock']} :
           obj' = [obj EXCEPT ![i] = o]
    /\ UNCHANGED have

\* Something outside the ingress changes (a node, a secret, a service).
Tick == clock' = clock + 1 /\ UNCHANGED <<obj, have>>

\* The load balancer is brought to a version at least as new as its own.
Provision(i) ==
    /\ \E v \in 1..clock : v >= have[i] /\ have' = [have EXCEPT ![i] = v]
    /\ UNCHANGED <<clock, obj>>

\* The load balancer goes away: nobody wants what it was configured for.
TearDown(i) ==
    /\ obj[i] = Absent \/ have[i] < obj[i].uid
    /\ have' = [have EXCEPT ![i] = 0]
    /\ UNCHANGED <<clock, obj>>

Next == Tick \/ \E i \in Ingresses : Write(i) \/ Provision(i) \/ TearDown(i)

Spec == Init /\ [][Next]_vars
=============================================================================
