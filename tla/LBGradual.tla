----------------------------- MODULE LBGradual ------------------------------
(***************************************************************************)
(* What a user of a load balancer may rely on while it is being updated:   *)
(* an update has one goal, and it goes there one sub-resource at a time,   *)
(* straight and for good, until it is there or is given up.  Nothing else  *)
(* happens to the load balancer.  LBUpdate implements it.                  *)
(***************************************************************************)
CONSTANTS
    Goals,          \* load balancers that may be asked for
    Forms(_, _),    \* the forms in which x, as in a goal, may be there first
    Starts(_),      \* what is created for a goal
    Nothing         \* no load balancer, no goal

VARIABLES
    lb,             \* the load balancer
    goal            \* of the update at work

Contents(l, x) == IF x \in DOMAIN l THEN {l[x]} ELSE {}

Init == lb = Nothing /\ goal = Nothing

Create(g) == lb = Nothing /\ lb' = Starts(g) /\ goal' \in {g, Nothing}
Begin(g) == lb # Nothing /\ goal' = g /\ UNCHANGED lb
GiveUp == goal' = Nothing /\ UNCHANGED lb

\* x becomes what it shall be, unless it is already.
Move(x) ==
    /\ Contents(lb, x) # Contents(goal, x)
    /\ \/ Contents(lb', x) = Contents(goal, x)
       \/ x \in DOMAIN goal /\ \E f \in Forms(x, goal) : Contents(lb', x) = {f}
    /\ \A y \in (DOMAIN lb \cup DOMAIN lb') \ {x} : Contents(lb', y) = Contents(lb, y)
    /\ goal' \in {goal, Nothing}

Next ==
    \/ goal = Nothing /\ \E g \in Goals : Create(g) \/ Begin(g)
    \/ goal # Nothing /\ (GiveUp \/ \E x \in DOMAIN lb \cup DOMAIN goal : Move(x))

Spec == Init /\ [][Next]_<<lb, goal>>
=============================================================================
