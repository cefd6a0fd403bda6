-------------------------------- MODULE Shape --------------------------------
(***************************************************************************)
(* The shape of a load balancer, as the annotations of an ingress ask for  *)
(* it: fixed, or flexible with a range of bandwidths.                      *)
(***************************************************************************)
EXTENDS Integers

CONSTANTS
    FlexShapeAbsoluteMinMbps, FlexShapeAbsoluteMaxMbps,
    DefaultLBShape, DefaultFlexShapeMinMbps, DefaultFlexShapeMaxMbps,
    Flexible,       \* "flexible"
    Capitalized,    \* another spelling of it
    FixedShapes,    \* "100Mbps" and the like
    Absent,         \* no annotation, no bandwidth
    Garbage,        \* an annotation that is not an integer
    Refused         \* the result of an error

ASSUME ShapeAssumption ==
    /\ FlexShapeAbsoluteMinMbps \in Int /\ FlexShapeAbsoluteMaxMbps \in Int
    /\ FlexShapeAbsoluteMinMbps <= FlexShapeAbsoluteMaxMbps
    /\ DefaultFlexShapeMinMbps \in Int /\ DefaultFlexShapeMaxMbps \in Int
    /\ DefaultLBShape \in {Flexible, Capitalized} \cup FixedShapes
    /\ {Flexible, Capitalized} \cap FixedShapes = {} /\ Absent \notin FixedShapes
    /\ Absent \notin Int /\ Garbage \notin Int /\ Absent # Garbage
    /\ Flexible # Absent /\ Capitalized # Absent

\* The three annotations.
Annotations ==
    [shape : {Absent, Flexible, Capitalized} \cup FixedShapes,
     min : Int \cup {Absent, Garbage}, max : Int \cup {Absent, Garbage}]
ShapeSpec(name, min, max) == [name |-> name, min |-> min, max |-> max]

AskedShape(a) == IF a.shape = Absent THEN DefaultLBShape ELSE a.shape
AsksFlexible(a) == AskedShape(a) \in {Flexible, Capitalized}

\* The bandwidths asked for: both annotations or the defaults.
Bandwidths(a) ==
    IF a.min = Absent /\ a.max = Absent
    THEN <<DefaultFlexShapeMinMbps, DefaultFlexShapeMaxMbps>>
    ELSE <<a.min, a.max>>

\* A bandwidth moved into the range OCI offers.
Clamp(n) ==
    IF n < FlexShapeAbsoluteMinMbps THEN FlexShapeAbsoluteMinMbps
    ELSE IF n > FlexShapeAbsoluteMaxMbps THEN FlexShapeAbsoluteMaxMbps
    ELSE n

\* The upper bound for a lower one, both within the range.  (Faulty variant:
\* the two are not compared.)
UpperUnordered(min, max) == max
Upper(min, max) == IF max < min THEN min ELSE max

getLBShape(a) ==
    LET b == Bandwidths(a) IN
    IF ~AsksFlexible(a) THEN ShapeSpec(AskedShape(a), Absent, Absent)
    ELSE IF b[1] \notin Int \/ b[2] \notin Int THEN Refused
    ELSE ShapeSpec(Flexible, Clamp(b[1]), Upper(Clamp(b[1]), Clamp(b[2])))

\* What CreateLoadBalancer and updateLoadbalancerShape make of it.
Shaped(s) ==
    IF s.name = Flexible THEN s ELSE ShapeSpec(s.name, Absent, Absent)

\* hasLoadbalancerShapeChanged
hasLoadbalancerShapeChanged(s, lb) ==
    \/ lb.name # s.name
    \/ /\ lb.min # Absent /\ s.min # Absent /\ s.max # Absent
       /\ lb.min # s.min \/ lb.max # s.max

\* The bandwidths of a flexible shape are within what OCI offers, the lower
\* not above the upper, and exactly those asked for if these are legal
\* already; once the load balancer has this shape, nothing is to be changed
\* (sharable_helpers.go:22-91, load_balancer_util.go:521-540).
ShapeInBounds(a) ==
    LET s == getLBShape(a)
        b == Bandwidths(a)
        Legal(min, max) ==
            /\ FlexShapeAbsoluteMinMbps <= min /\ min <= max
            /\ max <= FlexShapeAbsoluteMaxMbps
    IN  s # Refused =>
            /\ s.name = Flexible <=> AsksFlexible(a)
            /\ s.name = Flexible =>
                  /\ Legal(s.min, s.max)
                  /\ Legal(b[1], b[2]) => s.min = b[1] /\ s.max = b[2]
            /\ ~hasLoadbalancerShapeChanged(s, Shaped(s))
=============================================================================
