SPECIFICATION Spec
CONSTANTS
    NoHost = NoHost
    None = None
    h1 = h1
    Hosts = {h1, h2}
    Services = {s1, s2}
    Certificates = {c1}
    Addresses = {a1}
    MaxRules = 2
    Characters <- SmallAlphabet
    Predicates = {p, q}
    Star = Star
    Slash = Slash
    Letter = Letter
    Wildcard = Wildcard
    Unnamed = {Wildcard}
    p = p
    q = q
    MaxText = 5
    Flexible = Flexible
    Capitalized = Capitalized
    FixedShapes = {Fixed}
    Absent = Absent
    Garbage = Garbage
    Refused = Refused
    DefaultLBShape = Flexible
    FlexShapeAbsoluteMinMbps = 2
    FlexShapeAbsoluteMaxMbps = 5
    DefaultFlexShapeMinMbps = 2
    DefaultFlexShapeMaxMbps = 2
    MaxMbps = 7
    n1 = n1
    n2 = n2
    ip1 = ip1
    ip2 = ip2
    Unset = Unset
    Invalid = Invalid
    Ingresses <- SmallIngress
    Paths <- SmallPath
    SomeAnnotations <- SmallAnnotations
    Clusters <- SmallCluster
    Requests <- Requested
    Asking <- SmallAsking
    Plain <- PlainCase
INVARIANT HostConditionAsTested
