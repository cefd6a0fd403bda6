SPECIFICATION Spec
CONSTANTS
    h1 = h1
    h2 = h2
    s1 = s1
    s2 = s2
    c1 = c1
    c2 = c2
    a1 = a1
    Addresses = {a1}
    NoHost = NoHost
    None = None
    Hosts = {h1, h2}
    Services = {s1, s2}
    Certificates = {c1, c2}
    Sanitized <- Distinct
    Ingresses <- Securing
    MaxEdits = 1
    MaxFaults = 0
INVARIANT RedirectionForced
