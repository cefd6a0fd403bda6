SPECIFICATION FairSpec
CONSTANTS
    l1 = l1
    l2 = l2
    a1 = a1
    a2 = a2
    None = None
    Hosts = {h1, h2}
    Secrets = {s1, s2}
    Contents <- All
    MaxEdits = 2
    MaxFaults = 1
INVARIANT SuccessMeansShown
PROPERTY EventuallyShown
