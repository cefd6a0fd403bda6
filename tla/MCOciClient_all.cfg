SPECIFICATION FairSpec
CONSTANTS
    home = home
    s1 = s1
    s2 = s2
    elsewhere = elsewhere
    own = own
    other = other
    None = None
    Subnets = {home, s1, elsewhere}
    VcnOf <- Networks
    Public = {s1, elsewhere}
    Home = home
    Bucket = 3
    PerTick = 1
    PollTicks = 2
    MaxPages = 1
    MaxFaults = 2
INVARIANTS TypeOK RunningIsAwaited FoundIsOwn
PROPERTIES WaitNeverLimited WaitEnds
