SPECIFICATION FairSpec
CONSTANTS
    a = a
    b = b
    None = None
    Ingresses = {a}
    SecretUsers = {a}
    MaxEdits = 3
    MaxFaults = 1
INVARIANTS TypeOK Inv ServedOrAccounted GoneOrAccounted
PROPERTIES Promised EventuallyServed EventuallyGone
CHECK_DEADLOCK FALSE
