SPECIFICATION Spec
CONSTANTS
    a = a
    b = b
    None = None
    Ingresses <- TwoIngresses
    SecretUsers <- OneUser
    MaxEdits = 3
    MaxFaults = 0
INVARIANT ServedOrAccounted
CHECK_DEADLOCK FALSE
