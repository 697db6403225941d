\* RevokeToken beside a refresh.
SPECIFICATION Spec
CONSTANTS
    Callers = {g1, g2}
    Methods = {"ccg", "jwt"}
    Calls = {"refresh", "revoke"}
    Faults = {}
    MaxTokens = 3
    MaxResends = 0
PROPERTY ClearsWhatWasRevoked
CHECK_DEADLOCK FALSE
