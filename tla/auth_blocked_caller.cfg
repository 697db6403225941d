\* Two goroutines ask for the header while the storage is empty.
SPECIFICATION WaitSpec
CONSTANTS
    Callers = {g1, g2}
    Methods = {"ccg", "jwt"}
    Calls = {"header"}
    Faults = {}
    MaxTokens = 3
    MaxResends = 0
INVARIANT BlockedShareRefresh
CHECK_DEADLOCK FALSE
