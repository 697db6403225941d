\* Two goroutines fetch, refresh, revoke, log in, over one object of each type.
SPECIFICATION FairFetchSpec
CONSTANTS
    Callers = {g1, g2}
    Methods = {"ccg", "jwt", "oauth", "developer"}
    Calls = {"header", "refresh", "revoke", "login"}
    Faults = {"reject", "null"}
    MaxTokens = 3
    MaxResends = 0
    MaxAttempts = 3
    MaxExpiries = 2
    MaxOutages = 1
INVARIANTS FetchTypeOK NoRejectedResent GivesUpOnlyOnDeadTokens
PROPERTIES EveryFetchReturns AttemptsRunOut
CHECK_DEADLOCK FALSE
