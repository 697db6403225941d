\* Every call returns, and every refresh is atomic: all methods and calls, two
\* goroutines, fair scheduling.
SPECIFICATION FairSpec
CONSTANTS
    Callers = {g1, g2}
    Methods = {"ccg", "jwt", "oauth", "developer"}
    Calls = {"retrieve", "header", "refresh", "downscope", "revoke", "login"}
    Faults = {"reject", "lost", "null", "sign"}
    MaxTokens = 2
    MaxResends = 1
PROPERTIES EveryCallReturns RefreshIsAtomic CallsRunOut
CHECK_DEADLOCK FALSE
