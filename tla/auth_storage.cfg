\* The four authentication types, three goroutines, every fault.
SPECIFICATION WaitSpec
CONSTANTS
    Callers = {g1, g2, g3}
    Methods = {"ccg", "jwt", "oauth", "developer"}
    Calls = {"header", "refresh", "revoke", "login"}
    Faults = {"reject", "lost", "null", "sign"}
    MaxTokens = 3
    MaxResends = 1
SYMMETRY Symmetry
INVARIANTS TypeOK RefreshReturnsFresh WaitersShareRefresh RevokedStaysOut NoReuse StoredGrantUsable
PROPERTY TokenNeverGoesBack
CHECK_DEADLOCK FALSE
