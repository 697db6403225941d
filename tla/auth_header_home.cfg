\* Calls with an Authorization header of their own, redirected.
SPECIFICATION Spec
CONSTANTS
    OwnHeaders = {"none", "options", "session"}
    Origins = {"box", "cdn"}
    Statuses = {200, 302}
    MaxAttempts = 1
    MaxRetriesOnException = 0
INVARIANT AuthStaysHome
CHECK_DEADLOCK FALSE
