\* The documented number of attempts, with the defaults of NewBoxRetryStrategy.
SPECIFICATION Spec
CONSTANTS
    OwnHeaders = {"none"}
    Origins = {"box"}
    Statuses = {200, 503}
    MaxAttempts = 5
    MaxRetriesOnException = 2
INVARIANT AtMostMaxAttempts
CHECK_DEADLOCK FALSE
