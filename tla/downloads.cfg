\* Fetch, downloads and their URLs; two origins, every class of status.
SPECIFICATION DownloadSpec
CONSTANTS
    OwnHeaders = {"none", "options"}
    Origins = {"box", "cdn"}
    Statuses = {200, 202, 302, 401, 404, 503}
    MaxAttempts = 3
    MaxRetriesOnException = 1
INVARIANTS DownloadTypeOK AttemptBound GivesUpOnlyWhenExhausted NothingLeaks OnlyCallerOrDeadlineCutsOff TokenStaysHome
INVARIANTS OnlyNotReadyLeaks StreamIsContent LocationNotVisited
PROPERTIES CancelReturns DownloadReturns OnlyRedirectsProlong
CHECK_DEADLOCK FALSE
