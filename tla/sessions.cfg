\* Three sessions, one call with any number of attempts, one spelling.
SPECIFICATION Spec
CONSTANTS
    Names = {"As-User", "Authorization", "Content-Type"}
    Spellings = {"canonical"}
    SdkSpelling = "canonical"
    Values = {"u1", ""}
    Interceptors = {"i1", "i2"}
    Fields = {"BaseURLs", "ProxyConfig", "NetworkClient"}
    Calls = {r1}
    MaxSessions = 3
INVARIANTS LooksAsBuilt PrecedenceKept
CHECK_DEADLOCK FALSE
