\* Two spellings of one header name.
SPECIFICATION Spec
CONSTANTS
    Names = {"As-User"}
    Spellings = {"canonical", "lower"}
    SdkSpelling = "canonical"
    Values = {"u1", "u2"}
    Interceptors = {}
    Fields = {"ProxyConfig", "NetworkClient"}
    Calls = {r1}
    MaxSessions = 2
INVARIANT PrecedenceKept
CHECK_DEADLOCK FALSE
