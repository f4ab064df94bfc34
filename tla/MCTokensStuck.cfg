CONSTANTS
    Tab = {t1}
    Call = {c1}
    SignIn = SignIn
    None = None
    MaxPair = 2
    MaxCalls = 2
    MaxLost = 1
SPECIFICATION Spec
PROPERTIES
    ServerAskedFirst
CHECK_DEADLOCK FALSE
