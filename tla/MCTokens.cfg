CONSTANTS
    Tab = {t1, t2}
    Call = {c1, c2}
    SignIn = SignIn
    None = None
    MaxPair = 2
    MaxCalls = 2
    MaxLost = 1
SPECIFICATION Spec
SYMMETRY Symmetry
INVARIANTS
    TypeOK
    OneLivePerLogin
    WaitersServed
PROPERTIES
    LoginSpec
    SharedRefresh
CHECK_DEADLOCK FALSE
