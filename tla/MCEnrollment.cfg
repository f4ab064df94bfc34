CONSTANTS
    Computer = {pub, ten}
    Public = {pub}
    Uuid = {u1, u2, u3}
    None = None
    One = u1
SPECIFICATION Spec
SYMMETRY Symmetry
INVARIANTS
    TypeOK
    OneRowPerToken
PROPERTIES
    ClaimClosesDoor
    OnlyOwnAgentRevives
CHECK_DEADLOCK FALSE
