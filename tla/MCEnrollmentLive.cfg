CONSTANTS
    Computer = {pub, ten}
    Public = {pub}
    Uuid = {u1, u2}
    None = None
    One = u1
SPECIFICATION FairSpec
PROPERTIES
    DeadAgentsGoOffline
    UnclaimedRowsGo
CHECK_DEADLOCK FALSE
