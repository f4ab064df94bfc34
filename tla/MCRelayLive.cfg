CONSTANTS
    Conn = {c1, c2, c3}
    Ours = Ours
    Theirs = Theirs
    Machine = {Ours}
    OursPlain = OursPlain
    OursUpper = OursUpper
    TheirsPlain = TheirsPlain
    TheirsUpper = TheirsUpper
    Spelling = {OursPlain}
    IdOf <- WhoseId
    None = None
    MaxRelays = 1
    Alice = c1
    Bob = c2
SPECIFICATION FairSpec
PROPERTIES
    HandshakeOfPairStarts
CHECK_DEADLOCK FALSE
