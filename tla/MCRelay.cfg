CONSTANTS
    Conn = {c1, c2, c3}
    Ours = Ours
    Theirs = Theirs
    Machine = {Ours, Theirs}
    OursPlain = OursPlain
    OursUpper = OursUpper
    TheirsPlain = TheirsPlain
    TheirsUpper = TheirsUpper
    Spelling = {OursPlain, OursUpper, TheirsPlain, TheirsUpper}
    IdOf <- WhoseId
    None = None
    MaxRelays = 2
    Alice = c1
    Bob = c2
SPECIFICATION Spec
SYMMETRY Symmetry
INVARIANTS
    TypeOK
    RoomsConsistent
    NewestAgentSeated
    Isolation
    NothingSkipped
    ReadyOnItsWay
PROPERTIES
    RoomSpec
CHECK_DEADLOCK FALSE
