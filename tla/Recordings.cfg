CONSTANTS
    Session = {s1}
    Upload = {u1, u2, u3}
    Deletion = {d1, d2}
    None = None
SPECIFICATION FairSpec
INVARIANTS
    TypeOK
PROPERTIES
    StaysPlayable
    OverwriteNeedsDeletion
    SessionsEnd
CHECK_DEADLOCK FALSE
