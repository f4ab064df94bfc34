CONSTANTS
    Session = {s1}
    Upload = {u1, u2}
    Deletion = {d1}
    None = None
SPECIFICATION Spec
PROPERTIES
    NoOverwrite
CHECK_DEADLOCK FALSE
