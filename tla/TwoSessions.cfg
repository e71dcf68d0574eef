SPECIFICATION Spec
CONSTANTS
    Sessions = {s1, s2}
    None = None
INVARIANT AtMostOneActive
CHECK_DEADLOCK FALSE
