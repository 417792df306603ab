CONSTANTS
    Calls = {c1, c2}
    Endpoints <- MCEndpoints
    None = None
SPECIFICATION Spec
CHECK_DEADLOCK FALSE
INVARIANTS
    AloneParsesItsOwn
    NothingIsLeft
PROPERTIES
    CallsEnd
    CallsAdvance
