CONSTANTS
    CollectionTypes = {"clarifications"}
    Ids = {"a", "b"}
    Tokens = {}
    Revs <- MCRevs
    NullRev = 0
    None = None
    Lines <- MCLines
    OptionSet <- MCOptions
    MaxFed = 4
    MaxLines = 8
SPECIFICATION ClientSpec
CHECK_DEADLOCK FALSE
INVARIANTS
    SessionOutlivesRollback
    ExplicitVersionRestored
    RefedLogRepeats
