CONSTANTS
    CollectionTypes = {"clarifications"}
    Ids = {"a", "b"}
    Tokens = {"t"}
    Revs <- MCRevs
    NullRev = 0
    None = None
    Lines <- MCLines
    OptionSet <- MCOptions
    MaxLines = 3
SPECIFICATION Spec
CHECK_DEADLOCK FALSE
INVARIANT DecodedUnderFinalVersion
