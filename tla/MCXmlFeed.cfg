CONSTANTS
    CollectionTypes = {"teams", "clarifications"}
    Ids = {"a", "b"}
    Tokens = {}
    Revs <- MCRevs
    None = None
    Documents <- MCDocuments
    XmlVersions = {"kAuto", "2026-01"}
SPECIFICATION Spec
CHECK_DEADLOCK FALSE
INVARIANTS
    LastWordStands
    EveryWordIsAccountedFor
