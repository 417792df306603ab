CONSTANTS
    CollectionTypes = {"languages", "teams", "runs"}
    Ids = {"a", "b"}
    Tokens = {}
    Revs <- MCRevs
    None = None
    Endpoints <- MCEndpoints
    Answers <- MCAnswers
    MaxDiagnostics = 2
    RestVersions = {"kAuto", "2023-06"}
SPECIFICATION Spec
CHECK_DEADLOCK FALSE
INVARIANTS
    StopsAtFirstFatal
    ObjectsAreTheAnswers
    FailuresAreReported
    ObjectsAreCounted
