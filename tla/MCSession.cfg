CONSTANTS
    CollectionTypes = {"clarifications"}
    Ids = {"a", "b"}
    Tokens = {"t"}
    Revs <- MCRevs
    NullRev = 0
    None = None
    Lines <- MCLines
    OptionSet <- MCOptions
    MaxLines = 4
SPECIFICATION Spec
CHECK_DEADLOCK FALSE
INVARIANTS
    TypeOK
    ErrorRunIsReported
    ReturnTellsTheRun
    EventsAccountedFor
    LogInFeedOrder
    VersionFromFirstEvidence
    ObjectsFollowLog
    EndOfUpdatesIsKept
    DiagnosticsAreFirstHeard
    ObserverAgrees
PROPERTY ImplementsAtomicFeed
