CONSTANTS
    CollectionTypes = {"teams"}
    Keys <- MCKeys
    Objects <- MCObjects
    LogEvents <- MCLogEvents
    Diagnostics <- MCDiagnostics
    None = None
    MaxCount = 2
    MaxLog = 2
    MaxHeard = 1
    MaxElements = 2
SPECIFICATION Spec
INVARIANTS ObserverAgrees CheckpointKeepsItsLog
PROPERTY ImplementsTable
