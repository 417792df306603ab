CONSTANTS
    CollectionTypes = {"teams", "clarifications"}
    Ids = {"a", "b"}
    Tokens = {}
    Revs <- MCRevs
    NullRev = 0
    None = None
    Lines <- MCLines
    OptionSet <- MCOptions
    MaxLines = 20
    Inputs <- MCInputs
    Packages <- MCPackages
SPECIFICATION PackageSpec
CHECK_DEADLOCK FALSE
INVARIANTS
    StopsForAReason
    LineNumbersAreTrue
    PackageIsItsFiles
