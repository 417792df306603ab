CONSTANTS
    RelTexts <- MCRelTexts
    MinuteCounts <- MCMinuteCounts
    AbsTexts <- MCAbsTexts
    Years = {1969, 1970, 1971}
    MaxDays = 18
    None = None
SPECIFICATION Spec
CHECK_DEADLOCK FALSE
INVARIANT RoundTripIsFaithful
