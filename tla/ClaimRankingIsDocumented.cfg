CONSTANTS
    Teams = {1, 2, 3}
    Problems = {"p", "q"}
    Submissions = {1, 2, 3}
    Judgements = {1, 2, 3}
    JudgementTypes = {"AC", "WA", "CE", "RTE"}
    Boards <- MCBoards
    MsPerMinute = 2
    None = None
SPECIFICATION Spec
CHECK_DEADLOCK FALSE
INVARIANT RankingIsDocumented
