CONSTANTS
    Sizes = {4}
    LostSizes = {3}
    MatchSizes = {2, 3}
    Lost = 1
    NoPlace = 0
    Jobs <- MCJobs
SPECIFICATION Spec
INVARIANTS
    NestRespected
    OnlyIsomorphicNests
    CrashesOnlyIf
    PreciseIsAlike
