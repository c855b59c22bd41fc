CONSTANTS
    Sizes = {3}
    LostSizes = {}
    MatchSizes = {2}
    Lost = 0
    NoPlace = 0
    Jobs <- MCJobs
SPECIFICATION Spec
INVARIANT AnyWillDo
