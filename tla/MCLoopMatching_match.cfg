CONSTANTS
    Root = 0
    NoLoop = NoLoop
    Lines = 2
    PairsOfTrees <- MCPairs

SPECIFICATION Spec
INVARIANTS EachLoopOnce TraceableIsMatched
