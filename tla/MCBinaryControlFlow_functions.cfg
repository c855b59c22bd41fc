CONSTANTS
    Programs <- MCPrograms
    Length = 4
    Entries = {1, 2}
    Used = {"plain", "call", "skip", "branch", "jump", "ret"}
    ChainLength = 6
    LoneEntryJumps = FALSE
SPECIFICATION SpecBinary
INVARIANTS
    InductiveInvariant
    BinaryInvariant
    ControlFlowPreserved
    CoversReachableCode
    NoOverlap
    NoDanglingEdges
    EntryKept
    ExitsMarked
    OneCallPerBlock
    ShowsControlFlow
    CalleesIntact
    FitForLoopAnalysis
    NothingAborts
