CONSTANTS
    Programs <- MCPrograms
    Length = 3
    Entries = {1}
    Used = {"plain", "branch", "jump", "skip", "ret"}
    ChainLength = 0
    LoneEntryJumps = TRUE
SPECIFICATION Spec
INVARIANT NoAssertionFails
