CONSTANTS
    Programs <- MCPrograms
    Length = 4
    Entries = {1}
    Used = {"plain", "call", "skip", "branch", "jump", "ret"}
    ChainLength = 0
    LoneEntryJumps = FALSE
SPECIFICATION Spec
PROPERTIES
    ImplementsInsnGraph
    Terminates
