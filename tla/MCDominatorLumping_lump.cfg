CONSTANTS
    Levels <- MCLevels
    Size = 5
    Edges = 6
SPECIFICATION Spec
INVARIANTS
    LumpedSoundly
    LumpingComplete
