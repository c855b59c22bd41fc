CONSTANTS
    NoNode = NoNode
    BinSize = 4
    SrcSize = 4
    Lines = 2
    Fixed = TRUE
    Inputs <- MCInputs

SPECIFICATION Spec
INVARIANT HomomorphismKept
PROPERTY RoundsProgress
