CONSTANTS
    NoNode = NoNode
    BinSize = 4
    SrcSize = 4
    Lines = 1
    Fixed = FALSE
    Inputs <- MCInputs

SPECIFICATION Spec
INVARIANT SiblingsUnmistakable
