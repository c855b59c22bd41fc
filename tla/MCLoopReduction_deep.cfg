CONSTANTS
    Graphs <- MCGraphs
    Size = 4
    Fanout = 2
    DeepBackEdges = TRUE
SPECIFICATION SpecReduction
INVARIANT CurrentIsQuotient
