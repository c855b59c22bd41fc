CONSTANTS
    Graphs <- MCGraphs
    Size = 5
    Fanout = 2
    DeepBackEdges = FALSE
SPECIFICATION SpecReduction
INVARIANTS
    TypeOKReduction
    BackEdgesFound
    RepresentativesOutermost
    LoopNestCorrect
    ExitEdgesLeave
    RejectsIrreducible
    CurrentIsQuotient
    RegionsAreLevels
    HierarchyIsLoopTree
PROPERTY AnalysisProgresses
