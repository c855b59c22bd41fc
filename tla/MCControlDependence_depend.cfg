CONSTANTS
    Trees <- MCTrees
    TreeSize = 5
    ControlFlows <- MCControlFlows
    NoNode = NoNode
    Size = 3
SPECIFICATION SpecDependence
INVARIANTS
    AnswersNearest
    DominanceTested
    DependenceCorrect
    FailsIfEndless
PROPERTY QueriesAnswered
