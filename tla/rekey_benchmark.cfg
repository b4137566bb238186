SPECIFICATION Spec
CONSTANTS
    Units = 1
    MaxInterrupts = 1
    Plans <- SmallPlans
    Repetitions = 2
INVARIANTS
    ResultsAreWhole
    ResultsAreMatched
    EvidenceIsKept
PROPERTIES
    SamplesDoNotOverlap
    BenchmarkEnds
\* The benchmark exits.
CHECK_DEADLOCK FALSE
