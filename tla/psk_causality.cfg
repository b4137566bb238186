SPECIFICATION Spec
CONSTANTS
    MaxTickets = 2
    MaxRuns = 2
INVARIANTS
    NeverFromTheFuture
    Phase1Preserved
    Phase2IsTheChilds
    InputsRestored
    CausalityHolds
    DerivedAreGenuine
\* The capture and the tests of it stop.
CHECK_DEADLOCK FALSE
