SPECIFICATION FairSpec
CONSTANTS
    Settings <- MCSettings
    Adapters <- MCAdapters
INVARIANTS
    TypeOK
    NoProbeOutlivesCall
    ErrorIsFirstInOrder
    StrictSwallowsNothing
PROPERTIES
    EvaluationEnds
    ImplementsJoin
\* An evaluation that is over stops.
CHECK_DEADLOCK FALSE
