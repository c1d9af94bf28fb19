SPECIFICATION Spec
CONSTANTS
    idA = idA  idB = idB
    NoCvss = NoCvss
    Findings <- MCFindings
    MaxBatch = 2
CHECK_DEADLOCK FALSE
INVARIANTS
    TypeOK
    PriorityMonotone
    RescoreKeepsPriority
    GraphAgreesWithEngine
    VerdictIsOwn
