SPECIFICATION Spec
CONSTANTS
    r1 = r1  r2 = r2
    t1 = t1  t2 = t2  t3 = t3
    north = north  south = south
    ana = ana
    idA = idA  idB = idB  idC = idC
    None = None
    NoCvss = NoCvss
    Replicas = {r1, r2}
    Threads = {t1, t2, t3}
    Home <- MCHome
    Principals <- MCPrincipals
    Findings <- MCFindings
    InitialRows <- MCInitialRows
    Arrivals <- MCArrivals
    Selections <- MCSelections
    ListLimit = 2
    MaxRows = 4
    MaxWorkflows = 2
CHECK_DEADLOCK FALSE
INVARIANTS
    TypeOK
    WorkflowsAreGated
    AcknowledgedIsRecorded
PROPERTIES
    ImplementsAuditedWork
