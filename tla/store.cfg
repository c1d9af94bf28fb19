SPECIFICATION Spec
CONSTANTS
    p1 = p1  p2 = p2
    t1 = t1  t2 = t2  t3 = t3
    c1 = c1  c2 = c2
    idA = idA  idB = idB  idC = idC
    north = north  south = south
    None = None
    Processes = {p1, p2}
    Demo = {p1}
    Threads = {t1, t2, t3}
    Home <- MCHome
    Connections = {c1, c2}
    Owner <- MCOwner
    Findings <- MCFindings
    MaxRequests = 2
CHECK_DEADLOCK FALSE
INVARIANTS
    TypeOK
    ConnectionsAreScoped
    AcknowledgedIsStored
    BranchesOutliveProcesses
    NothingWithoutSchema
PROPERTIES
    ImplementsAuditedWork
