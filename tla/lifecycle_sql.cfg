SPECIFICATION Spec
CONSTANTS
    t1 = t1  t2 = t2
    north = north  south = south
    ana = ana  rev = rev
    idA = idA  idB = idB  idC = idC
    None = None
    Threads = {t1, t2}
    Tenants = {north, south}
    Users = {ana, rev}
    Roles <- MCRoles
    Principals <- MCPrincipals
    Findings <- MCFindings
    Payloads <- MCSqlPayloads
    Selectors <- MCAllSelectors
    InitialRows <- MCServedRows
    DemoMode = FALSE
    ListLimit = 1
    MaxRows = 3
    MaxAudit = 2
CHECK_DEADLOCK FALSE
INVARIANT NothingTakesEffect
