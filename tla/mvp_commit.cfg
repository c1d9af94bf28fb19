SPECIFICATION Spec
CONSTANTS
    t1 = t1  t2 = t2
    north = north  south = south
    idA = idA  idB = idB
    app = app  web = web
    cwe89 = cwe89  cwe798 = cwe798
    Main = Main
    None = None
    Threads = {t1}
    Tenants = {north,south}
    Files = {app, web}
    Findings <- MCFindings
    Source <- MCSource
    MaxRequests = 4
CHECK_DEADLOCK FALSE
INVARIANTS
    CommittedOnBranch
