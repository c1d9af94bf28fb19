-------------------------- MODULE EngineWorkflows ---------------------------
(***************************************************************************)
(* The AI engine behind /api/v1/engine/workflows: main.py's three handlers *)
(* and SecurityRemediationEngine, whose workflows live in a dict of the    *)
(* process, in the deployment the Kubernetes manifests describe: several   *)
(* API processes over one database (the SQL adapters, outside demo mode)   *)
(* hold the findings and the audit trail; each process has its own dict,   *)
(* which is empty again after a restart.                                   *)
(***************************************************************************)
EXTENDS Pipeline, FiniteSets, Functions

CONSTANTS
    Replicas,      \* API processes
    Threads,       \* worker threads
    Home,          \* Home[t]: the process thread t belongs to
    Principals,    \* callers, a subject with a tenant
    Findings,      \* findings the repository may hold
    InitialRows,   \* its rows at the start
    Arrivals,      \* findings that may be added to it while requests run
    Selections,    \* the finding_ids a create request may name; {} means all
    None,
    ListLimit,     \* findings a SQL list returns at most
    MaxRows,       \* bound on the repository
    MaxWorkflows   \* bound on workflow ids handed out

ASSUME EngineAssumption ==
    /\ Home \in [Threads -> Replicas]
    /\ \A f \in Findings : IsFinding(f)
    /\ Arrivals \subseteq Findings
    /\ InitialRows \in Seq(Findings)
    /\ \A by \in Principals : /\ [op |-> "list", by |-> by] # None
                             /\ \A ids \in Selections : [op |-> "create", by |-> by, ids |-> ids] # None
    /\ ListLimit \in Nat \ {0}
    /\ MaxRows \in Nat /\ MaxWorkflows \in Nat

VARIABLES
    rows,    \* the finding repository
    store,   \* store[r]: the engine's dict of process r, as a set of workflows
    trail,   \* ENGINE_WORKFLOW_CREATED events: ids of workflows
    minted,  \* workflow ids handed out so far
    pc,      \* pc[t]: what thread t does next
    req,     \* req[t]: the request it serves
    held,    \* held[t]: the findings it selected, the workflow it made, or the dict it walks
    acked    \* acked[r]: ids of the workflows process r has acknowledged (202) since it started

vars == <<rows, store, trail, minted, pc, req, held, acked>>

Engine(t) == store[Home[t]]

GoTo(t, step) == pc' = [pc EXCEPT ![t] = step]

\* The response of thread t is on its way; it is free for another request.
Answer(t) ==
    /\ GoTo(t, "idle")
    /\ req' = [req EXCEPT ![t] = None]
    /\ held' = [held EXCEPT ![t] = None]

Receive(t, r, step) ==
    /\ pc[t] = "idle"
    /\ GoTo(t, step)
    /\ req' = [req EXCEPT ![t] = r]
    /\ UNCHANGED <<rows, store, trail, minted, held, acked>>

\* pnc.vulnerabilities gets a row from outside these handlers.  Its key is (id,
\* discovered_at), so a finding may arrive again under an id that is there.
ImportFinding ==
    /\ Len(rows) < MaxRows
    /\ \E f \in Arrivals : rows' = Append(rows, f)
    /\ UNCHANGED <<store, trail, minted, pc, req, held, acked>>

(***************************************************************************)
(* POST /engine/workflows                                                  *)
(***************************************************************************)
Creating == {t \in Threads : pc[t] \in {"read", "create"}}

ReceiveCreate(t) ==
    /\ minted + Cardinality(Creating) < MaxWorkflows
    /\ \E by \in Principals, ids \in Selections :
          Receive(t, [op |-> "create", by |-> by, ids |-> ids], "read")

Newest(places) == {k \in places : Cardinality({j \in places : j > k}) < ListLimit}

\* Mutant: the rows of every tenant are offered for selection.
RowsOfAnyTenant(tenant) == Newest(DOMAIN rows)

\* tenant_rows: the places of the tenant's newest rows.
RowsOf(tenant) == Newest({k \in DOMAIN rows : rows[k].tenant = tenant})

\* missing_ids: requested, but carried by no row of the tenant.
MissingIds(t) ==
    {id \in req[t].ids : \A k \in RowsOf(req[t].by.tenant) : rows[k].id # id}

\* The rows at these places, in any order: created_at is the time the writer's
\* transaction began, which rows may share.
Orders(places) ==
    {[i \in DOMAIN p |-> rows[p[i]]] : p \in Bijection(1..Cardinality(places), places)}

SelectFindings(t) ==
    /\ pc[t] = "read"
    /\ MissingIds(t) = {}
    /\ \E batch \in Orders({k \in RowsOf(req[t].by.tenant) :
                               req[t].ids = {} \/ rows[k].id \in req[t].ids}) :
          held' = [held EXCEPT ![t] = [selected |-> batch]]
    /\ GoTo(t, "create")
    /\ UNCHANGED <<rows, store, trail, minted, req, acked>>

\* One missing id refuses the request.
RejectMissing(t) ==
    /\ pc[t] = "read"
    /\ MissingIds(t) # {}
    /\ Answer(t)
    /\ UNCHANGED <<rows, store, trail, minted, acked>>

\* Mutant: the workflow is stored under the last id handed out, not a new one.
CreateUnderOldId(t) ==
    /\ pc[t] = "create"
    /\ LET w == [id |-> minted, tenant |-> req[t].by.tenant, asked |-> req[t].ids,
                 findings |-> held[t].selected, status |-> EngineStatus(held[t].selected)]
       IN  /\ store' = [store EXCEPT ![Home[t]] = {v \in @ : v.id # w.id} \cup {w}]
           /\ held' = [held EXCEPT ![t] = [made |-> w]]
    /\ minted' = IF minted = 0 THEN 1 ELSE minted
    /\ GoTo(t, "audit")
    /\ UNCHANGED <<rows, trail, req, acked>>

\* engine.create_workflow: the pipeline over the selection, and one dict insertion.
CreateWorkflow(t) ==
    /\ pc[t] = "create"
    /\ minted' = minted + 1
    /\ LET w == [id |-> minted', tenant |-> req[t].by.tenant, asked |-> req[t].ids,
                 findings |-> held[t].selected, status |-> EngineStatus(held[t].selected)]
       IN  /\ store' = [store EXCEPT ![Home[t]] = @ \cup {w}]
           /\ held' = [held EXCEPT ![t] = [made |-> w]]
    /\ GoTo(t, "audit")
    /\ UNCHANGED <<rows, trail, req, acked>>

AppendAudit(t) ==
    /\ pc[t] = "audit"
    /\ trail' = trail \cup {held[t].made.id}
    /\ acked' = [acked EXCEPT ![Home[t]] = @ \cup {held[t].made.id}]
    /\ Answer(t)
    /\ UNCHANGED <<rows, store, minted>>

\* Mutant: the failed audit insert is swallowed and the request accepted.
FailSilently(t) ==
    /\ pc[t] = "audit"
    /\ acked' = [acked EXCEPT ![Home[t]] = @ \cup {held[t].made.id}]
    /\ Answer(t)
    /\ UNCHANGED <<rows, store, trail, minted>>

\* The repository's or the trail's statement fails: 500 from unhandled_error.
\* After "create" the workflow is in the dict already, and stays.
DatabaseFails(t) ==
    /\ pc[t] \in {"read", "audit"}
    /\ Answer(t)
    /\ UNCHANGED <<rows, store, trail, minted, acked>>

(***************************************************************************)
(* GET /engine/workflows/{workflow_id} changes nothing: its answer is      *)
(* Get(r, id, tenant), empty for a 404.  GET /engine/workflows walks the   *)
(* dict, and another thread may insert meanwhile.                          *)
(***************************************************************************)
Get(r, id, tenant) == {w \in store[r] : w.id = id /\ w.tenant = tenant}

ReceiveList(t) ==
    /\ pc[t] = "idle"
    /\ \E by \in Principals : req' = [req EXCEPT ![t] = [op |-> "list", by |-> by]]
    /\ held' = [held EXCEPT ![t] = [walked |-> Engine(t)]]
    /\ GoTo(t, "walk")
    /\ UNCHANGED <<rows, store, trail, minted, acked>>

FinishList(t) ==
    /\ pc[t] = "walk"
    /\ Engine(t) = held[t].walked
    /\ Answer(t)
    /\ UNCHANGED <<rows, store, trail, minted, acked>>

\* An insertion during the walk: RuntimeError, a 500 from unhandled_error.
BreakList(t) ==
    /\ pc[t] = "walk"
    /\ Engine(t) # held[t].walked
    /\ Answer(t)
    /\ UNCHANGED <<rows, store, trail, minted, acked>>

(***************************************************************************)
(* A process stops and starts again: its dict and its requests are gone.   *)
(***************************************************************************)
Restart(r) ==
    LET mine == {t \in Threads : Home[t] = r}
    IN  /\ store' = [store EXCEPT ![r] = {}]
        /\ pc' = [t \in Threads |-> IF t \in mine THEN "idle" ELSE pc[t]]
        /\ req' = [t \in Threads |-> IF t \in mine THEN None ELSE req[t]]
        /\ held' = [t \in Threads |-> IF t \in mine THEN None ELSE held[t]]
        /\ acked' = [acked EXCEPT ![r] = {}]
        /\ UNCHANGED <<rows, trail, minted>>

Init ==
    /\ rows = InitialRows
    /\ store = [r \in Replicas |-> {}]
    /\ trail = {}
    /\ minted = 0
    /\ pc = [t \in Threads |-> "idle"]
    /\ req = [t \in Threads |-> None]
    /\ held = [t \in Threads |-> None]
    /\ acked = [r \in Replicas |-> {}]

Next ==
    \/ ImportFinding
    \/ \E r \in Replicas : Restart(r)
    \/ \E t \in Threads :
          \/ ReceiveCreate(t) \/ SelectFindings(t) \/ RejectMissing(t) \/ CreateWorkflow(t)
          \/ AppendAudit(t) \/ DatabaseFails(t)
          \/ ReceiveList(t) \/ FinishList(t) \/ BreakList(t)

Spec == Init /\ [][Next]_vars

-----------------------------------------------------------------------------
Steps == {"idle", "read", "create", "audit", "walk"}

IsWorkflow(w) ==
    /\ w.id \in 1..minted
    /\ w.tenant \in {p.tenant : p \in Principals}
    /\ w.asked \in Selections
    /\ w.findings \in Seq(Findings)
    /\ w.status \in {"AWAITING_APPROVAL", "VALIDATION_BLOCKED"}

\* Every variable has its shape; a workflow has one of the two statuses of
\* create_workflow.
TypeOK ==
    /\ rows \in Seq(Findings)
    /\ minted \in Nat
    /\ trail \subseteq 1..minted
    /\ \A r \in Replicas : acked[r] \subseteq 1..minted
    /\ \A r \in Replicas : \A w \in store[r] : IsWorkflow(w)
    /\ \A t \in Threads :
          /\ pc[t] \in Steps
          /\ req[t] = None <=> pc[t] = "idle"

\* A workflow holds findings of the tenant that asked, exactly the ids it named if
\* it named any, and is offered for approval exactly when the last of its findings
\* with each id, whose category and CVE create_batch and validate_batch look up for
\* all of them, has a plan with a build check, and a CVE if one of them is critical;
\* whatever was added between reading the findings and storing the workflow
\* (create_engine_workflow, create_workflow).
WorkflowsAreGated ==
    \A r \in Replicas : \A w \in store[r] :
        /\ \A k \in DOMAIN w.findings : w.findings[k].tenant = w.tenant
        /\ w.asked # {} => {f.id : f \in Range(w.findings)} = w.asked
        /\ (w.status = "AWAITING_APPROVAL") <=>
              \A i, j \in DOMAIN w.findings :
                  IsLast(w.findings, j, w.findings[i].id) =>
                      /\ w.findings[j].category \notin InjectionCategories \cup WebCategories
                      /\ w.findings[i].severity = "CRITICAL" => w.findings[j].cve

\* A create request is acknowledged (202) only when its workflow can be fetched
\* from the same process and its event is in the trail, and that stays so as
\* long as the process runs, whatever fails or restarts elsewhere.
AcknowledgedIsRecorded ==
    \A r \in Replicas : \A id \in acked[r] :
        /\ id \in trail
        /\ \E p \in Principals : Get(r, id, p.tenant) # {}

Audited == INSTANCE AuditedWork WITH
    Places <- Replicas,
    Volatile <- Replicas,
    Tenants <- {p.tenant : p \in Principals},
    kept <- store,
    evidence <- trail,
    promised <- acked

\* Seen from outside, the processes do audited work, each in a place of its own that
\* is lost when it stops: no id is used twice, between processes or after a restart,
\* no workflow is replaced, and no event or answer is ahead of its workflow.
ImplementsAuditedWork == Audited!Spec

\* A stored workflow is lost only with its whole process and never replaced, no
\* id is used twice, also between processes, and an event is appended only for a
\* workflow that is still stored.
WorkflowsAreKept ==
    [][/\ \A r \in Replicas : store[r] \subseteq store'[r] \/ store'[r] = {}
       /\ \A r, s \in Replicas : \A v \in store'[r], w \in store'[s] :
             v.id = w.id => r = s /\ v = w
       /\ \A id \in trail' \ trail : \E r \in Replicas : \E w \in store[r] : w.id = id]_vars
=============================================================================
