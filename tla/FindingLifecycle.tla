-------------------------- MODULE FindingLifecycle --------------------------
(***************************************************************************)
(* The life of a finding in the API process: the handlers of               *)
(* backend/app/main.py that change it, the repository they share           *)
(* (repository.py, or sql_repository.py outside demo mode) and the audit   *)
(* trail.  Every handler is a plain `def`, so FastAPI runs each request on *)
(* a worker thread of its own; nothing takes a lock.  A request is         *)
(* received, runs one repository or audit call per step, and is answered.  *)
(* Behaviours are those of one process: its in-memory state starts at Init *)
(* and is gone when the process stops.                                     *)
(***************************************************************************)
EXTENDS Integers, Sequences, FiniteSets, FiniteSetsExt, Functions

CONSTANTS
    Threads,      \* worker threads of the process
    Tenants,      \* tenant ids
    Users,        \* user ids
    Principals,   \* the callers: a subject with the tenant it acts for
    Roles,        \* Roles[u]: the roles require_principal resolves for u
    Findings,     \* finding records that clients and scanners submit
    Payloads,     \* the sequences of findings a submission may carry
    Selectors,    \* scopes and filters of a bulk request
    InitialRows,  \* the findings seeded before the first request
    DemoMode,     \* main.demo_mode: in-memory adapters instead of SQL
    ListLimit,    \* rows a SQL list returns at most
    None,         \* no request, no filter
    MaxRows,      \* bound: no submission is received that could exceed it
    MaxAudit      \* bound: events written or still owed by a request

Status == {"OPEN", "IN_REVIEW", "REMEDIATED", "ACCEPTED_RISK"}
Decisions == {"APPROVE", "REJECT"}
Ids == {f.id : f \in Findings}
Rows == [finding : Findings, status : Status]

\* An imported finding brings its own id: another submission may carry the same id,
\* another tenant's included.
ASSUME FindingsAssumption ==
    \A f \in Findings : f.tenant \in Tenants /\ f.status \in Status

ASSUME RequestsAssumption ==
    /\ Principals \subseteq [subject : Users, tenant : Tenants]
    /\ Payloads \subseteq Seq(Findings)
    /\ InitialRows \in Seq(Findings)
    /\ DemoMode \in BOOLEAN
    /\ ListLimit \in Nat /\ MaxRows \in Nat /\ MaxAudit \in Nat

VARIABLES
    rows,    \* the repository: submitted findings with their current status
    audit,   \* the audit trail
    apps,    \* apps[n]: application records that scans of tenant n have saved
    pc,      \* pc[t]: the call thread t makes next, "idle" between requests
    req,     \* req[t]: the request thread t serves
    pos,     \* pos[t]: the next finding of the payload that t seeds
    todo,    \* todo[t]: rows of t's snapshot that t still has to update
    reply,   \* status code of the response sent last, 0 before the first
    overlapped \* whether two requests have been served at the same time

vars == <<rows, audit, apps, pc, req, pos, todo, reply, overlapped>>

(***************************************************************************)
(* Requests.                                                               *)
(***************************************************************************)
ImportRequest == [op : {"import", "scan"}, by : Principals, findings : Payloads]
BulkRequest == [op : {"bulk"}, by : Principals, sel : Selectors]
DecisionRequest == [op : {"decide"}, by : Principals, id : Ids, decision : Decisions]
Requests == ImportRequest \cup BulkRequest \cup DecisionRequest

\* require_role(principal, "SECURITY_REVIEWER", "PLATFORM_ADMIN")
Reviewer(user) == Roles[user] \cap {"SECURITY_REVIEWER", "PLATFORM_ADMIN"} # {}

\* Mutant: a rejected change stays in review.
StillInReview(decision) ==
    IF decision = "APPROVE" THEN "REMEDIATED" ELSE "IN_REVIEW"

DecidedStatus(decision) ==
    IF decision = "APPROVE" THEN "REMEDIATED" ELSE "ACCEPTED_RISK"

\* Mutant: the event names the finding for every kind of request.
EventOfFinding(r) ==
    [type |-> IF r.op = "decide" THEN r.decision ELSE "SCAN_IMPORTED",
     aggregate |-> IF r.op = "decide" THEN r.id ELSE r.op,
     actor |-> r.by.subject,
     tenant |-> r.by.tenant]

\* The audit event a request owes.  Only a decision names the finding; the
\* other events carry a fresh scan or workflow id, which nothing refers to.
EventOf(r) ==
    [type |-> CASE r.op = "import" -> "SCAN_IMPORTED"
                [] r.op = "scan" -> "REPOSITORY_SCAN"
                [] r.op = "bulk" -> "REMEDIATION_REQUESTED"
                [] r.op = "decide" -> r.decision,
     aggregate |-> IF r.op = "decide" THEN r.id ELSE None,
     actor |-> r.by.subject,
     tenant |-> r.by.tenant]

(***************************************************************************)
(* The repository.                                                         *)
(***************************************************************************)
\* Mutant: the SQL adapter has the port's update_status.
PortWithUpdate == {"list", "update_status"}

\* Methods of the adapter that demo_mode selects.
Port == IF DemoMode
        THEN {"list", "seed", "count", "update_status"}
        ELSE {"list", "get", "create", "update", "delete"}

\* The first row with an id: the one update_status finds.
IsFirst(k, id) ==
    /\ k \in DOMAIN rows
    /\ rows[k].finding.id = id
    /\ \A j \in 1..(k - 1) : rows[j].finding.id # id

\* Mutant: the search runs from the end of the list.
UpdateLast(id, s) ==
    rows' = [k \in 1..Len(rows) |->
                IF rows[k].finding.id = id /\ \A j \in (k + 1)..Len(rows) : rows[j].finding.id # id
                THEN [rows[k] EXCEPT !.status = s] ELSE rows[k]]

\* update_status(id, s): the first row with the id, if there is one.
UpdateStatus(id, s) ==
    rows' = [k \in 1..Len(rows) |->
                IF IsFirst(k, id) THEN [rows[k] EXCEPT !.status = s] ELSE rows[k]]

\* Mutant: the tenant filter is missing.
ListedAnyTenant(tenant) == DOMAIN rows

\* repository.list(tenant): in memory every row, in SQL the newest ListLimit.
Listed(tenant) ==
    LET mine == {k \in DOMAIN rows : rows[k].finding.tenant = tenant}
    IN  {k \in mine : DemoMode \/ Cardinality({j \in mine : j > k}) < ListLimit}

\* list_approvals
ApprovalQueue(tenant) == {k \in Listed(tenant) : rows[k].status = "IN_REVIEW"}

\* RemediationWorkflow.match: the tenant's rows in scope, narrowed by the filters.
Match(found, sel) ==
    LET f(k) == rows[k].finding
    IN  {k \in found :
            /\ sel.scope = "MNEMONIC" => f(k).mnemonic = sel.target
            /\ sel.scope = "APPLICATION" => f(k).application = sel.target
            /\ sel.scope = "REPOSITORY" => f(k).repository = sel.target
            /\ sel.cve # None => f(k).cve = sel.cve
            /\ sel.severity # None => f(k).severity = sel.severity}

(***************************************************************************)
(* Steps shared by the handlers.                                           *)
(***************************************************************************)
GoTo(t, step) == pc' = [pc EXCEPT ![t] = step]

Answer(t, code) ==
    /\ GoTo(t, "idle")
    /\ reply' = code
    /\ req' = [req EXCEPT ![t] = None]
    /\ pos' = [pos EXCEPT ![t] = 1]
    /\ todo' = [todo EXCEPT ![t] = {}]

\* Bounds: no request is received that could leave them.
Busy == {t \in Threads : pc[t] # "idle"}
Owed(t) == IF pc[t] = "seed" THEN Len(req[t].findings) - pos[t] + 1 ELSE 0
RoomForEvent == Len(audit) + Cardinality(Busy) < MaxAudit
RoomForScan(n) == apps[n] + Cardinality(Busy) < MaxAudit
RoomForRows(n) == Len(rows) + MapThenSumSet(Owed, Threads) + n <= MaxRows

Receive(t, r, step) ==
    /\ pc[t] = "idle"
    /\ RoomForEvent
    /\ GoTo(t, step)
    /\ req' = [req EXCEPT ![t] = r]
    /\ overlapped' = (overlapped \/ Busy # {})
    /\ UNCHANGED <<rows, audit, apps, pos, todo, reply>>

\* Refused before the handler touches anything.
Refuse(t, code) ==
    /\ pc[t] = "idle"
    /\ Answer(t, code)
    /\ UNCHANGED <<rows, audit, apps, overlapped>>

(***************************************************************************)
(* POST /scans/import and POST /mvp/scans.                                 *)
(***************************************************************************)
ReceiveImport(t) ==
    \E by \in Principals, findings \in Payloads :
        /\ RoomForRows(Len(findings))
        /\ Receive(t, [op |-> "import", by |-> by, findings |-> findings], "seed")

\* Ids that a row or an unanswered submission already carries.
UsedIds ==
    {rows[k].finding.id : k \in DOMAIN rows} \cup
    UNION {{f.id : f \in Range(req[t].findings)} : t \in {u \in Busy : pc[u] = "seed"}}

\* The scanner makes open findings of the caller's tenant under fresh ids.
ReceiveScan(t) ==
    \E by \in Principals, findings \in Payloads :
        /\ IsInjective([k \in DOMAIN findings |-> findings[k].id])
        /\ \A f \in Range(findings) :
              f.tenant = by.tenant /\ f.status = "OPEN" /\ f.id \notin UsedIds
        /\ RoomForRows(Len(findings)) /\ RoomForScan(by.tenant)
        /\ Receive(t, [op |-> "scan", by |-> by, findings |-> findings], "seed")

\* The scan's path is not a directory: ValueError becomes 400.
RejectPath(t) == Refuse(t, 400)

SeedFinding(t) ==
    /\ pc[t] = "seed"
    /\ pos[t] \in DOMAIN req[t].findings
    /\ LET f == req[t].findings[pos[t]]
       IN  /\ f.tenant = req[t].by.tenant
           /\ "seed" \in Port
           /\ rows' = Append(rows, [finding |-> f, status |-> f.status])
    /\ pos' = [pos EXCEPT ![t] = @ + 1]
    /\ UNCHANGED <<audit, apps, pc, req, todo, reply, overlapped>>

\* A foreign finding stops the import; what it has seeded so far stays.
RejectForeign(t) ==
    /\ pc[t] = "seed"
    /\ pos[t] \in DOMAIN req[t].findings
    /\ req[t].findings[pos[t]].tenant # req[t].by.tenant
    /\ Answer(t, 403)
    /\ UNCHANGED <<rows, audit, apps, overlapped>>

\* Mutant: the scan does not save its application.
FinishWithoutSave(t) ==
    /\ pc[t] = "seed"
    /\ pos[t] \notin DOMAIN req[t].findings
    /\ GoTo(t, "audit")
    /\ UNCHANGED <<rows, audit, apps, req, pos, todo, reply, overlapped>>

FinishSeeding(t) ==
    /\ pc[t] = "seed"
    /\ pos[t] \notin DOMAIN req[t].findings
    /\ GoTo(t, IF req[t].op = "scan" THEN "save" ELSE "audit")
    /\ UNCHANGED <<rows, audit, apps, req, pos, todo, reply, overlapped>>

SaveApplication(t) ==
    /\ pc[t] = "save"
    /\ apps' = [apps EXCEPT ![req[t].by.tenant] = @ + 1]
    /\ GoTo(t, "audit")
    /\ UNCHANGED <<rows, audit, req, pos, todo, reply, overlapped>>

(***************************************************************************)
(* POST /remediation/bulk.                                                 *)
(***************************************************************************)
ReceiveBulk(t) ==
    \E by \in Principals, sel \in Selectors :
        Receive(t, [op |-> "bulk", by |-> by, sel |-> sel], "read")

\* payload.tenant_id or payload.requested_by is not the caller's.
RejectMismatch(t) == Refuse(t, 403)

ReadMatches(t) ==
    /\ pc[t] = "read"
    /\ req[t].op = "bulk"
    /\ todo' = [todo EXCEPT ![t] = Match(Listed(req[t].by.tenant), req[t].sel)]
    /\ GoTo(t, "update")
    /\ UNCHANGED <<rows, audit, apps, req, pos, reply, overlapped>>

\* Mutant: the loop does not advance.
ReviewSameFinding(t) ==
    /\ pc[t] = "update"
    /\ req[t].op = "bulk"
    /\ \E k \in todo[t] :
          /\ \A j \in todo[t] : k <= j
          /\ UpdateStatus(rows[k].finding.id, "IN_REVIEW")
    /\ UNCHANGED <<audit, apps, pc, req, pos, todo, reply, overlapped>>

\* One round of the update loop: the snapshot's rows in order, each by its id.
ReviewFinding(t) ==
    /\ pc[t] = "update"
    /\ req[t].op = "bulk"
    /\ "update_status" \in Port
    /\ \E k \in todo[t] :
          /\ \A j \in todo[t] : k <= j
          /\ UpdateStatus(rows[k].finding.id, "IN_REVIEW")
          /\ todo' = [todo EXCEPT ![t] = @ \ {k}]
    /\ UNCHANGED <<audit, apps, pc, req, pos, reply, overlapped>>

FinishBulk(t) ==
    /\ pc[t] = "update"
    /\ req[t].op = "bulk"
    /\ todo[t] = {}
    /\ GoTo(t, "audit")
    /\ UNCHANGED <<rows, audit, apps, req, pos, todo, reply, overlapped>>

(***************************************************************************)
(* POST /approvals/{finding_id}/decision.                                  *)
(***************************************************************************)
\* Mutant: require_role is not called.
ReceiveAnyDecision(t) ==
    \E by \in Principals, id \in Ids, decision \in Decisions :
        Receive(t, [op |-> "decide", by |-> by, id |-> id, decision |-> decision], "read")

ReceiveDecision(t) ==
    \E by \in Principals, id \in Ids, decision \in Decisions :
        /\ Reviewer(by.subject)
        /\ Receive(t, [op |-> "decide", by |-> by, id |-> id, decision |-> decision], "read")

RejectRole(t) ==
    /\ \E by \in Principals : ~Reviewer(by.subject)
    /\ Refuse(t, 403)

\* Mutant: the finding is looked up in every tenant's rows.
FindAnywhere(t) ==
    /\ pc[t] = "read"
    /\ req[t].op = "decide"
    /\ \E k \in DOMAIN rows : rows[k].finding.id = req[t].id
    /\ GoTo(t, "update")
    /\ UNCHANGED <<rows, audit, apps, req, pos, todo, reply, overlapped>>

FindDecided(t) ==
    /\ pc[t] = "read"
    /\ req[t].op = "decide"
    /\ \E k \in Listed(req[t].by.tenant) : rows[k].finding.id = req[t].id
    /\ GoTo(t, "update")
    /\ UNCHANGED <<rows, audit, apps, req, pos, todo, reply, overlapped>>

RejectUnknown(t) ==
    /\ pc[t] = "read"
    /\ req[t].op = "decide"
    /\ \A k \in Listed(req[t].by.tenant) : rows[k].finding.id # req[t].id
    /\ Answer(t, 404)
    /\ UNCHANGED <<rows, audit, apps, overlapped>>

\* Mutant: the decision is answered without its audit event.
DecideUnaudited(t) ==
    /\ pc[t] = "update"
    /\ req[t].op = "decide"
    /\ UpdateStatus(req[t].id, DecidedStatus(req[t].decision))
    /\ Answer(t, 200)
    /\ UNCHANGED <<audit, apps, overlapped>>

DecideFinding(t) ==
    /\ pc[t] = "update"
    /\ req[t].op = "decide"
    /\ "update_status" \in Port
    /\ UpdateStatus(req[t].id, DecidedStatus(req[t].decision))
    /\ GoTo(t, "audit")
    /\ UNCHANGED <<audit, apps, req, pos, todo, reply, overlapped>>

(***************************************************************************)
(* The end of every handler, and what can go wrong outside demo mode.      *)
(***************************************************************************)
AppendAudit(t) ==
    /\ pc[t] = "audit"
    /\ audit' = Append(audit, EventOf(req[t]))
    /\ Answer(t, IF req[t].op = "decide" THEN 200 ELSE 202)
    /\ UNCHANGED <<rows, apps, overlapped>>

\* The adapter has no such method: AttributeError, answered by unhandled_error.
MissingMethod(t) ==
    /\ \/ /\ "seed" \notin Port
          /\ pc[t] = "seed"
          /\ pos[t] \in DOMAIN req[t].findings
          /\ req[t].findings[pos[t]].tenant = req[t].by.tenant
       \/ /\ "update_status" \notin Port
          /\ pc[t] = "update"
          /\ req[t].op = "decide" \/ todo[t] # {}
    /\ Answer(t, 500)
    /\ UNCHANGED <<rows, audit, apps, overlapped>>

\* A statement fails (500), or breaks a constraint such as the event's actor (409).
DatabaseFails(t) ==
    /\ ~DemoMode
    /\ pc[t] \in {"read", "save", "audit"}
    /\ \E code \in {409, 500} : Answer(t, code)
    /\ UNCHANGED <<rows, audit, apps, overlapped>>

(***************************************************************************)
(* The specification.  A client need not send anything; the server runs    *)
(* every request it received to its answer.                                *)
(***************************************************************************)
Init ==
    /\ rows = [k \in DOMAIN InitialRows |->
                  [finding |-> InitialRows[k], status |-> InitialRows[k].status]]
    /\ audit = <<>>
    /\ apps = [n \in Tenants |-> 0]
    /\ pc = [t \in Threads |-> "idle"]
    /\ req = [t \in Threads |-> None]
    /\ pos = [t \in Threads |-> 1]
    /\ todo = [t \in Threads |-> {}]
    /\ reply = 0
    /\ overlapped = FALSE

Arrive(t) ==
    \/ ReceiveImport(t) \/ ReceiveScan(t) \/ ReceiveBulk(t) \/ ReceiveDecision(t)
    \/ RejectPath(t) \/ RejectMismatch(t) \/ RejectRole(t)

Serve(t) ==
    \/ SeedFinding(t) \/ RejectForeign(t) \/ FinishSeeding(t) \/ SaveApplication(t)
    \/ ReadMatches(t) \/ ReviewFinding(t) \/ FinishBulk(t)
    \/ FindDecided(t) \/ RejectUnknown(t) \/ DecideFinding(t)
    \/ AppendAudit(t) \/ MissingMethod(t) \/ DatabaseFails(t)

Next == \E t \in Threads : Arrive(t) \/ Serve(t)

Spec == Init /\ [][Next]_vars

FairSpec == Spec /\ \A t \in Threads : WF_vars(Serve(t))

(***************************************************************************)
(* Properties.                                                             *)
(***************************************************************************)
Events == [type : {"SCAN_IMPORTED", "REPOSITORY_SCAN", "REMEDIATION_REQUESTED"} \cup Decisions,
           aggregate : Ids \cup {None}, actor : Users, tenant : Tenants]

\* Type invariant: what each variable of the process may hold.
TypeOK ==
    /\ rows \in Seq(Rows)
    /\ audit \in Seq(Events)
    /\ apps \in [Tenants -> Nat]
    /\ pc \in [Threads -> {"idle", "seed", "save", "read", "update", "audit"}]
    /\ req \in [Threads -> Requests \cup {None}]
    /\ pos \in [Threads -> Nat \ {0}]
    /\ todo \in [Threads -> SUBSET Nat]
    /\ reply \in {0, 200, 202, 400, 403, 404, 409, 500}
    /\ overlapped \in BOOLEAN

\* The tenants that have submitted a finding under an id.
Holders(id) ==
    {rows[k].finding.tenant : k \in {j \in DOMAIN rows : rows[j].finding.id = id}}

\* Event e accounts for the current status of a row.
Accounts(e, row) ==
    /\ e.tenant \in Holders(row.finding.id)
    /\ \/ e.type = "REMEDIATION_REQUESTED" /\ row.status = "IN_REVIEW"
       \/ /\ e.type \in Decisions
          /\ e.aggregate = row.finding.id
          /\ Reviewer(e.actor)
          /\ row.status = DecidedStatus(e.type)

\* A finding whose status is not the submitted one got it from a request of a tenant
\* that has submitted a finding under its id, a decision only from a reviewer; the
\* event that accounts for it is in the audit trail or owed by a thread that has yet
\* to append it (main.py changes the status first and appends the event after).
StatusExplained ==
    \A k \in DOMAIN rows : rows[k].status # rows[k].finding.status =>
        \/ \E i \in DOMAIN audit : Accounts(audit[i], rows[k])
        \/ \E t \in Threads : /\ pc[t] \in {"update", "audit"}
                              /\ Accounts(EventOf(req[t]), rows[k])

\* What a thread read stays true until it uses it: rows of its snapshot are still
\* rows of its tenant, and the finding it is about to decide still exists
\* (tenant_rows is read once and used after other threads have run).
SnapshotHolds ==
    \A t \in Threads : pc[t] = "update" =>
        /\ todo[t] \subseteq {k \in DOMAIN rows : rows[k].finding.tenant = req[t].by.tenant}
        /\ req[t].op = "decide" =>
              \E k \in DOMAIN rows : /\ rows[k].finding.id = req[t].id
                                     /\ rows[k].finding.tenant = req[t].by.tenant

\* Rows are never dropped or reordered and keep the finding as submitted; a request
\* adds rows of its own tenant only, and the one row it may change is the first with
\* an id its tenant has submitted: its own finding or, where another tenant submitted
\* the same id before, that tenant's (update_status looks a row up by its bare id).
ChangesStayWithHolders ==
    [][\E t \in Threads :
         /\ <<pc[t], pos[t], todo[t]>>' # <<pc[t], pos[t], todo[t]>>
         /\ Len(rows') >= Len(rows)
         /\ \A k \in DOMAIN rows : rows'[k].finding = rows[k].finding
         /\ \A k \in DOMAIN rows' :
               IF k \in DOMAIN rows
               THEN rows'[k] # rows[k] =>
                        /\ IsFirst(k, rows[k].finding.id)
                        /\ req[t].by.tenant \in Holders(rows[k].finding.id)
               ELSE rows'[k].finding.tenant = req[t].by.tenant]_rows

\* Scans leave their evidence (mvp.scan saves the application, mvp_scan appends the
\* event afterwards): a tenant has one application record for each REPOSITORY_SCAN
\* event, but for scans that have still to append theirs.
ScanEvents(n) == {i \in DOMAIN audit : audit[i].type = "REPOSITORY_SCAN" /\ audit[i].tenant = n}
ScanEvidence ==
    \A n \in Tenants :
        apps[n] = Cardinality(ScanEvents(n))
                    + Cardinality({t \in Threads : /\ pc[t] = "audit"
                                                   /\ req[t].op = "scan"
                                                   /\ req[t].by.tenant = n})

\* A decision takes its finding out of the approval queue: what the queue still
\* shows under the id is a later submission that came in review, which decisions
\* never reach (list_approvals shows rows, update_status changes the first one).
DecisionClearsQueue ==
    [][\A t \in Threads :
         (pc[t] = "update" /\ req[t].op = "decide" /\ pc'[t] = "audit") =>
             \A k \in ApprovalQueue(req[t].by.tenant)' :
                 rows'[k].finding.id = req[t].id =>
                     ~IsFirst(k, req[t].id)' /\ rows'[k].finding.status = "IN_REVIEW"]_vars

\* As long as requests are served one at a time, the trail can be read back: after
\* the last decision on a finding it keeps the decided status, unless a
\* tenant with a finding under the id has requested a remediation since, which may
\* have put it back in review.
LastDecisionStands ==
    (~overlapped /\ \A t \in Threads : pc[t] = "idle") =>
        \A i \in DOMAIN audit :
            (/\ audit[i].type \in Decisions
             /\ \A j \in DOMAIN audit :
                   j > i => ~(/\ audit[j].type \in Decisions
                              /\ audit[j].aggregate = audit[i].aggregate))
            => \E k \in DOMAIN rows :
                  /\ IsFirst(k, audit[i].aggregate)
                  /\ \/ rows[k].status = DecidedStatus(audit[i].type)
                     \/ /\ rows[k].status = "IN_REVIEW"
                        /\ \E j \in DOMAIN audit :
                              /\ j > i
                              /\ audit[j].type = "REMEDIATION_REQUESTED"
                              /\ audit[j].tenant \in Holders(audit[i].aggregate)

\* Outside demo mode no request changes a finding, and none that should have is
\* recorded as done (the SQL adapter lacks the methods that would; a request with
\* nothing to change still succeeds).
NothingTakesEffect ==
    /\ Len(rows) = Len(InitialRows)
    /\ \A k \in DOMAIN rows : rows[k].status = rows[k].finding.status
    /\ \A i \in DOMAIN audit : audit[i].type \notin Decisions

\* Every request the server received is answered: no handler waits for another.
EveryRequestAnswered == \A t \in Threads : pc[t] # "idle" ~> pc[t] = "idle"

\* Every finding that a bulk request matched is put in review, even when other
\* threads decide or bulk-update the same findings while its loop runs.
MatchedIsReviewed ==
    \A t \in Threads : \A id \in Ids :
        (pc[t] = "update" /\ \E k \in todo[t] : rows[k].finding.id = id)
            ~> (\E k \in DOMAIN rows : IsFirst(k, id) /\ rows[k].status = "IN_REVIEW")

(***************************************************************************)
(* In demo mode the process implements GovernedStatus: a finding's status  *)
(* is that of the first row with its id, a request is granted when its     *)
(* handler has read what it will change.                                   *)
(***************************************************************************)
StatusOf(id) ==
    IF \E k \in DOMAIN rows : IsFirst(k, id)
    THEN rows[CHOOSE k \in DOMAIN rows : IsFirst(k, id)].status
    ELSE "ABSENT"

ASSUME DesksAssumption ==
    \A entry \in Events, granted \in BOOLEAN : [entry |-> entry, granted |-> granted] # None

DeskOf(t) ==
    IF pc[t] = "idle" THEN None
    ELSE [entry |-> EventOf(req[t]), granted |-> pc[t] # "read"]

Governed == INSTANCE GovernedStatus WITH
    Workers <- Threads,
    Reviewers <- {u \in Users : Reviewer(u)},
    Nothing <- None,
    status <- [id \in Ids |-> StatusOf(id)],
    holders <- [id \in Ids |-> Holders(id)],
    desk <- [t \in Threads |-> DeskOf(t)],
    log <- audit

\* Seen from outside, findings only move as GovernedStatus allows: duplicates,
\* snapshots and interleaved loops never show, tenants that share an id share its
\* status.
ImplementsGovernedStatus == Governed!Spec

(***************************************************************************)
(* Statements the repository makes about itself.                           *)
(***************************************************************************)
\* README.md: "All mutations emit audit events": no thread ends a request after
\* which a finding it has seeded is left without any event of that tenant's imports.
MutationsAudited ==
    (\A t \in Threads : pc[t] = "idle") =>
        \A k \in (Len(InitialRows) + 1)..Len(rows) :
            \E i \in DOMAIN audit : /\ audit[i].type \in {"SCAN_IMPORTED", "REPOSITORY_SCAN"}
                                    /\ audit[i].tenant = rows[k].finding.tenant
=============================================================================
