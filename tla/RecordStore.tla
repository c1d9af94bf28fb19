----------------------------- MODULE RecordStore -----------------------------
(***************************************************************************)
(* The MVP operations outside demo mode: several API processes, each with  *)
(* its start-up (database.initialize_demo_database), its connection pool   *)
(* (persistence.transaction) and the dicts of its LocalSecurityMvp, over   *)
(* one database that holds the records (SqlMvpRepository) and the audit    *)
(* trail (SqlAuditRepository).  A finding read from SQL has no file_name,  *)
(* so no source is read and nothing is committed: of Git only the outcome  *)
(* of git switch matters.  Processes stop, and start, at any time; the     *)
(* schema is made by a migration, because no start-up manages to.          *)
(***************************************************************************)
EXTENDS Integers, FiniteSets

CONSTANTS
    Processes,
    Demo,         \* those that run with APP_ENV=demo, the others with production
    Threads,      \* worker threads
    Home,         \* Home[t]: the process of thread t
    Connections,  \* pooled connections: pool_size and max_overflow of every process
    Owner,        \* Owner[c]: the process of connection c
    Findings,     \* each with its tenant
    None,
    MaxRequests   \* bound on requests received

ASSUME StoreAssumption ==
    /\ Demo \subseteq Processes
    /\ Home \in [Threads -> Processes] /\ Owner \in [Connections -> Processes]
    /\ None \notin Threads /\ \A f \in Findings : f.tenant # None
    /\ MaxRequests \in Nat

VARIABLES
    schema,   \* whether the schema pnc exists
    rows,     \* pnc.mvp_read_models
    trail,    \* pnc.audit_events: the requests they are about
    phase,    \* phase[p]: how far process p has started
    memory,   \* memory[p]: findings with an entry in data.remediations and data.branches
    pool,     \* pool[c]: the thread that uses connection c and the setting app.tenant_id
    pc,       \* pc[t]: the call thread t makes next
    req,      \* req[t]: the request it serves
    served,   \* requests received so far: each has a number, which stands for its uuid
    acked     \* requests answered with success

database == <<schema, rows, trail>>
vars == <<database, phase, memory, pool, pc, req, served, acked>>

Types == {"application", "remediation", "jira", "branch", "pull_request", "knowledge"}
Ops == {"fix", "jira", "branch", "pull_request", "application"}
Free == [user |-> None, tenant |-> None]
Empty == [fixes |-> {}, branches |-> {}]

F(t) == req[t].finding
Tenant(t) == F(t).tenant

GoTo(t, step) == pc' = [pc EXCEPT ![t] = step]

\* Mutant: the request is not forgotten when it has been answered.
AnswerOnly(t) == GoTo(t, "idle") /\ UNCHANGED req

Answer(t) ==
    /\ GoTo(t, "idle")
    /\ req' = [req EXCEPT ![t] = None]

(***************************************************************************)
(* persistence.transaction: a session takes a connection of its process's  *)
(* pool, sets the tenant for the transaction, runs one statement, commits  *)
(* or rolls back, and gives the connection back.                           *)
(***************************************************************************)
Calls == {"find", "lookup", "remediation", "knowledge", "record", "audit"}
Mine(t) == {c \in Connections : Owner[c] = Home[t]}
InTransaction(t) == \E c \in Connections : pool[c].user = t

\* pr looks in the dict before it opens a session (mvp_pull_request).
Remembered(t) == req[t].op = "pull_request" /\ F(t) \in memory[Home[t]].branches

Begin(t) ==
    /\ pc[t] \in Calls /\ ~InTransaction(t)
    /\ ~(pc[t] = "lookup" /\ Remembered(t))
    /\ \E c \in Mine(t) :
          /\ pool[c].user = None
          /\ pool' = [pool EXCEPT ![c] = [user |-> t, tenant |-> Tenant(t)]]
    /\ UNCHANGED <<database, phase, memory, pc, req, served, acked>>

\* The pool's timeout passes while every connection is in use: a 500.
GiveUp(t) ==
    /\ pc[t] \in Calls /\ ~InTransaction(t)
    /\ \A c \in Mine(t) : pool[c].user # None
    /\ Answer(t)
    /\ UNCHANGED <<database, phase, memory, pool, served, acked>>

\* Mutant: the tenant is set for the session, not for the transaction.
FreedWithTenant(c) == [pool[c] EXCEPT !.user = None]

Freed(c) == Free

Close(t) == pool' = [c \in Connections |-> IF pool[c].user = t THEN Freed(c) ELSE pool[c]]

\* The statement of the call thread t is in has run, and is committed; it names a
\* table, so it needs the schema.
Commit(t, call) == pc[t] = call /\ schema /\ InTransaction(t) /\ Close(t)

\* Mutant: an audit insert that fails is not noticed.
FailsUnnoticed(t) ==
    /\ InTransaction(t) /\ Close(t)
    /\ acked' = IF pc[t] = "audit" THEN acked \cup {req[t]} ELSE acked
    /\ Answer(t)
    /\ UNCHANGED <<database, phase, memory, served>>

StatementFails(t) ==
    /\ InTransaction(t) /\ Close(t)
    /\ Answer(t)  \* 409 or 500
    /\ UNCHANGED <<database, phase, memory, served, acked>>

(***************************************************************************)
(* SqlMvpRepository.  The id alone is the key, and a record that is saved  *)
(* again under its id keeps its type.                                      *)
(***************************************************************************)
Saved(id, tenant, type, finding) ==
    LET old == {r \in rows : r.id = id}
        payload == [of |-> type, finding |-> finding]
    IN  IF old = {} THEN rows \cup {[id |-> id, tenant |-> tenant, type |-> type, payload |-> payload]}
        ELSE (rows \ old) \cup {[r EXCEPT !.payload = IF r.tenant = tenant THEN payload ELSE @] : r \in old}

Records(type, tenant) == {r \in rows : r.tenant = tenant /\ r.type = type}

(***************************************************************************)
(* The handlers: mvp_scan of a directory without matches, mvp_fix,         *)
(* mvp_jira, mvp_branch and mvp_pull_request.                              *)
(***************************************************************************)
Receive(t) ==
    /\ phase[Home[t]] = "serving"
    /\ pc[t] = "idle"
    /\ served < MaxRequests
    /\ served' = served + 1
    /\ \E op \in Ops, f \in Findings :
          /\ req' = [req EXCEPT ![t] = [n |-> served', op |-> op, finding |-> f]]
          /\ GoTo(t, IF op = "application" THEN "record" ELSE "find")
    /\ UNCHANGED <<database, phase, memory, pool, acked>>

\* generate_fix enters its record in the dict, then saves it.
Generate(t) ==
    /\ memory' = [memory EXCEPT ![Home[t]].fixes = @ \cup {F(t)}]
    /\ GoTo(t, "remediation")

FindFinding(t) ==
    /\ Commit(t, "find")
    /\ CASE req[t].op = "fix" -> Generate(t)
         [] req[t].op = "jira" -> GoTo(t, "record") /\ UNCHANGED memory
         [] OTHER -> GoTo(t, "lookup") /\ UNCHANGED memory
    /\ UNCHANGED <<database, phase, req, served, acked>>

\* The finding is deleted: 404.
RejectUnknown(t) ==
    /\ Commit(t, "find")
    /\ Answer(t)
    /\ UNCHANGED <<database, phase, memory, served, acked>>

SaveRemediation(t) ==
    /\ Commit(t, "remediation")
    /\ rows' = Saved(<<req[t].n, "remediation">>, Tenant(t), "remediation", F(t))
    /\ GoTo(t, "knowledge")
    /\ UNCHANGED <<schema, trail, phase, memory, req, served, acked>>

\* The knowledge entry has the id of its remediation record, and no finding_id.
SaveKnowledge(t) ==
    /\ Commit(t, "knowledge")
    /\ rows' = Saved(<<req[t].n, "remediation">>, Tenant(t), "knowledge", None)
    /\ GoTo(t, IF req[t].op = "fix" THEN "audit" ELSE "switch")
    /\ UNCHANGED <<schema, trail, phase, memory, req, served, acked>>

\* remediation_for_finding: KeyError on a payload without a finding_id, TypeError
\* on the finding's own; otherwise it walks the dict of the process next.
Unreadable(t) == \E r \in Records("remediation", Tenant(t)) : r.payload.finding \in {None, F(t)}

LookUpRemediation(t) ==
    /\ Commit(t, "lookup")
    /\ req[t].op = "branch"
    /\ IF Unreadable(t) THEN Answer(t)  \* 500
       ELSE GoTo(t, "walk") /\ UNCHANGED req
    /\ UNCHANGED <<database, phase, memory, served, acked>>

\* The dict has a record of the finding, perhaps a newer one than the lookup, or a
\* fix is generated.
WalkRemediations(t) ==
    /\ pc[t] = "walk"
    /\ IF F(t) \in memory[Home[t]].fixes THEN GoTo(t, "switch") /\ UNCHANGED memory ELSE Generate(t)
    /\ UNCHANGED <<database, phase, pool, req, served, acked>>

\* Another thread of the process inserts during the walk: RuntimeError, a 500.
WalkBreaks(t) ==
    /\ pc[t] = "walk"
    /\ \E u \in Threads \ {t} : Home[u] = Home[t] /\ pc[u] # "idle"
    /\ Answer(t)
    /\ UNCHANGED <<database, phase, memory, pool, served, acked>>

Switch(t) ==
    /\ pc[t] = "switch"
    /\ GoTo(t, "record")
    /\ memory' = [memory EXCEPT ![Home[t]].branches = @ \cup {F(t)}]
    /\ UNCHANGED <<database, phase, pool, req, served, acked>>

SwitchFails(t) ==
    /\ pc[t] = "switch"
    /\ Answer(t)  \* 400
    /\ UNCHANGED <<database, phase, memory, pool, served, acked>>

FromMemory(t) ==
    /\ pc[t] = "lookup" /\ ~InTransaction(t) /\ Remembered(t)
    /\ GoTo(t, "record")
    /\ UNCHANGED <<database, phase, memory, pool, req, served, acked>>

\* Mutant: a branch is looked for in the process's dict only.
BranchInMemory(t) == F(t) \in memory[Home[t]].branches

BranchStored(t) == \E r \in Records("branch", Tenant(t)) : r.payload.finding = F(t)

LookUpBranch(t) ==
    /\ Commit(t, "lookup")
    /\ req[t].op = "pull_request"
    /\ IF BranchStored(t) THEN GoTo(t, "record") /\ UNCHANGED req ELSE Answer(t)  \* 409
    /\ UNCHANGED <<database, phase, memory, served, acked>>

\* Mutant: a ticket is only kept in the process's dict.
SaveAllButTickets(t) ==
    /\ Commit(t, "record")
    /\ rows' = IF req[t].op = "jira" THEN rows ELSE Saved(<<req[t].n, req[t].op>>, Tenant(t), req[t].op, F(t))
    /\ GoTo(t, "audit")
    /\ UNCHANGED <<schema, trail, phase, memory, req, served, acked>>

SaveRecord(t) ==
    /\ Commit(t, "record")
    /\ rows' = Saved(<<req[t].n, req[t].op>>, Tenant(t), req[t].op, F(t))
    /\ GoTo(t, "audit")
    /\ UNCHANGED <<schema, trail, phase, memory, req, served, acked>>

AppendAudit(t) ==
    /\ Commit(t, "audit")
    /\ trail' = trail \cup {req[t]}
    /\ acked' = acked \cup {req[t]}
    /\ Answer(t)
    /\ UNCHANGED <<schema, rows, phase, memory, served>>

Serve(t) ==
    \/ Receive(t) \/ Begin(t) \/ GiveUp(t) \/ StatementFails(t)
    \/ FindFinding(t) \/ RejectUnknown(t) \/ SaveRemediation(t) \/ SaveKnowledge(t)
    \/ LookUpRemediation(t) \/ WalkRemediations(t) \/ WalkBreaks(t) \/ Switch(t) \/ SwitchFails(t)
    \/ FromMemory(t) \/ LookUpBranch(t) \/ SaveRecord(t) \/ AppendAudit(t)

(***************************************************************************)
(* Start-up, and stops.  Only a demo process looks for the schema; then it *)
(* runs its scripts in one transaction.  The first has a %I, which the     *)
(* driver takes for a placeholder and refuses, so a start-up that finds no *)
(* schema fails every time; the others can be run again on one that is     *)
(* there.  A production process serves at once.                            *)
(***************************************************************************)
\* The operator's migration (README.md, "database migrations").
Migrate ==
    /\ ~schema
    /\ schema' = TRUE
    /\ UNCHANGED <<rows, trail, phase, memory, pool, pc, req, served, acked>>

LookForSchema(p) ==
    /\ p \in Demo /\ phase[p] = "down"
    /\ phase' = [phase EXCEPT ![p] = IF schema THEN "seeding" ELSE "creating"]
    /\ UNCHANGED <<database, memory, pool, pc, req, served, acked>>

\* Mutant: the failure is logged and the process serves without its schema.
ServeAnyway(p) == "serving"

StartUpFailed(p) == "down"

\* The first script is refused, the transaction is rolled back: RuntimeError.
RejectFirstScript(p) ==
    /\ phase[p] = "creating"
    /\ phase' = [phase EXCEPT ![p] = StartUpFailed(p)]
    /\ UNCHANGED <<database, memory, pool, pc, req, served, acked>>

RunScripts(p) ==
    /\ phase[p] = "seeding"
    /\ phase' = [phase EXCEPT ![p] = "serving"]
    /\ UNCHANGED <<database, memory, pool, pc, req, served, acked>>

\* Another start-up's scripts are in the way, or the database is gone.
ScriptsFail(p) ==
    /\ phase[p] = "seeding"
    /\ phase' = [phase EXCEPT ![p] = StartUpFailed(p)]
    /\ UNCHANGED <<database, memory, pool, pc, req, served, acked>>

ServeUnlooked(p) ==
    /\ p \notin Demo /\ phase[p] = "down"
    /\ phase' = [phase EXCEPT ![p] = "serving"]
    /\ UNCHANGED <<database, memory, pool, pc, req, served, acked>>

StartUp(p) ==
    LookForSchema(p) \/ RejectFirstScript(p) \/ RunScripts(p) \/ ScriptsFail(p) \/ ServeUnlooked(p)

Stop(p) ==
    /\ phase[p] = "serving"
    /\ phase' = [phase EXCEPT ![p] = "down"]
    /\ memory' = [memory EXCEPT ![p] = Empty]
    /\ pool' = [c \in Connections |-> IF Owner[c] = p THEN Free ELSE pool[c]]
    /\ pc' = [t \in Threads |-> IF Home[t] = p THEN "idle" ELSE pc[t]]
    /\ req' = [t \in Threads |-> IF Home[t] = p THEN None ELSE req[t]]
    /\ UNCHANGED <<database, served, acked>>

Init ==
    /\ schema = FALSE /\ rows = {} /\ trail = {}
    /\ phase = [p \in Processes |-> "down"]
    /\ memory = [p \in Processes |-> Empty]
    /\ pool = [c \in Connections |-> Free]
    /\ pc = [t \in Threads |-> "idle"] /\ req = [t \in Threads |-> None]
    /\ served = 0 /\ acked = {}

Next ==
    \/ Migrate
    \/ \E t \in Threads : Serve(t)
    \/ \E p \in Processes : StartUp(p) \/ Stop(p)

Spec == Init /\ [][Next]_vars

-----------------------------------------------------------------------------
Requests == [n : 1..MaxRequests, op : Ops, finding : Findings]

Tenants == {f.tenant : f \in Findings}
Rows == [id : (1..MaxRequests) \X Types, tenant : Tenants, type : Types,
         payload : [of : Types, finding : Findings \cup {None}]]

\* Every variable has its shape; an id names one row.
TypeOK ==
    /\ schema \in BOOLEAN
    /\ rows \subseteq Rows /\ \A r, s \in rows : r.id = s.id => r = s
    /\ trail \subseteq Requests /\ acked \subseteq Requests
    /\ phase \in [Processes -> {"down", "creating", "seeding", "serving"}]
    /\ memory \in [Processes -> [fixes : SUBSET Findings, branches : SUBSET Findings]]
    /\ pool \in [Connections -> [user : Threads \cup {None}, tenant : Tenants \cup {None}]]
    /\ pc \in [Threads -> Calls \cup {"walk", "switch", "idle"}]
    /\ DOMAIN req = Threads
    /\ \A t \in Threads : IF pc[t] = "idle" THEN req[t] = None ELSE req[t] \in Requests
    /\ served \in 0..MaxRequests

\* A connection works for one thread of its own process, in the middle of a call,
\* with that request's tenant set; a thread has one at most; and a connection that
\* is free carries no tenant and is there for the next request, however the call
\* before it ended (persistence.transaction).
ConnectionsAreScoped ==
    \A c \in Connections :
        LET t == pool[c].user
        IN  IF t = None THEN pool[c].tenant = None
            ELSE /\ Owner[c] = Home[t] /\ pc[t] \in Calls
                 /\ pool[c].tenant = Tenant(t)
                 /\ \A d \in Connections : pool[d].user = t => d = c

\* The id of the row a request is about.
IdOf(r) == <<r.n, IF r.op = "fix" THEN "remediation" ELSE r.op>>

\* What a request was told is done is in the database with its audit event, under
\* its own tenant, whichever calls fail and whenever processes stop; no event is
\* there without the record (each handler saves first, audits, then answers).
AcknowledgedIsStored ==
    /\ acked \subseteq trail
    /\ \A r \in trail : \E row \in rows :
          /\ row.id = IdOf(r)
          /\ row.tenant = r.finding.tenant
          /\ r.op # "fix" => row.type = r.op /\ row.payload = [of |-> r.op, finding |-> r.finding]

\* A branch that was acknowledged can be made a pull request, by every process and
\* after every restart: the request is not refused with 409 (mvp_pull_request falls
\* back on the stored records).
BranchesOutliveProcesses ==
    \A t \in Threads :
        (/\ pc[t] = "lookup" /\ req[t].op = "pull_request"
         /\ \E r \in acked : r.op = "branch" /\ r.finding = F(t)) => BranchStored(t)

Audited == INSTANCE AuditedWork WITH
    Places <- {"database"},
    Volatile <- {},
    Tenants <- {f.tenant : f \in Findings},
    kept <- [p \in {"database"} |-> {[id |-> r.id, tenant |-> r.tenant, type |-> r.type] : r \in rows}],
    evidence <- {IdOf(r) : r \in trail},
    promised <- [p \in {"database"} |-> {IdOf(r) : r \in acked}]

\* Seen from outside, all processes together do audited work in one place that never
\* loses any: pools, start-ups and stops never show, a row keeps its
\* tenant and type although ids alone are the key, and no event or answer is ahead of its row.
ImplementsAuditedWork == Audited!Spec

\* On a database without the schema no demo process serves, and although production
\* processes do, no request gets past its first statement: nothing is stored,
\* audited, answered with success or left in the dicts of a process.
NothingWithoutSchema ==
    ~schema =>
        /\ \A p \in Demo : phase[p] # "serving"
        /\ rows = {} /\ trail = {} /\ acked = {}
        /\ \A p \in Processes : memory[p] = Empty
        /\ \A t \in Threads : pc[t] \in {"idle", "find", "record"}
=============================================================================
