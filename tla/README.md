# A verification project for PNC Vuln AI

TLA+ models of the platform's API process and its remediation pipeline, TLC
configurations that check them on small instances, and TLAPS proofs of the
properties that matter most. Every definition follows the Python source; the
file `PROJECT.json` names the lines each definition stands for.

## 1. The system

The program is a FastAPI process (`backend/app`), an Angular page
(`frontend/src/app`) and a PostgreSQL schema (`database`). All state lives in
the API process, in memory, or behind the SQL adapters in PostgreSQL; the mode
is fixed at start (`main.py:54`).

Every handler that changes something is a plain `def`. FastAPI runs each request
on a worker thread, so any two handlers may interleave, and no code takes a lock.
`require_principal` is the exception: a coroutine, it runs on the event loop.

| Part | State | Operations | What is hard | What must hold |
|---|---|---|---|---|
| Finding lifecycle (`main.py`, `repository.py`, `sql_repository.py`, `workflow.py`) | the list of findings, the audit trail | import a report, scan a directory, request bulk remediation, decide an approval | a handler reads rows once and changes them one by one while others run; rows with the same id; a status change and its event are two calls; the SQL adapter lacks methods of the port | a changed status has an event that accounts for it, reviewers alone decide, a tenant changes only findings under ids it submitted, every request is answered |
| Remediation pipeline (`vulnerability_classification.py`, `remediation.py`, `validation.py`, `agent_graph.py`) | none: functions of a batch | classify, plan, validate, in batches | look-ups by id in a batch with repeated ids; capped and rounded scores; two callers that decide separately | priorities are monotone and survive a second scoring; the callers agree; with distinct ids a verdict is a finding's own |
| AI engine (`ai_engine.py`) | a dict of workflows per process | create, list, get | read, check, compute and store are separate steps; the audit insert may fail afterwards; a batch with one id twice; replicas and restarts | workflows only over findings of the tenant; an acknowledged workflow is stored and in the trail |
| Demo accounts (`auth.py`, `security.py`) | a dict of accounts per process | register, log in, resolve a header | check-then-insert on threads; ids made from the size of the dict; a walk of the dict on the event loop | built-in accounts stand; no registration gives the administrator's role; an accepted account keeps its identity |
| Local remediation (`mvp.py`) | records of fixes, branches, pull requests, tickets; one Git working tree | fix, ticket, branch, pull request | one working tree, index and checked-out branch for all requests; Git commands whose outcome is ignored; the file is read early and written whole later, after it was emptied; records kept by the finding's id alone | what is written is on record; a pull request's branch exists; records have their events; fixes made one after the other add up |
| MVP record store (`mvp_repository.py`) | rows of `pnc.mvp_read_models` | save, list | a second write after the one in memory; two records under one id; stops between the writes | what was acknowledged is stored with its event; every process finds an acknowledged branch |
| Sessions and start-up (`persistence.py`, `database.py`) | connection pool, each connection's tenant setting, schema | transaction, initialise | pool exhaustion, a connection that changes hands between tenants, a start-up that cannot create the schema, processes that serve without looking for it | a connection works for one request under its tenant; nothing is stored, audited or acknowledged without the schema |
| Browser (`api.service.ts`, pages, `auth.service.ts`) | cached observables, page fields, `localStorage` | load, mutate, invalidate, log in and out | answers in another order than requests; lost answers; caches that outlive a session | a cached list is not older than a known change; a decided item leaves the queue; what is shown was asked for last |
| Celery tasks, Jira port, agent catalogue, settings | none that anything uses | - | nothing enqueues or calls them | not modelled |

The parts meet in four places: the pipeline is called by the engine and by the
bulk workflow class; the engine, the MVP slice and the lifecycle handlers read
the same finding repository through `tenant_rows`; all of them append to the
same audit trail as their last call; and the browser sees what they change
through answers whose order nobody guarantees.

## 2. Modules

| Module | Role |
|---|---|
| `GovernedStatus` | abstract specification: what the API promises about a finding's status |
| `AuditedWork` | abstract specification: what an acknowledgement promises, wherever the work is kept |
| `FindingLifecycle` | the four handlers over either repository; implements `GovernedStatus` in demo mode |
| `FindingLifecycleProofs` | proofs about `FindingLifecycle`, the refinement included |
| `Pipeline`, `PipelineProofs` | the pipeline's functions as operators, and lemmas about them |
| `PipelineBatch` | their properties, over every batch that can be built from a set of findings |
| `PipelineBatchProofs` | proofs about `PipelineBatch` |
| `EngineWorkflows`, `EngineWorkflowsProofs` | engine workflows on several processes over one database; extends `Pipeline`, implements `AuditedWork` |
| `Accounts`, `AccountsProofs` | demo accounts and the identity of a request |
| `MvpRemediation`, `MvpRemediationProofs` | fix, ticket, branch and pull-request calls over a Git working tree |
| `RecordStore`, `RecordStoreProofs` | the same calls outside demo mode: several processes, their start-up and connection pools, one database; implements `AuditedWork` |
| `Browser`, `BrowserProofs` | one browser tab: cached lists, pages, session, and answers in any order |
| `MC...` | the constants of a small instance, for TLC |

Definitions named `...` with a comment "Mutant:" are the faulty variants against
which each property was tested; no specification uses them.

### FindingLifecycle

`rows` is the repository's list (a submitted finding with its current status),
`audit` the trail, `apps` the application records of scans. Each thread `t` has a
program counter `pc[t]`, the request `req[t]`, the position `pos[t]` in a
submitted list and `todo[t]`, the rows of a bulk request's snapshot still to be
updated. One step is one repository or audit call:

- `ReceiveImport`, `SeedFinding`, `RejectForeign`, `FinishSeeding`: `import_scan`,
  which seeds finding by finding and stops at the first of another tenant;
- `ReceiveScan`, `SaveApplication`: `mvp_scan` with `LocalSecurityMvp.scan`, whose
  findings have fresh ids and the caller's tenant;
- `ReceiveBulk`, `ReadMatches`, `ReviewFinding`, `FinishBulk`:
  `request_bulk_remediation`: one read, then `update_status` by bare id;
- `ReceiveDecision`, `FindDecided`, `RejectUnknown`, `DecideFinding`:
  `decide_approval`;
- `AppendAudit`: the last call of each handler;
- `MissingMethod`, `DatabaseFails`: what ends a request outside demo mode. `Port`
  is the set of methods the adapter has.

`UpdateStatus` changes the first row with an id, as the list search does;
`Listed` is every row of the tenant in memory and the newest `ListLimit` in SQL.
`ApprovalQueue` is what `list_approvals` answers. `overlapped` is a history variable:
whether two requests were ever served at the same time.

Ids come with the submitted findings, and `import_scan` looks only at their tenant, so
two tenants may submit findings under one id. The first row with the id is then the one
that every later request for it changes, whichever tenant's it is (`main.py:294`,
`repository.py:24`). `Holders(id)` is the set of tenants that have submitted a finding
under an id; what can be promised about a change is promised of them.

`GovernedStatus` knows neither rows nor duplicates nor snapshots: a finding has a
status and its holders, a worker has a desk with the entry it owes and whether the request has
been granted. The mapping (`StatusOf`, `DeskOf`) takes the status of the first row with an id, the desk
from `pc` and `req`, the holders from the rows, and the log from `audit`.

### AuditedWork

One promise, kept in several places by the code. Work is done under an id that is nobody
else's and for one tenant (`Do`), its event is in the trail when it is acknowledged
(`Acknowledge`), and it stays as it is where it was acknowledged until that place loses
all it has (`Lose`), which only a volatile place does. For `EngineWorkflows` the places
are the processes, all volatile, and the work is the workflows in their dicts with
their findings and status; for `RecordStore` the one place is the database, which is
not, and the work is its rows without their payload (which the knowledge entry of a
fix may replace, section 5). The dicts of `MvpRemediation`'s one process are a third
place, where a piece of work is an operation on a finding's id, since that is the key of
the dicts; `MvpRemediationProofs` states and proves that. No module says so itself: that an
id is fresh, that an acknowledged row is still there and that only a restart empties a
dict depends on counters, transactions and the order of calls.

### Pipeline and PipelineBatch

Scores are integers in hundredths (the code rounds to two decimals and its
increments are 0.50 and 0.75, so hundredths are exact). A CVE, a CWE or a name is
present or absent; categories are the literal ones the code distinguishes.
`Plan`, `Validate`, `PlanBatch`, `ValidateBatch`, `EngineStatus` and `BuildGraph`
are the functions of the same name or purpose; a dictionary built in a loop is the
last element with an id (`IsLast`). `PipelineBatch` has the batch as its state, so
each property is about all batches.

### EngineWorkflows

`rows` is the shared table, `store[r]` the dict of process `r`, `trail` the shared
audit table. `SelectFindings`, `CreateWorkflow`, `AppendAudit` are the three steps
of `create_engine_workflow`. The newest `ListLimit` rows of the tenant are a set, and a batch is any order of
those selected, as `created_at` may be shared. The table's key is the id with
`discovered_at`, so a batch may hold an id twice; the plan of the
last finding with the id then serves for all of them (`validation.py:53`), and the gate
depends on the order.
`DatabaseFails` is a transaction of the first or the
last that is rolled back. `ReceiveList` notes the dict that a list call starts to
walk and `BreakList` is the `RuntimeError` when it grew meanwhile. `Restart`
empties a process. Findings come from outside (`ImportFinding`): the SQL adapter
cannot seed any.

### Accounts

`users` is `DEMO_USERS`. `CheckEmail`, `ChooseId`, `InsertAccount` are the steps of
`register` between which another thread may run; `BeginResolve`, `FinishResolve`,
`BreakResolve` are `require_principal`'s walk of the dict. `Restart` starts the
process again. `accepted` (what was answered with 201) and `overlapped` (whether
two registrations ever ran at the same time) are history variables.

### MvpRemediation

The records are those of `LocalSecurityMvp` without a store, the local mode. Git
is external: `tree`, `index`, `head` and `tip` are what the four commands of
`create_branch` read and write; nobody else uses the working tree. Of a file's content the model keeps what the rewritings look for: the
literals of `str.replace` in the code and in the file's first quoted string (`code`,
`first`), whether there is a quoted string, how often it has been replaced (`nested`),
and whether the text is whole. `Unliteral` removes a literal wherever it stands and
changes nothing without one; `Nest` is the rule for secrets, whose `re.sub` with
`count=1` replaces the file's first quoted string, also the one an earlier call has put
there. `write_text` is two steps: `TruncateFile` opens the file and leaves a part of the
text (`Pieces`), `WriteFile` finishes; `WriteFails` is an `OSError` before the one or
between the two, which leaves the file cut short. In between other threads read, stage
and commit that part. Two threads that have had one file open together (`torn`) leave a
mixture. `AddFile` and `CommitIndex`
may silently do nothing (`check=False`), `SwitchBranch` stays where it is when the
branch exists. The lookup that `mvp_branch` starts with fails whenever there is a
record, because the record's keys are passed twice (`LookUpFails`). When there is none
it walks the records a second time, and may then find one that another thread has
inserted since, with whose fix it goes on (`WalkFinds`). The dicts of branches, pull
requests and tickets have one entry for a finding's id, whichever tenant made it.

### RecordStore

The MVP calls with `SqlMvpRepository` as store. `rows` and `trail` are the tables,
`memory[p]` the dicts of process `p`'s `LocalSecurityMvp`, `pool` the connections
with the thread that uses each and its `app.tenant_id`. Every repository or audit
call is a transaction: `Begin` takes a connection, the call's own action commits and
gives it back, `StatementFails` rolls back, `GiveUp` is the pool's time-out. `Saved`
is the insert with its conflict clause: the id is the key, the payload is replaced
only for the same tenant, the type is kept. A finding read from SQL has no
`file_name`, so no source is read and nothing is committed; of Git only whether
`git switch` succeeds is left. `FindFinding` is `mvp_finding` with what follows it
without a call; the operation `application` is a scan of a directory without matches,
the only scan the SQL adapter can complete (it cannot seed). `WalkRemediations` is the
second part of a branch request's lookup, in the dict of the process.

Processes in `Demo` run with `APP_ENV=demo`, the others with `production`.
`LookForSchema`, `RejectFirstScript`, `RunScripts` and `ScriptsFail` are
`initialize_demo_database`. The first script has a `%I`
(`database/001_initial_schema.sql:34`), which psycopg refuses as a
placeholder, so a start-up that finds no schema fails; one that finds it runs the other
scripts and may fail for another reason. A production process serves without looking
(`ServeUnlooked`). The schema is made by `Migrate`, an operator's act, at any time or
never. `Stop` ends a process with its dicts, its connections and its requests; it may
start again or not.

### Browser

`calls` holds every HTTP call of the tab in the order sent, with its state at the
server; `answered` is the order in which the answers came. `Load` is what opening or
refreshing a page subscribes to: a cached observable replays its answer or its
pending call, and one that failed is sent again (`Usable`, `shareReplay`). `Deliver`
runs the taps (`Invalidates`) whether or not the page is still there, and changes
`shown` and `items` only if its component still waits (`awaited`). The server is
reduced to the findings in review and a counter of changes: every account has the
one demo tenant, so caches that outlive a log-out are stale and never foreign.

## 3. Runs

| Run | Setting and bounds | What it shows |
|---|---|---|
| `lifecycle` | demo mode, 2 threads, 2 tenants, an analyst and a reviewer, 3 finding ids, reports with a new finding, with a known one that comes again in review followed by a foreign one, and with a finding of the other tenant under an id that is taken; 3 rows, 2 events | the safety properties of the handlers for any overlap, the approval queue, the refinement of `GovernedStatus`, and that every request is answered; without overlap, that the trail tells a decided finding's status |
| `lifecycle_sql` | SQL adapters, 2 threads, failing statements | nothing takes effect, and no decision is recorded |
| `lifecycle_unaudited` (violation) | as `lifecycle`, 4 rows | a refused import leaves unaudited findings |
| `pipeline` | all batches of up to 2 findings from 240 kinds (4 severities, CVE or none, no, low or high CVSS, 5 categories, 2 ids) | scores, priorities, agreement of the callers, independence of verdicts |
| `pipeline_plan` (violation) | the same | a finding with a CVE whose plan can never enter approval |
| `engine` | 2 processes with 2 and 1 threads, 2 tenants, 4 findings on both sides of the gate, two of them under one id, a list limit of 2, 4 rows, 2 workflows | gating and acknowledgement of workflows, and the refinement of `AuditedWork`, with failures and restarts |
| `accounts` | 2 threads, 3 built-in and 3 typed e-mails (one in two spellings), 2 passwords, 3 acceptances, restarts | what holds of accounts with and without overlapping registrations |
| `mvp` | 2 threads, 3 requests, 2 tenants that share an id, 3 findings in 2 files (two share a branch name, two rewrite the same string, one has no rewriting), Git and file errors, writes seen half done | records, pull requests, events, and accumulated fixes |
| `store` | a demo process with 2 threads on one connection and a production process with one, 3 findings of 2 tenants, 2 requests, a migration at any time or never, any number of stops and failed start-ups | what is acknowledged is stored and found after restarts, connections keep tenants apart, nothing is done without the schema, the refinement of `AuditedWork` |
| `browser` | 2 findings (alike, hence symmetry), 3 calls, any page, log-ins and log-outs, lost calls, answers in any order | freshness of the cached list, the approval queue, the answer shown |
| `mvp_commit` (violation) | one thread | a branch call succeeds without the commit it reports |
| `mvp_lookup` (violation) | one thread | a branch call after a fix call cannot succeed |

Why the bounds are enough. Each hazard needs at most two requests in flight: a
check or a snapshot, a change by another thread, and the use. Two threads give
every such interleaving, and the row, event and request limits leave room for a
third request that sees the result. A batch of two findings is enough for the
pipeline because its look-ups relate two findings that share an id; the proofs
cover any length. `ListLimit` is 1 or 2 so that the cut falls inside the table.
Three engine threads on two processes are the least with both a race inside a
process and a race between processes. Three browser calls are a list, a change and
the list again, the longest pattern a property speaks of; the order of their answers
is free, and the proofs have no limit. In `store` two requests are a branch and its
pull request on two processes, with stops between them; pool exhaustion needs the two
threads over one connection. Three `mvp` requests are a fix that is being written, one
that stages it half done and one that sees the result; its threads are alike, hence the
symmetry. The limits (`MaxRows`, `MaxAudit`, `MaxWorkflows`, `MaxAccepted`,
`MaxRequests`, `MaxBatch`, `MaxCalls`) are guards of the actions that receive a request; no request is received that could reach a limit halfway,
so no handler is cut off by one. Where a behaviour ends only because the bound is
reached the configuration says `CHECK_DEADLOCK FALSE`; in `accounts` deadlock is
checked.

Fairness. One module states any, `FairSpec` of `FindingLifecycle`: weak fairness of
`Serve(t)` for every thread, since a handler that has started runs to its end on its
own thread, waits for nobody and takes no lock; nothing is assumed about requests
arriving. `EveryRequestAnswered` and `MatchedIsReviewed` rest on it. The other modules
check safety. None is assumed of start-up: `deploy/docker-compose.yml` restarts nothing
and on an empty database a demo start-up fails every time, so that processes end up
serving is not promised.

## 4. Proofs

TLAPS checks every theorem to its last leaf, for every value of the constants that
satisfies the named assumptions of the modules. These are the shapes of the constants
and a few facts about the code: no branch of a fix is the branch checked out
at the start (`MvpAssumption`; such names begin with `security/`), a tenant asks for one
of its own findings by an id (the same; `mvp_finding` serves the first), and the built-in
accounts have the ids 1 to 3 (`AccountsAssumption`). Nothing is assumed of the ids of
findings in `FindingLifecycle` and `EngineWorkflows`. `DesksAssumption` says that the
requests and desk entries of the mapping are not `None`. No proof depends on the size
of a bound.

`FindingLifecycleProofs`. The inductive invariant is `Inv`, the conjunction of `Safe`
(the types, and `RequestOK`: which request a thread may hold at which step, and that a
decision is only ever served for a reviewer), `SnapshotHolds`, `StatusExplained` and
`SqlUntouched`. `StatusExplained` alone is not inductive: when a thread appends its
event and becomes idle, one needs to know that the event it owed is the one that
explains the row, which takes the types and `RequestOK`; and a bulk update by bare id
only touches a row whose id the requester's tenant has submitted because of
`SnapshotHolds` (`Holders` never shrinks). From it follow

- `TypeCorrect`, `StatusAlwaysExplained`, `SnapshotAlwaysHolds`: the invariants of the
  runs, for any number of threads;
- `ChangesAlwaysStayWithHolders`: the action property, from the invariant in the state
  before the step;
- `SqlHasNoEffect`: in SQL mode nothing changes;
- `DecisionAlwaysClearsQueue`: a further invariant, `DuplicatesAsSubmitted`, says that
  every row but the first with its id has the status it was submitted with, so what
  remains in the queue after a decision came in review;
- `LastDecisionAlwaysStands`: the invariant `Serial`, for as long as no requests
  overlapped: `OneAtATime` (at most one thread is busy), a thread about to append a
  decision has just made it (`Shows`), and the last decision on a finding in the trail
  still shows unless another is about to be appended or a remediation was requested
  since (`ReadBack`);
- `ScanEvidenceHolds`: in demo mode, by counting (`Evidence`): a tenant's
  applications are as many as its scans' events and the scans about to append one.

Its last part proves `GovernedStatusIsImplemented`: in demo mode every
step of the handlers is, under the mapping, a step of `GovernedStatus` or a stutter.
The status of an id is that of its first row, whose existence is `FirstExists` (a
nonempty set of naturals has a least element: the library's well-foundedness of
`Nat`). For each action one step says what it does to the mapped status (`SeenStatus`)
and to the holders (`SeenHolders`), and one what it does to the desks (`SeenDesk`).

Three theorems say what no run can, or what remains true where a run finds a violation:

- `UniformImportsAreAudited`: if no submission mixes tenants (`Uniform`), then
  `MutationsAudited`, which `lifecycle_unaudited` shows violated, holds in both modes.
  `RowsTraced` is the invariant: a row a request left has an event of its tenant, or a
  request of that tenant that has begun to seed and will not be refused any more;
  `SeededOwn` says that what a thread has seeded so far is of its own tenant, so with
  `Uniform` the rest is too.
- `HandlersAdvance`: the safety half of `EveryRequestAnswered`. Every step belongs to one
  thread; the steps of a handler go down in `Stage` or, inside a loop, in `Left`, which is
  always a natural number, and no step sets another request back. That a step is taken at
  all is the fairness that TLC assumes.
- `DecisionsAreAlwaysAccountable`: a decision in the trail is a reviewer's, on a finding
  of the tenant it is recorded for, although the role is looked at on arrival only and
  the finding before the update only.

`PipelineBatchProofs`. The invariant `BatchInv` only says that the batch is a
sequence of findings; the rest is lemmas of `PipelineProofs` about the functions. They
bound the scores, say that an id in a batch has a last finding (`LastExists`, by the
library's well-foundedness of `Nat`), compute a single verdict (`Verdict`), the finding
that decides for an id (`LookUp`) and what the gate decides on any batch (`Gate`). From
these: `TypeCorrect`, `PriorityIsMonotone`, `RescoringKeepsPriority`,
`CallersAgree`, `VerdictsAreOwn`.

`EngineWorkflowsProofs`. The invariant is `Shape` (the domains of what the argument
needs), `Stored` (ids are counted by `minted`, and each is one workflow of one process),
`Acknowledged` (what was acknowledged is stored and in the trail) and `Serving` (a thread
audits the workflow it has stored). From it `AcknowledgedIsAlwaysRecorded` and
`WorkflowsAreAlwaysKept`. For what workflows are made of, `Gated` is added: `Stocked`
(the table holds findings, under ids that may repeat), `Asked` (a thread about to create
a workflow holds findings of its tenant, and the ids it was asked for: `Chosen`) and `Judged` (so does
every stored workflow, and its status is the gate's). `SelectionIsChosen` shows that any
order of the selection is `Chosen`, by the finiteness of the table; `Gate` says what is
decided on such a batch, repeated ids included. `TypeCorrect`,
`WorkflowsAreAlwaysGated`. `OrderDoesNotMatter` says for batches of any length that the
status does not depend on the order of findings with distinct ids
(`GateOnDistinctIds`); with a repeated id it does. `AuditedWorkIsImplemented` is the refinement:
`CreateWorkflow` is `Do` (its id is above every minted one, and the trail has minted ids
only), `AppendAudit` is `Acknowledge` (the thread audits what it has stored) and a
restart is `Lose`; everything else stutters. `WorkflowsAreAlwaysKept`, the part of it
that speaks of one process, is proved on its own and no longer has a run.

`AccountsProofs`. The invariant is `Registry` (the built-in accounts are in the registry,
so it has at least three entries and every other account is numbered from 7), `Held`
(what a thread holds at each step), `Answered` (nothing was answered with a built-in id
or resolved to the administrator's role by another id), and two parts for as long as no
registrations overlapped: `Alone` (one thread is at work, its e-mail is still free, its
number still the next) and `Distinct` (ids are distinct and below that number, accepted
accounts are stored as answered). `TypeCorrect`, `BuiltInAccountsAlwaysStand`,
`AcceptedAlwaysKeepsIdentity`, `AccountsAlwaysStay`. What overlap leaves true of identity
is `RolesAreAlwaysGranted`: every account was answered to a registration of its e-mail,
nobody accepted drops out of the registry, and no request is given a role that was not
granted to the id it names, although two accounts may share that id.

`MvpRemediationProofs`. `Inv` is `Shape`, `Branched` (records name branches that exist),
`Torn` (only a thread in the middle of a write can have its text mixed with another's)
and `ThreadOK` for every thread (its step fits its request; from the step that records
its fix on, the fix is on record). On it rest `ContentsKnown` (what is in the tree, the
index or a tip is what the repository held, the fixed code of a record for that file, or
a text cut short in such a file), `Audited` (records and events, but for those a thread
is about to append) and, without overlap, `Serial`: one request at a time (`Alone`), and
`Ordered`, which says that a file keeps no literal that is not staged, the index none
that is not on every branch, and a fix still to be written none that is not staged, while
strings are replaced at least as often (`Keeps`). A rewriting and a write cut short both
only take away (`FixedContent`, `PiecesKeep`), which is why `Ordered` survives them.
`TypeCorrect`, `PullRequestsAlwaysHaveBranches`, `ChangesAreAlwaysRecorded`,
`RecordsAreAlwaysAudited`, `FixesAlwaysAccumulate`.

Two theorems are the counterparts of the violations `mvp_commit` and `mvp_lookup`.
`FixesAreAlwaysCommitted` adds to the specification that a write that has begun is
finished and that `git add` and `git commit` do what they are asked (`GitObeys`, an
action formula). Without overlap the working tree, the index and the tip
of the branch checked out agree whenever no request is between its writing and its
commit, and a branch request is answered with its fix on that branch. The invariant
`Settled` says what differs in between. What remains of the violation is that the branch
checked out need not be the one that is named. `OnlyRecordedEverFail`: without overlap
only a remediation on record makes the lookup fail. `AuditedWorkIsImplemented`: under a
mapping that shows the fix, branch, pull request or ticket of an id as one piece of work
each, whatever replaces the record later and whichever tenants share the id, every
behaviour is one of `AuditedWork`; it rests on `Audited`, and no run checks it.

`RecordStoreProofs`. `Typed` is `TypeOK` with `StepOK` (which operations reach which
step). `Ledger` is `NumbersOK` (a request's number, a uuid, is nobody else's), `Progress`
(how far a handler has got with its rows) and the property itself: a record is not
replaced by another request's because of the first, and is there before its event because
of the second. `TypeCorrect`, `NothingIsDoneWithoutSchema` (with `SchemaInv`: scripts
run only on a schema that is there), `ConnectionsAreAlwaysScoped`,
`AcknowledgedIsAlwaysStored`, `BranchesAlwaysOutliveProcesses`, and
`AuditedWorkIsImplemented`: a commit of a row is `Do` for a fresh id (`NumbersOK`) or a
stutter when only a payload changes (`StoredHasId`, `SaveIsWork`), and a commit of an
event that ends in an answer is `Acknowledge`, since by `Progress` its row is there.

`BrowserProofs`. `Base` is the types and that an answered call was served or lost.
`Numbered` (no call knows of more changes than were made) carries `CacheIsFresh`;
`Visited` (a page waits for the calls it made, makes only its own, shows an answer)
carries `LastAskedIsShown`; `Decided` and `Queue` (a decided finding is in review, or in
a queue asked for after the decision was answered, only after a later bulk request; the
items are of the queue shown, without what was decided since) give `DecidedLeavesQueue`.
`TypeCorrect`, `CacheIsAlwaysFresh`, `LastAskedIsAlwaysShown`,
`DecidedAlwaysLeavesQueue`.

Only model-checked: liveness, for which the prover has no support
(`EveryRequestAnswered`, `MatchedIsReviewed`); `HandlersAdvance`
is the part of the first that is safety.

The hypotheses some theorems add are named in them: `DemoMode` (the mode is a constant
of a process), `Uniform` (a report of one tenant's findings, the normal one) and
`GitObeys`. Each is what the violated property lacks, and none is assumed elsewhere.

## 5. Where the code and its documentation part

Shown by a run:

1. An import that is refused at a foreign finding keeps what it seeded before, with
   no event (`main.py:147`), although "All mutations emit audit events"
   (`README.md:35`): `lifecycle_unaudited`.
2. A comment at `vulnerability_classification.py:38` says a known CVE suffices for a
   reviewable plan; the plans of injection and web findings never name a build check
   (`validation.py:27`), so a workflow with one is always blocked: `pipeline_plan`.
3. `create_branch` reports success whether or not the commit happened or the branch
   was switched to (`mvp.py:150`): `mvp_commit`.
4. `remediation_for_finding` raises whenever there is a record (`mvp.py:71`), so
   "Generate fix" followed by "Branch" always ends in a 500: `mvp_lookup`.

Noted while modelling, without a run of its own:

- Outside demo mode the SQL adapter has neither `seed` nor `update_status`
  (`main.py:62`), although the port is described as replaceable (`repository.py:8`).
  `NothingTakesEffect` states what follows from it.
- Two tenants may import findings under one id, and a decision or a bulk request of the
  second changes the first one's row (`repository.py:24`). The properties of
  `FindingLifecycle` promise only that a change comes from a tenant that has submitted
  the id (`Holders`).
- With an id twice in a batch the plan of the last finding serves for both
  (`validation.py:53`): an earlier critical finding without a CVE passes behind a later
  one with a CVE. `WorkflowsAreGated` says so.
- On an empty database a start-up with `APP_ENV=demo` always fails
  (`001_initial_schema.sql:34`, `RejectFirstScript`); a production process serves
  without a schema, and its requests end in a 500.
- A file cut short by a failing or concurrent write (`mvp.py:148`) may be staged and
  committed, and two writers may leave a mixture; `ChangesAreRecorded` allows for both.
- Overlapping fixes of one file undo each other, as each is made from the file as it was
  read (`mvp.py:120`, `mvp.py:148`); `FixesAccumulate` speaks of requests that did not
  overlap.
- The rule for secrets replaces the file's first quoted string, whatever it is, again on
  every call (`mvp.py:127`).
- Branches, pull requests and tickets are kept by the finding's id alone
  (`mvp.py:152`), so two tenants with one id replace each other's. A fix made by a branch
  call and its knowledge entry have no audit event.
- `README.md:31` says the local demo does not read local paths or modify
  repositories; `mvp.py` does both.
- Overlapping registrations of one e-mail are both accepted, and overlapping
  registrations can share an id; this is why `AcceptedKeepsIdentity` and
  `AccountsStay` speak of registrations that did not overlap.
- Dictionaries walked while another thread inserts raise `RuntimeError`
  (`ai_engine.py:89`, `security.py:25`, `mvp.py:61`): `BreakList`, `BreakResolve`,
  `LookUpFails`, `WalkBreaks`, `OpenFails`.
- Workflows, accounts and local records are lost with their process.
- The knowledge entry of a fix is saved under the id of its remediation record
  (`mvp.py:133`), which is the table's key: it replaces the record's payload, and every
  later branch call of the tenant ends in a 500 (`SaveKnowledge`, `Unreadable`).
- Findings read from SQL have no `file_name`, so with SQL adapters every fix is "Source
  unavailable" and a branch gets no commit.
- The API image does not contain `database/`, so start-up with `APP_ENV=demo` fails in a
  container.
- A finding submitted again in review stays in the approval queue whatever is decided
  (`DecisionClearsQueue` makes the exception).
- `DashboardStore.loading` is not reset after an error; `createEngineWorkflow` of
  `api.service.ts` is called by no page; its caches are kept across log-outs.

## 6. Not modelled, and why

Read models return a view of `rows` and change nothing; only the approval queue has
properties. Pages that make one read per visit and show it are left to the routes of
`Browser`, as are the fix page's lists of branches and tickets. The Celery tasks return a
constant and nothing enqueues them; the Jira client, `run_safe_agent`, the SQL
adapter's `get`, `create`, `update` and `delete` have no caller. Stack detection
and the file scanner's matching are pure I/O; the scan's effect is `ReceiveScan`.
The production branch of `require_principal` trusts headers a gateway has verified
and keeps no state. Response bodies, explanations, dates and names are left out
unless a property tells them apart. The SQL scripts are data definitions: of them only
the first one's `%I` matters. That dictionary walks may break
(`ai_engine.py:89`, `security.py:25`) is in the models, but no document promises those
answers, so no property forbids it. Except where `Restart` or `Stop` is an action, a
behaviour is one process lifetime.
