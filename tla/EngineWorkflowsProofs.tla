----------------------- MODULE EngineWorkflowsProofs ------------------------
(***************************************************************************)
(* Proofs about EngineWorkflows for any number of processes, threads,      *)
(* findings and workflows: first what is stored, acknowledged and audited, *)
(* for which the findings of a workflow do not matter; then what those     *)
(* findings are and that the gate decided on them.                         *)
(***************************************************************************)
EXTENDS EngineWorkflows, PipelineProofs, FiniteSetTheorems

(***************************************************************************)
(* The inductive invariant.                                                *)
(***************************************************************************)
Shape ==
    /\ DOMAIN store = Replicas /\ DOMAIN acked = Replicas
    /\ DOMAIN pc = Threads /\ DOMAIN req = Threads /\ DOMAIN held = Threads
    /\ minted \in Nat

\* Ids are numbered by minted, and each belongs to one workflow of one process.
Stored ==
    /\ \A r \in Replicas : \A w \in store[r] :
          w.id \in 1..minted /\ \E p \in Principals : p.tenant = w.tenant
    /\ \A r, s \in Replicas : \A v \in store[r], w \in store[s] : v.id = w.id => r = s /\ v = w

Acknowledged ==
    \A r \in Replicas : \A id \in acked[r] : id \in trail /\ \E w \in store[r] : w.id = id

\* A thread serves a caller, and audits the workflow it has stored.
Serving ==
    \A t \in Threads :
        /\ pc[t] \in {"read", "create"} => req[t].by \in Principals
        /\ pc[t] = "audit" => held[t].made \in store[Home[t]]

Inv == Shape /\ Stored /\ Acknowledged /\ Serving

\* A step that leaves what is stored and acknowledged alone, and moves thread t to
\* a step from which it audits nothing.
LEMMA QuietStep ==
    ASSUME Inv, NEW t \in Threads, UNCHANGED <<store, trail, minted, acked>>,
           DOMAIN pc' = Threads, DOMAIN req' = Threads, DOMAIN held' = Threads,
           \A u \in Threads \ {t} : pc'[u] = pc[u] /\ req'[u] = req[u] /\ held'[u] = held[u],
           pc'[t] # "audit", pc'[t] \in {"read", "create"} => req'[t].by \in Principals
    PROVE  Inv'
<1>1. Shape' /\ Stored' /\ Acknowledged'
  BY DEF Inv, Shape, Stored, Acknowledged
<1>2. ASSUME NEW u \in Threads
      PROVE  /\ pc'[u] \in {"read", "create"} => req'[u].by \in Principals
             /\ pc'[u] = "audit" => held'[u].made \in store'[Home[u]]
  BY DEF Inv, Serving
<1> QED BY <1>1, <1>2 DEF Inv, Serving

LEMMA AnswerStep ==
    ASSUME Shape, NEW t \in Threads, Answer(t)
    PROVE  /\ DOMAIN pc' = Threads /\ DOMAIN req' = Threads /\ DOMAIN held' = Threads
           /\ \A u \in Threads \ {t} : pc'[u] = pc[u] /\ req'[u] = req[u] /\ held'[u] = held[u]
           /\ pc'[t] = "idle"
BY DEF Shape, Answer, GoTo

Kept ==
    /\ \A r \in Replicas : store[r] \subseteq store'[r] \/ store'[r] = {}
    /\ \A r, s \in Replicas : \A v \in store'[r], w \in store'[s] : v.id = w.id => r = s /\ v = w
    /\ \A id \in trail' \ trail : \E r \in Replicas : \E w \in store[r] : w.id = id

\* The new workflow has an id of its own.
LEMMA CreateStep ==
    ASSUME Inv, NEW t \in Threads, CreateWorkflow(t)
    PROVE  Inv' /\ Kept
<1> DEFINE h == Home[t]
           new == [id |-> minted', tenant |-> req[t].by.tenant, asked |-> req[t].ids,
                   findings |-> held[t].selected, status |-> EngineStatus(held[t].selected)]
<1>1. h \in Replicas
  BY EngineAssumption
<1>2. /\ pc[t] = "create" /\ minted' = minted + 1 /\ UNCHANGED <<rows, trail, req, acked>>
      /\ store' = [store EXCEPT ![h] = store[h] \cup {new}]
      /\ held' = [held EXCEPT ![t] = [made |-> new]]
      /\ GoTo(t, "audit")
  BY DEF CreateWorkflow
<1>3. new.id = minted' /\ \E p \in Principals : p.tenant = new.tenant
  BY <1>2 DEF Inv, Serving
<1> HIDE DEF new, h
<1>4. DOMAIN store' = Replicas /\ store'[h] = store[h] \cup {new} /\ \A r \in Replicas \ {h} : store'[r] = store[r]
  BY <1>1, <1>2 DEF Inv, Shape
<1>5. /\ DOMAIN pc' = Threads /\ DOMAIN held' = Threads /\ pc'[t] = "audit" /\ held'[t].made = new
      /\ \A u \in Threads \ {t} : pc'[u] = pc[u] /\ held'[u] = held[u]
  BY <1>2 DEF Inv, Shape, GoTo
<1>6. Shape'
  BY <1>2, <1>4, <1>5 DEF Inv, Shape
<1>7. \A r \in Replicas : \A w \in store'[r] : (w = new /\ r = h) \/ w \in store[r]
  BY <1>4
<1>8. \A r \in Replicas : \A w \in store[r] : w.id \in 1..minted /\ w.id # new.id
  BY <1>2, <1>3 DEF Inv, Shape, Stored
<1>9. Stored'
  <2>1. \A r \in Replicas : \A w \in store'[r] : w.id \in 1..minted' /\ \E p \in Principals : p.tenant = w.tenant
    BY <1>2, <1>3, <1>7 DEF Inv, Shape, Stored
  <2>2. ASSUME NEW r \in Replicas, NEW s \in Replicas, NEW v \in store'[r], NEW w \in store'[s], v.id = w.id
        PROVE  r = s /\ v = w
    BY <1>7, <1>8, <2>2 DEF Inv, Stored
  <2> QED BY <2>1, <2>2 DEF Stored
<1>10. \A r \in Replicas : store[r] \subseteq store'[r]
  BY <1>4
<1>11. Acknowledged'
  BY <1>2, <1>10 DEF Inv, Acknowledged
<1>12. ASSUME NEW u \in Threads
       PROVE  /\ pc'[u] \in {"read", "create"} => req'[u].by \in Principals
              /\ pc'[u] = "audit" => held'[u].made \in store'[Home[u]]
  <2>1. CASE u = t
    BY <1>4, <1>5, <2>1 DEF h
  <2>2. CASE u # t
    <3>1. Home[u] \in Replicas
      BY EngineAssumption
    <3> QED BY <1>2, <1>5, <1>10, <2>2, <3>1 DEF Inv, Serving
  <2> QED BY <2>1, <2>2
<1>13. Serving'
  BY <1>12 DEF Serving
<1>14. Kept
  BY <1>2, <1>9, <1>10 DEF Kept, Stored
<1> QED BY <1>6, <1>9, <1>11, <1>13, <1>14 DEF Inv

LEMMA AuditStep ==
    ASSUME Inv, NEW t \in Threads, AppendAudit(t)
    PROVE  Inv' /\ Kept
<1> DEFINE h == Home[t]
           id == held[t].made.id
<1>1. h \in Replicas
  BY EngineAssumption
<1>2. /\ pc[t] = "audit" /\ trail' = trail \cup {id} /\ acked' = [acked EXCEPT ![h] = acked[h] \cup {id}]
      /\ Answer(t) /\ UNCHANGED <<rows, store, minted>>
  BY DEF AppendAudit
<1>3. \E w \in store[h] : w.id = id
  BY <1>2 DEF Inv, Serving
<1> HIDE DEF h, id
<1>4. DOMAIN acked' = Replicas /\ acked'[h] = acked[h] \cup {id} /\ \A r \in Replicas \ {h} : acked'[r] = acked[r]
  BY <1>1, <1>2 DEF Inv, Shape
<1>5. Shape' /\ Stored'
  BY <1>2, <1>4, AnswerStep DEF Inv, Shape, Stored
<1>6. Acknowledged'
  BY <1>2, <1>3, <1>4 DEF Inv, Acknowledged
<1>7. Serving'
  BY <1>2, AnswerStep DEF Inv, Serving
<1>8. Kept
  BY <1>1, <1>2, <1>3 DEF Kept, Inv, Stored
<1> QED BY <1>5, <1>6, <1>7, <1>8 DEF Inv

\* A restart takes the requests of the process with what it stored.
LEMMA RestartStep ==
    ASSUME Inv, NEW r \in Replicas, Restart(r)
    PROVE  Inv' /\ Kept
<1>1. /\ store' = [store EXCEPT ![r] = {}] /\ acked' = [acked EXCEPT ![r] = {}]
      /\ UNCHANGED <<rows, trail, minted>>
      /\ DOMAIN pc' = Threads /\ DOMAIN req' = Threads /\ DOMAIN held' = Threads
      /\ \A u \in Threads : \/ Home[u] = r /\ pc'[u] = "idle"
                            \/ Home[u] # r /\ pc'[u] = pc[u] /\ req'[u] = req[u] /\ held'[u] = held[u]
  BY DEF Restart
<1>2. /\ DOMAIN store' = Replicas /\ store'[r] = {} /\ \A s \in Replicas \ {r} : store'[s] = store[s]
      /\ DOMAIN acked' = Replicas /\ acked'[r] = {} /\ \A s \in Replicas \ {r} : acked'[s] = acked[s]
  BY <1>1 DEF Inv, Shape
<1>3. Shape'
  BY <1>1, <1>2 DEF Inv, Shape
<1>4. \A s \in Replicas : \A w \in store'[s] : w \in store[s]
  BY <1>2
<1>5. Stored'
  BY <1>1, <1>4 DEF Inv, Stored
<1>6. Acknowledged'
  BY <1>1, <1>2 DEF Inv, Acknowledged
<1>7. Serving'
  BY <1>1, <1>2, EngineAssumption DEF Inv, Serving
<1>8. Kept
  BY <1>1, <1>2, <1>5 DEF Kept, Stored
<1> QED BY <1>3, <1>5, <1>6, <1>7, <1>8 DEF Inv

\* The other steps of a thread.
LEMMA ThreadStep ==
    ASSUME Inv, NEW t \in Threads,
           \/ ReceiveCreate(t) \/ SelectFindings(t) \/ RejectMissing(t) \/ DatabaseFails(t)
           \/ ReceiveList(t) \/ FinishList(t) \/ BreakList(t)
    PROVE  Inv' /\ UNCHANGED <<store, trail>>
<1>1. UNCHANGED <<store, trail, minted, acked>>
  BY DEF ReceiveCreate, Receive, SelectFindings, RejectMissing, DatabaseFails, ReceiveList, FinishList, BreakList
<1>2. CASE RejectMissing(t) \/ DatabaseFails(t) \/ FinishList(t) \/ BreakList(t)
  <2>1. Answer(t)
    BY <1>2 DEF RejectMissing, DatabaseFails, FinishList, BreakList
  <2> QED BY <1>1, <2>1, AnswerStep, QuietStep DEF Inv
<1>3. CASE ReceiveCreate(t)
  <2>1. PICK by \in Principals, ids \in Selections : Receive(t, [op |-> "create", by |-> by, ids |-> ids], "read")
    BY <1>3 DEF ReceiveCreate
  <2>2. /\ DOMAIN pc' = Threads /\ DOMAIN req' = Threads /\ DOMAIN held' = Threads
        /\ pc'[t] = "read" /\ req'[t] = [op |-> "create", by |-> by, ids |-> ids]
        /\ \A u \in Threads \ {t} : pc'[u] = pc[u] /\ req'[u] = req[u] /\ held'[u] = held[u]
    BY <2>1 DEF Receive, GoTo, Inv, Shape
  <2> QED BY <1>1, <2>2, QuietStep
<1>4. CASE SelectFindings(t)
  <2>1. /\ pc[t] = "read" /\ GoTo(t, "create") /\ UNCHANGED req
        /\ \E x : held' = [held EXCEPT ![t] = x]
    BY <1>4 DEF SelectFindings
  <2>2. /\ DOMAIN pc' = Threads /\ DOMAIN req' = Threads /\ DOMAIN held' = Threads
        /\ pc'[t] = "create" /\ req'[t].by \in Principals
        /\ \A u \in Threads \ {t} : pc'[u] = pc[u] /\ req'[u] = req[u] /\ held'[u] = held[u]
    BY <2>1 DEF GoTo, Inv, Shape, Serving
  <2> QED BY <1>1, <2>2, QuietStep
<1>5. CASE ReceiveList(t)
  <2>1. /\ GoTo(t, "walk") /\ (\E x : req' = [req EXCEPT ![t] = x])
        /\ \E x : held' = [held EXCEPT ![t] = x]
    BY <1>5 DEF ReceiveList
  <2>2. /\ DOMAIN pc' = Threads /\ DOMAIN req' = Threads /\ DOMAIN held' = Threads
        /\ pc'[t] = "walk"
        /\ \A u \in Threads \ {t} : pc'[u] = pc[u] /\ req'[u] = req[u] /\ held'[u] = held[u]
    BY <2>1 DEF GoTo, Inv, Shape
  <2> QED BY <1>1, <2>2, QuietStep
<1> QED BY <1>1, <1>2, <1>3, <1>4, <1>5

LEMMA InvStep ==
    ASSUME Inv, [Next]_vars
    PROVE  Inv' /\ [Kept]_vars
<1>1. ASSUME UNCHANGED <<store, trail>>
      PROVE  Kept
  BY <1>1 DEF Kept, Inv, Stored
<1>2. CASE UNCHANGED vars
  BY <1>2 DEF Inv, Shape, Stored, Acknowledged, Serving, vars
<1>3. CASE ImportFinding
  <2>1. UNCHANGED <<store, trail, minted, pc, req, held, acked>>
    BY <1>3 DEF ImportFinding
  <2> QED BY <1>1, <2>1 DEF Inv, Shape, Stored, Acknowledged, Serving
<1>4. CASE \E r \in Replicas : Restart(r)
  BY <1>4, RestartStep
<1>5. ASSUME NEW t \in Threads,
             \/ ReceiveCreate(t) \/ SelectFindings(t) \/ RejectMissing(t) \/ DatabaseFails(t)
             \/ ReceiveList(t) \/ FinishList(t) \/ BreakList(t)
      PROVE  Inv' /\ Kept
  BY <1>1, <1>5, ThreadStep
<1>6. ASSUME NEW t \in Threads, CreateWorkflow(t) \/ AppendAudit(t)
      PROVE  Inv' /\ Kept
  BY <1>6, CreateStep, AuditStep
<1> QED BY <1>2, <1>3, <1>4, <1>5, <1>6 DEF Next

LEMMA InvInit ==
    ASSUME Init
    PROVE  Inv
BY DEF Init, Inv, Shape, Stored, Acknowledged, Serving

\* An acknowledged workflow is in the trail and can be fetched by its tenant for as
\* long as its process runs, for any number of processes and failures.
THEOREM AcknowledgedIsAlwaysRecorded == Spec => []AcknowledgedIsRecorded
<1>1. Init => Inv
  BY InvInit
<1>2. Inv /\ [Next]_vars => Inv'
  BY InvStep
<1>3. Inv => AcknowledgedIsRecorded
  <2> SUFFICES ASSUME Inv, NEW r \in Replicas, NEW id \in acked[r]
               PROVE  id \in trail /\ \E p \in Principals : Get(r, id, p.tenant) # {}
    BY DEF AcknowledgedIsRecorded
  <2>1. PICK w \in store[r] : id \in trail /\ w.id = id
    BY DEF Inv, Acknowledged
  <2>2. PICK p \in Principals : p.tenant = w.tenant
    BY DEF Inv, Stored
  <2>3. w \in Get(r, id, p.tenant)
    BY <2>1, <2>2 DEF Get
  <2> QED BY <2>1, <2>3
<1> QED BY <1>1, <1>2, <1>3, PTL DEF Spec

\* No step replaces a workflow or drops one without its whole process, uses an id
\* twice, or audits a workflow that is not stored.
THEOREM WorkflowsAreAlwaysKept == Spec => WorkflowsAreKept
<1>1. Init => Inv
  BY InvInit
<1>2. Inv /\ [Next]_vars => Inv' /\ [Kept]_vars
  BY InvStep
<1>3. [Kept]_vars <=>
         [/\ \A r \in Replicas : store[r] \subseteq store'[r] \/ store'[r] = {}
          /\ \A r, s \in Replicas : \A v \in store'[r], w \in store'[s] : v.id = w.id => r = s /\ v = w
          /\ \A id \in trail' \ trail : \E r \in Replicas : \E w \in store[r] : w.id = id]_vars
  BY DEF Kept
<1> QED BY <1>1, <1>2, <1>3, PTL DEF Spec, WorkflowsAreKept

(***************************************************************************)
(* What a workflow is made of.                                             *)
(***************************************************************************)
\* Findings of the tenant, and the ids asked for.
Chosen(findings, tenant, ids) ==
    /\ findings \in Seq(Findings)
    /\ \A k \in DOMAIN findings : findings[k].tenant = tenant
    /\ ids # {} => {f.id : f \in Range(findings)} = ids

Stocked == rows \in Seq(Findings)

LEMMA SelectionIsChosen ==
    ASSUME Stocked, NEW t \in Threads, MissingIds(t) = {},
           NEW batch \in Orders({k \in RowsOf(req[t].by.tenant) :
                                 req[t].ids = {} \/ rows[k].id \in req[t].ids})
    PROVE  Chosen(batch, req[t].by.tenant, req[t].ids)
<1> DEFINE tenant == req[t].by.tenant
           ids == req[t].ids
           places == {k \in RowsOf(tenant) : ids = {} \/ rows[k].id \in ids}
           n == Cardinality(places)
<1>1. DOMAIN rows = 1..Len(rows) /\ Len(rows) \in Nat /\ \A k \in DOMAIN rows : rows[k] \in Findings
  BY DEF Stocked
<1>2. RowsOf(tenant) \subseteq DOMAIN rows /\ \A k \in RowsOf(tenant) : rows[k].tenant = tenant
  BY DEF RowsOf, Newest
<1>3. places \subseteq DOMAIN rows /\ \A k \in places : rows[k].tenant = tenant
  BY <1>2
<1>4. IsFiniteSet(places) /\ n \in Nat
  <2>1. IsFiniteSet(1..Len(rows))
    BY <1>1, FS_Interval
  <2> HIDE DEF places
  <2> QED BY <1>1, <1>3, <2>1, FS_Subset, FS_CardinalityType
<1>5. ids # {} => \A id \in ids : \E k \in places : rows[k].id = id
  BY DEF MissingIds
<1>6. ids # {} => \A k \in places : rows[k].id \in ids
  OBVIOUS
<1>7. PICK p \in Bijection(1..n, places) : batch = [i \in DOMAIN p |-> rows[p[i]]]
  BY DEF Orders
<1> HIDE DEF places, n, ids, tenant
<1>8. /\ p \in [1..n -> places]
      /\ \A k \in places : \E i \in 1..n : p[i] = k
  BY <1>7 DEF Bijection, Injection, Surjection
<1>9. DOMAIN batch = 1..n /\ \A i \in 1..n : batch[i] = rows[p[i]] /\ p[i] \in places
  BY <1>7, <1>8
<1>10. batch \in Seq(Findings)
  <2>1. batch \in [1..n -> Findings]
    BY <1>1, <1>3, <1>7, <1>8, <1>9
  <2> QED BY <1>4, <2>1
<1>11. \A k \in DOMAIN batch : batch[k].tenant = tenant
  BY <1>3, <1>9
<1>12. ids # {} => {f.id : f \in Range(batch)} = ids
  <2> SUFFICES ASSUME ids # {} PROVE {f.id : f \in Range(batch)} = ids
    OBVIOUS
  <2>1. ASSUME NEW f \in Range(batch) PROVE f.id \in ids
    BY <1>6, <1>9 DEF Range
  <2>2. ASSUME NEW id \in ids PROVE \E f \in Range(batch) : f.id = id
    <3>1. PICK k \in places : rows[k].id = id
      BY <1>5
    <3>2. PICK i \in 1..n : p[i] = k
      BY <1>8
    <3>3. batch[i] \in Range(batch) /\ batch[i].id = id
      BY <1>9, <3>1, <3>2 DEF Range
    <3> QED BY <3>3
  <2> QED BY <2>1, <2>2
<1> QED BY <1>10, <1>11, <1>12 DEF Chosen, ids, tenant

\* With distinct ids every finding is judged by its own plan (validate_batch).
LEMMA GateOnDistinctIds ==
    ASSUME NEW b \in Seq(Findings), \A j, k \in DOMAIN b : b[j].id = b[k].id => j = k
    PROVE  (EngineStatus(b) = "AWAITING_APPROVAL") <=>
              \A k \in DOMAIN b :
                  /\ b[k].category \notin InjectionCategories \cup WebCategories
                  /\ b[k].severity = "CRITICAL" => b[k].cve
<1>1. DOMAIN b \subseteq Int
  OBVIOUS
<1>2. ASSUME NEW k \in DOMAIN b
      PROVE  ValidateBatch(b)[k].passed <=>
                /\ b[k].category \notin InjectionCategories \cup WebCategories
                /\ b[k].severity = "CRITICAL" => b[k].cve
  <2>1. IsLast(b, k, b[k].id)
    BY <1>1 DEF IsLast
  <2> QED BY <1>1, <2>1, Verdict
<1>3. AllValid(b) <=> \A k \in DOMAIN b : ValidateBatch(b)[k].passed
  BY DEF AllValid
<1> QED BY <1>2, <1>3 DEF EngineStatus

\* The status of a workflow does not depend on the order in which its findings were
\* read, which the database does not fix (SqlVulnerabilityRepository.list orders by a
\* column that findings may share): any two orders of findings with distinct ids agree.
THEOREM OrderDoesNotMatter ==
    ASSUME NEW b \in Seq(Findings), NEW c \in Seq(Findings), Range(b) = Range(c),
           \A j, k \in DOMAIN b : b[j].id = b[k].id => j = k,
           \A j, k \in DOMAIN c : c[j].id = c[k].id => j = k
    PROVE  EngineStatus(b) = EngineStatus(c)
<1> DEFINE Passes(f) == /\ f.category \notin InjectionCategories \cup WebCategories
                        /\ f.severity = "CRITICAL" => f.cve
<1>1. (EngineStatus(b) = "AWAITING_APPROVAL") <=> \A f \in Range(b) : Passes(f)
  BY GateOnDistinctIds DEF Range
<1>2. (EngineStatus(c) = "AWAITING_APPROVAL") <=> \A f \in Range(c) : Passes(f)
  BY GateOnDistinctIds DEF Range
<1> HIDE DEF Passes
<1>3. (EngineStatus(b) = "AWAITING_APPROVAL") <=> (EngineStatus(c) = "AWAITING_APPROVAL")
  BY <1>1, <1>2
<1> QED BY <1>3 DEF EngineStatus

\* What a thread works on, and what is stored.
Asked ==
    \A t \in Threads :
        /\ pc[t] \in Steps
        /\ req[t] = None <=> pc[t] = "idle"
        /\ pc[t] \in {"read", "create"} => req[t].ids \in Selections
        /\ pc[t] = "create" => Chosen(held[t].selected, req[t].by.tenant, req[t].ids)

Judged ==
    /\ \A r \in Replicas : \A w \in store[r] :
          /\ Chosen(w.findings, w.tenant, w.asked) /\ w.asked \in Selections
          /\ w.status = EngineStatus(w.findings)
    /\ trail \subseteq 1..minted

Gated == Stocked /\ Asked /\ Judged

\* Steps that store nothing, and leave what the other threads hold alone.
LEMMA UnstoredStep ==
    ASSUME Inv, Gated, NEW t \in Threads, UNCHANGED <<rows, store, minted>>,
           \A u \in Threads \ {t} : pc'[u] = pc[u] /\ req'[u] = req[u] /\ held'[u] = held[u],
           pc'[t] \in Steps, req'[t] = None <=> pc'[t] = "idle",
           pc'[t] \in {"read", "create"} => req'[t].ids \in Selections,
           pc'[t] = "create" => Chosen(held'[t].selected, req'[t].by.tenant, req'[t].ids),
           trail' \subseteq 1..minted
    PROVE  Gated'
<1>1. Stocked' /\ Judged'
  BY DEF Gated, Stocked, Judged
<1>2. ASSUME NEW u \in Threads
      PROVE  /\ pc'[u] \in Steps
             /\ req'[u] = None <=> pc'[u] = "idle"
             /\ pc'[u] \in {"read", "create"} => req'[u].ids \in Selections
             /\ pc'[u] = "create" => Chosen(held'[u].selected, req'[u].by.tenant, req'[u].ids)
  BY DEF Gated, Asked
<1> QED BY <1>1, <1>2 DEF Gated, Asked

LEMMA GatedThreadStep ==
    ASSUME Inv, Gated, NEW t \in Threads,
           \/ ReceiveCreate(t) \/ SelectFindings(t) \/ RejectMissing(t) \/ DatabaseFails(t)
           \/ ReceiveList(t) \/ FinishList(t) \/ BreakList(t) \/ AppendAudit(t)
    PROVE  Gated'
<1>1. UNCHANGED <<rows, store, minted>>
  BY DEF ReceiveCreate, Receive, SelectFindings, RejectMissing, DatabaseFails, ReceiveList, FinishList,
         BreakList, AppendAudit
<1>2. trail \subseteq 1..minted
  BY DEF Gated, Judged
<1>3. CASE RejectMissing(t) \/ DatabaseFails(t) \/ FinishList(t) \/ BreakList(t) \/ AppendAudit(t)
  <2>1. Answer(t)
    BY <1>3 DEF RejectMissing, DatabaseFails, FinishList, BreakList, AppendAudit
  <2>2. pc'[t] = "idle" /\ req'[t] = None
        /\ \A u \in Threads \ {t} : pc'[u] = pc[u] /\ req'[u] = req[u] /\ held'[u] = held[u]
    BY <2>1 DEF Answer, GoTo, Inv, Shape
  <2>3. trail' \subseteq 1..minted
    <3>1. CASE AppendAudit(t)
      <4>1. pc[t] = "audit" /\ trail' = trail \cup {held[t].made.id}
        BY <3>1 DEF AppendAudit
      <4>2. held[t].made \in store[Home[t]] /\ Home[t] \in Replicas
        BY <4>1, EngineAssumption DEF Inv, Serving
      <4>3. held[t].made.id \in 1..minted
        BY <4>2 DEF Inv, Stored
      <4> QED BY <1>2, <4>1, <4>3
    <3>2. CASE ~AppendAudit(t)
      BY <1>2, <1>3, <3>2 DEF RejectMissing, DatabaseFails, FinishList, BreakList
    <3> QED BY <3>1, <3>2
  <2> QED BY <1>1, <2>2, <2>3, UnstoredStep DEF Steps
<1>4. CASE ReceiveCreate(t)
  <2>1. PICK by \in Principals, ids \in Selections : Receive(t, [op |-> "create", by |-> by, ids |-> ids], "read")
    BY <1>4 DEF ReceiveCreate
  <2> DEFINE r == [op |-> "create", by |-> by, ids |-> ids]
  <2>2. r # None /\ r.ids \in Selections
    BY EngineAssumption
  <2>3. Receive(t, r, "read")
    BY <2>1
  <2> HIDE DEF r
  <2>4. /\ pc'[t] = "read" /\ req'[t] = r /\ trail' = trail
        /\ \A u \in Threads \ {t} : pc'[u] = pc[u] /\ req'[u] = req[u] /\ held'[u] = held[u]
    BY <2>3 DEF Receive, GoTo, Inv, Shape
  <2> QED BY <1>1, <1>2, <2>2, <2>4, UnstoredStep DEF Steps
<1>5. CASE SelectFindings(t)
  <2>1. /\ pc[t] = "read" /\ GoTo(t, "create") /\ UNCHANGED <<trail, req>>
        /\ MissingIds(t) = {}
    BY <1>5 DEF SelectFindings
  <2>2. PICK batch \in Orders({k \in RowsOf(req[t].by.tenant) :
                                 req[t].ids = {} \/ rows[k].id \in req[t].ids}) :
          held' = [held EXCEPT ![t] = [selected |-> batch]]
    BY <1>5 DEF SelectFindings
  <2>3. Chosen(batch, req[t].by.tenant, req[t].ids)
    BY <2>1, <2>2, SelectionIsChosen DEF Gated
  <2>4. /\ pc'[t] = "create" /\ held'[t].selected = batch
        /\ \A u \in Threads \ {t} : pc'[u] = pc[u] /\ req'[u] = req[u] /\ held'[u] = held[u]
    BY <2>1, <2>2 DEF GoTo, Inv, Shape
  <2>5. req[t] # None /\ req[t].ids \in Selections
    BY <2>1 DEF Gated, Asked
  <2> QED BY <1>1, <1>2, <2>1, <2>3, <2>4, <2>5, UnstoredStep DEF Steps
<1>6. CASE ReceiveList(t)
  <2>1. PICK by \in Principals : req' = [req EXCEPT ![t] = [op |-> "list", by |-> by]]
    BY <1>6 DEF ReceiveList
  <2>2. [op |-> "list", by |-> by] # None
    BY EngineAssumption
  <2>3. /\ pc'[t] = "walk" /\ req'[t] # None /\ trail' = trail
        /\ \A u \in Threads \ {t} : pc'[u] = pc[u] /\ req'[u] = req[u] /\ held'[u] = held[u]
    BY <1>6, <2>1, <2>2 DEF ReceiveList, GoTo, Inv, Shape
  <2> QED BY <1>1, <1>2, <2>3, UnstoredStep DEF Steps
<1> QED BY <1>3, <1>4, <1>5, <1>6

\* What is stored is what the thread had selected, with the status of its gate.
LEMMA GatedCreateStep ==
    ASSUME Inv, Gated, NEW t \in Threads, CreateWorkflow(t)
    PROVE  Gated'
<1> DEFINE h == Home[t]
           new == [id |-> minted', tenant |-> req[t].by.tenant, asked |-> req[t].ids,
                   findings |-> held[t].selected, status |-> EngineStatus(held[t].selected)]
<1>1. h \in Replicas
  BY EngineAssumption
<1>2. /\ pc[t] = "create" /\ minted' = minted + 1 /\ UNCHANGED <<rows, trail, req, acked>>
      /\ store' = [store EXCEPT ![h] = store[h] \cup {new}]
      /\ held' = [held EXCEPT ![t] = [made |-> new]]
      /\ GoTo(t, "audit")
  BY DEF CreateWorkflow
<1>3. /\ Chosen(new.findings, new.tenant, new.asked) /\ new.asked \in Selections
      /\ new.status = EngineStatus(new.findings)
  BY <1>2 DEF Gated, Asked
<1> HIDE DEF new, h
<1>4. \A r \in Replicas : \A w \in store'[r] : w = new \/ w \in store[r]
  BY <1>1, <1>2 DEF Inv, Shape
<1>5. /\ pc'[t] = "audit"
      /\ \A u \in Threads \ {t} : pc'[u] = pc[u] /\ held'[u] = held[u]
  BY <1>2 DEF Inv, Shape, GoTo
<1>6. Stocked'
  BY <1>2 DEF Gated, Stocked
<1>7. Judged'
  <2>1. ASSUME NEW r \in Replicas, NEW w \in store'[r]
        PROVE  /\ Chosen(w.findings, w.tenant, w.asked) /\ w.asked \in Selections
               /\ w.status = EngineStatus(w.findings)
    BY <1>3, <1>4 DEF Gated, Judged
  <2>2. trail' \subseteq 1..minted'
    BY <1>2 DEF Gated, Judged, Inv, Shape
  <2> QED BY <2>1, <2>2 DEF Judged
<1>8. ASSUME NEW u \in Threads
      PROVE  /\ pc'[u] \in Steps
             /\ req'[u] = None <=> pc'[u] = "idle"
             /\ pc'[u] \in {"read", "create"} => req'[u].ids \in Selections
             /\ pc'[u] = "create" => Chosen(held'[u].selected, req'[u].by.tenant, req'[u].ids)
  BY <1>2, <1>5 DEF Gated, Asked, Steps
<1> QED BY <1>6, <1>7, <1>8 DEF Gated, Asked

LEMMA GatedRestartStep ==
    ASSUME Inv, Gated, NEW r \in Replicas, Restart(r)
    PROVE  Gated'
<1>1. /\ store' = [store EXCEPT ![r] = {}] /\ UNCHANGED <<rows, trail, minted>>
      /\ \A u \in Threads : \/ pc'[u] = "idle" /\ req'[u] = None
                            \/ pc'[u] = pc[u] /\ req'[u] = req[u] /\ held'[u] = held[u]
  BY DEF Restart
<1>2. \A s \in Replicas : \A w \in store'[s] : w \in store[s]
  BY <1>1 DEF Inv, Shape
<1>3. Stocked' /\ Judged'
  BY <1>1, <1>2 DEF Gated, Stocked, Judged
<1>4. ASSUME NEW u \in Threads
      PROVE  /\ pc'[u] \in Steps
             /\ req'[u] = None <=> pc'[u] = "idle"
             /\ pc'[u] \in {"read", "create"} => req'[u].ids \in Selections
             /\ pc'[u] = "create" => Chosen(held'[u].selected, req'[u].by.tenant, req'[u].ids)
  BY <1>1 DEF Gated, Asked, Steps
<1> QED BY <1>3, <1>4 DEF Gated, Asked

LEMMA GatedStep ==
    ASSUME Inv, Gated, [Next]_vars
    PROVE  Gated'
<1>1. CASE UNCHANGED vars
  BY <1>1 DEF Gated, Stocked, Asked, Judged, vars
<1>2. CASE ImportFinding
  <2>1. PICK f \in Arrivals : rows' = Append(rows, f)
    BY <1>2 DEF ImportFinding
  <2>2. f \in Findings
    BY EngineAssumption
  <2>3. Stocked'
    BY <2>1, <2>2 DEF Gated, Stocked
  <2>4. UNCHANGED <<store, trail, minted, pc, req, held, acked>>
    BY <1>2 DEF ImportFinding
  <2> QED BY <2>3, <2>4 DEF Gated, Asked, Judged
<1>3. CASE \E r \in Replicas : Restart(r)
  BY <1>3, GatedRestartStep
<1>4. ASSUME NEW t \in Threads,
             \/ ReceiveCreate(t) \/ SelectFindings(t) \/ RejectMissing(t) \/ DatabaseFails(t)
             \/ ReceiveList(t) \/ FinishList(t) \/ BreakList(t) \/ AppendAudit(t)
      PROVE  Gated'
  BY <1>4, GatedThreadStep
<1>5. ASSUME NEW t \in Threads, CreateWorkflow(t)
      PROVE  Gated'
  BY <1>5, GatedCreateStep
<1> QED BY <1>1, <1>2, <1>3, <1>4, <1>5 DEF Next

LEMMA GatedAlways == Spec => [](Inv /\ Gated)
<1>1. Init => Inv /\ Gated
  <2> SUFFICES ASSUME Init PROVE Gated
    BY InvInit
  <2>1. Stocked
    BY EngineAssumption DEF Init, Stocked
  <2>2. Asked /\ Judged
    BY DEF Init, Asked, Judged, Steps
  <2> QED BY <2>1, <2>2 DEF Gated
<1>2. Inv /\ Gated /\ [Next]_vars => Inv' /\ Gated'
  BY InvStep, GatedStep
<1> QED BY <1>1, <1>2, PTL DEF Spec

\* Every variable has its shape, and a workflow one of its two statuses, for any
\* number of processes, threads and workflows.
THEOREM TypeCorrect == Spec => []TypeOK
<1>1. Inv /\ Gated => TypeOK
  <2> SUFFICES ASSUME Inv, Gated PROVE TypeOK
    OBVIOUS
  <2>1. ASSUME NEW r \in Replicas, NEW w \in store[r]
        PROVE  IsWorkflow(w)
    <3>1. w.id \in 1..minted /\ w.tenant \in {p.tenant : p \in Principals}
      BY DEF Inv, Stored
    <3>2. w.findings \in Seq(Findings) /\ w.asked \in Selections /\ w.status = EngineStatus(w.findings)
      BY DEF Gated, Judged, Chosen
    <3>3. w.status \in {"AWAITING_APPROVAL", "VALIDATION_BLOCKED"}
      BY <3>2 DEF EngineStatus
    <3> QED BY <3>1, <3>2, <3>3 DEF IsWorkflow
  <2>2. \A r \in Replicas : acked[r] \subseteq 1..minted
    BY DEF Inv, Acknowledged, Gated, Judged
  <2> QED BY <2>1, <2>2 DEF TypeOK, Gated, Stocked, Asked, Judged, Inv, Shape
<1> QED BY <1>1, GatedAlways, PTL

\* A workflow holds findings of its tenant only, those asked for if any were, and is
\* offered for approval exactly when the gate lets the last finding with each id
\* through for all of them, for any repository, also with repeated ids, any list limit
\* and selection (create_engine_workflow, create_workflow).
THEOREM WorkflowsAreAlwaysGated == Spec => []WorkflowsAreGated
<1>1. Gated => WorkflowsAreGated
  <2> SUFFICES ASSUME Gated, NEW r \in Replicas, NEW w \in store[r]
               PROVE  /\ \A k \in DOMAIN w.findings : w.findings[k].tenant = w.tenant
                      /\ w.asked # {} => {f.id : f \in Range(w.findings)} = w.asked
                      /\ (w.status = "AWAITING_APPROVAL") <=>
                            \A i, j \in DOMAIN w.findings :
                                IsLast(w.findings, j, w.findings[i].id) =>
                                    /\ w.findings[j].category \notin InjectionCategories \cup WebCategories
                                    /\ w.findings[i].severity = "CRITICAL" => w.findings[j].cve
    BY DEF WorkflowsAreGated
  <2>1. Chosen(w.findings, w.tenant, w.asked) /\ w.status = EngineStatus(w.findings)
    BY DEF Gated, Judged
  <2>2. w.findings \in Seq(Findings)
    BY <2>1 DEF Chosen
  <2> QED BY <2>1, <2>2, Gate DEF Chosen
<1> QED BY <1>1, GatedAlways, PTL

(***************************************************************************)
(* The abstract specification: every process does audited work.            *)
(***************************************************************************)
\* A stored workflow is new work, under an id no workflow and no event has.
LEMMA CreateIsWork ==
    ASSUME Inv, Gated, NEW t \in Threads, CreateWorkflow(t)
    PROVE  Audited!Do(Home[t])
<1> DEFINE h == Home[t]
           new == [id |-> minted', tenant |-> req[t].by.tenant, asked |-> req[t].ids,
                   findings |-> held[t].selected, status |-> EngineStatus(held[t].selected)]
<1>1. h \in Replicas
  BY EngineAssumption
<1>2. /\ pc[t] = "create" /\ minted' = minted + 1 /\ UNCHANGED <<trail, acked>>
      /\ store' = [store EXCEPT ![h] = @ \cup {new}]
  BY DEF CreateWorkflow
<1>3. new.id = minted + 1 /\ new.tenant \in {p.tenant : p \in Principals}
  BY <1>2 DEF Inv, Serving
<1> HIDE DEF new, h
<1>4. new.id \notin Audited!Used
  BY <1>3 DEF Inv, Shape, Stored, Gated, Judged, Audited!Used, Audited!IdsAt
<1>5. new \in store'[h]
  BY <1>1, <1>2 DEF Inv, Shape
<1> QED BY <1>2, <1>3, <1>4, <1>5 DEF Audited!Do, h

\* The event is about a workflow the thread's own process has stored.
LEMMA AuditIsAcknowledgement ==
    ASSUME Inv, NEW t \in Threads, AppendAudit(t)
    PROVE  Audited!Acknowledge(Home[t])
<1>1. /\ pc[t] = "audit" /\ trail' = trail \cup {held[t].made.id} /\ UNCHANGED store
      /\ acked' = [acked EXCEPT ![Home[t]] = @ \cup {held[t].made.id}]
  BY DEF AppendAudit
<1>2. held[t].made.id \in Audited!IdsAt(Home[t])
  BY <1>1 DEF Inv, Serving, Audited!IdsAt
<1> QED BY <1>1, <1>2 DEF Audited!Acknowledge

\* Each process does audited work and loses all of it when it restarts, and nothing
\* else shows outside: not the selection, the gate, the lists or what fails.
THEOREM AuditedWorkIsImplemented == Spec => ImplementsAuditedWork
<1>1. Init => Audited!Init
  BY DEF Init, Audited!Init
<1>2. Inv /\ Gated /\ [Next]_vars => [Audited!Next]_(Audited!vars)
  <2> SUFFICES ASSUME Inv, Gated, [Next]_vars PROVE [Audited!Next]_(Audited!vars)
    OBVIOUS
  <2>1. ASSUME UNCHANGED <<store, trail, acked>>
        PROVE  UNCHANGED Audited!vars
    BY <2>1 DEF Audited!vars
  <2>2. CASE UNCHANGED vars
    BY <2>1, <2>2 DEF vars
  <2>3. CASE ImportFinding
    BY <2>1, <2>3 DEF ImportFinding
  <2>4. ASSUME NEW r \in Replicas, Restart(r) PROVE Audited!Lose(r)
    BY <2>4 DEF Restart, Audited!Lose
  <2>5. ASSUME NEW t \in Threads,
               \/ ReceiveCreate(t) \/ SelectFindings(t) \/ RejectMissing(t) \/ DatabaseFails(t)
               \/ ReceiveList(t) \/ FinishList(t) \/ BreakList(t)
        PROVE  UNCHANGED <<store, trail, acked>>
    BY <2>5 DEF ReceiveCreate, Receive, SelectFindings, RejectMissing, DatabaseFails, ReceiveList,
                FinishList, BreakList
  <2>6. ASSUME NEW t \in Threads, CreateWorkflow(t) \/ AppendAudit(t)
        PROVE  Audited!Next
    <3>1. Home[t] \in Replicas
      BY EngineAssumption
    <3> QED BY <2>6, <3>1, CreateIsWork, AuditIsAcknowledgement DEF Audited!Next
  <2> QED BY <2>1, <2>2, <2>3, <2>4, <2>5, <2>6 DEF Next, Audited!Next
<1> QED BY GatedAlways, <1>1, <1>2, PTL DEF Spec, ImplementsAuditedWork, Audited!Spec
=============================================================================
