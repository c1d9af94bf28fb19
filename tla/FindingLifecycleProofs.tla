----------------------- MODULE FindingLifecycleProofs -----------------------
(***************************************************************************)
(* Proofs about FindingLifecycle for any number of threads, tenants, users *)
(* and findings, in both modes.                                            *)
(***************************************************************************)
EXTENDS FindingLifecycle, SequenceTheorems, FiniteSetTheorems, WellFoundedInduction, TLAPS

USE FindingsAssumption, RequestsAssumption

(***************************************************************************)
(* The inductive invariant: the types, what a thread's position in its     *)
(* handler says of its request, and the parts the properties need.         *)
(***************************************************************************)
\* A busy thread has a request of the kind its step belongs to, and a decision is
\* only ever served for a reviewer.  Only a bulk update has rows to work off.
RequestOK ==
  \A t \in Threads :
    /\ todo[t] # {} => pc[t] = "update" /\ req[t].op = "bulk"
    /\ pc[t] # "idle" =>
        /\ req[t] \in Requests
        /\ pc[t] = "seed" => req[t].op \in {"import", "scan"}
        /\ pc[t] = "save" => req[t].op = "scan"
        /\ pc[t] \in {"read", "update"} => req[t].op \in {"bulk", "decide"}
        /\ req[t].op = "decide" => Reviewer(req[t].by.subject)

Safe == TypeOK /\ RequestOK

\* A request's parts are of the types its kind gives them.
LEMMA RequestParts ==
    ASSUME NEW r \in Requests
    PROVE  /\ r.op \in {"import", "scan", "bulk", "decide"}
           /\ r.by \in Principals /\ r.by.subject \in Users /\ r.by.tenant \in Tenants
           /\ r.op \in {"import", "scan"} => r.findings \in Payloads /\ r.findings \in Seq(Findings)
           /\ r.op = "bulk" => r.sel \in Selectors
           /\ r.op = "decide" => r.id \in Ids /\ r.decision \in Decisions
BY DEF Requests, ImportRequest, BulkRequest, DecisionRequest

\* The event a request owes is an event.
LEMMA EventType ==
    ASSUME NEW r \in Requests
    PROVE  EventOf(r) \in Events
<1>1. /\ r.by.subject \in Users
      /\ r.by.tenant \in Tenants
      /\ r.op \in {"import", "scan", "bulk", "decide"}
      /\ r.op = "decide" => r.id \in Ids /\ r.decision \in Decisions
  BY RequestParts
<1>2. CASE r.op = "import"
  BY <1>1, <1>2 DEF EventOf, Events
<1>3. CASE r.op = "scan"
  BY <1>1, <1>3 DEF EventOf, Events
<1>4. CASE r.op = "bulk"
  BY <1>1, <1>4 DEF EventOf, Events
<1>5. CASE r.op = "decide"
  BY <1>1, <1>5 DEF EventOf, Events
<1> QED BY <1>1, <1>2, <1>3, <1>4, <1>5

\* Every row holds a submitted finding.
LEMMA RowFindings ==
    ASSUME rows \in Seq(Rows)
    PROVE  /\ Len(rows) \in Nat /\ DOMAIN rows = 1..Len(rows)
           /\ \A k \in DOMAIN rows : rows[k] \in Rows /\ rows[k].finding \in Findings
<1>1. Len(rows) \in Nat /\ DOMAIN rows = 1..Len(rows)
  BY LenProperties
<1>2. \A k \in 1..Len(rows) : rows[k] \in Rows
  BY <1>1, ElementOfSeq
<1> QED BY <1>1, <1>2 DEF Rows

\* update_status keeps the number of rows, their findings and their types.
LEMMA UpdateKeepsRows ==
    ASSUME rows \in Seq(Rows), NEW id, NEW s \in Status, UpdateStatus(id, s)
    PROVE  /\ rows' \in Seq(Rows)
           /\ Len(rows') = Len(rows) /\ DOMAIN rows' = DOMAIN rows
           /\ \A k \in DOMAIN rows : /\ rows'[k].finding = rows[k].finding
                                     /\ rows'[k].status = IF IsFirst(k, id) THEN s ELSE rows[k].status
                                     /\ ~IsFirst(k, id) => rows'[k] = rows[k]
<1>1. Len(rows) \in Nat /\ DOMAIN rows = 1..Len(rows)
  BY RowFindings
<1>2. \A k \in 1..Len(rows) : rows[k] \in Rows
  BY RowFindings
<1>3. \A k \in 1..Len(rows) :
         (IF IsFirst(k, id) THEN [rows[k] EXCEPT !.status = s] ELSE rows[k]) \in Rows
  BY <1>2 DEF Rows
<1>4. rows' \in [1..Len(rows) -> Rows]
  BY <1>3 DEF UpdateStatus
<1>5. rows' \in Seq(Rows) /\ Len(rows') = Len(rows)
  BY <1>1, <1>4, SeqDef, LenProperties
<1>6. \A k \in 1..Len(rows) :
         rows'[k] = IF IsFirst(k, id) THEN [rows[k] EXCEPT !.status = s] ELSE rows[k]
  BY DEF UpdateStatus
<1> QED BY <1>1, <1>2, <1>4, <1>5, <1>6 DEF Rows

\* An id that some row carries has a first row.
LEMMA FirstExists ==
    ASSUME rows \in Seq(Rows), NEW id, NEW j \in DOMAIN rows, rows[j].finding.id = id
    PROVE  \E k \in DOMAIN rows : IsFirst(k, id)
<1> DEFINE Carriers == {k \in DOMAIN rows : rows[k].finding.id = id}
<1>1. DOMAIN rows = 1..Len(rows) /\ Len(rows) \in Nat
  BY LenProperties
<1>2. Carriers \subseteq Nat /\ Carriers # {}
  BY <1>1
<1> HIDE DEF Carriers
<1>3. PICK k \in Carriers : \A i \in Carriers : ~(<<i, k>> \in OpToRel(<, Nat))
  BY <1>2, NatLessThanWellFounded, WFMin
<1>4. \A i \in Carriers : ~(i < k)
  BY <1>2, <1>3 DEF OpToRel
<1>5. k \in DOMAIN rows /\ rows[k].finding.id = id
  BY DEF Carriers
<1>6. \A i \in 1..(k - 1) : rows[i].finding.id # id
  BY <1>1, <1>4, <1>5 DEF Carriers
<1> QED BY <1>5, <1>6 DEF IsFirst

\* Which row is the first with an id depends on the findings alone.
LEMMA FirstKept ==
    ASSUME rows \in Seq(Rows), NEW k \in DOMAIN rows, NEW id,
           DOMAIN rows \subseteq DOMAIN rows',
           \A j \in DOMAIN rows : rows'[j].finding = rows[j].finding
    PROVE  IsFirst(k, id)' <=> IsFirst(k, id)
<1>1. DOMAIN rows = 1..Len(rows) /\ Len(rows) \in Nat
  BY LenProperties
<1>2. \A j \in 1..(k - 1) : rows'[j].finding.id = rows[j].finding.id
  BY <1>1
<1>3. rows'[k].finding.id = rows[k].finding.id /\ k \in DOMAIN rows'
  OBVIOUS
<1> QED BY <1>2, <1>3 DEF IsFirst

\* The tenants that hold an id: what a row says of them, and that they only grow.
LEMMA HolderOfRow ==
    ASSUME NEW j \in DOMAIN rows
    PROVE  rows[j].finding.tenant \in Holders(rows[j].finding.id)
BY DEF Holders

LEMMA HoldersGrow ==
    ASSUME DOMAIN rows \subseteq DOMAIN rows',
           \A j \in DOMAIN rows : rows'[j].finding = rows[j].finding,
           NEW id, NEW n \in Holders(id)
    PROVE  n \in Holders(id)'
<1>1. PICK j \in DOMAIN rows : rows[j].finding.id = id /\ n = rows[j].finding.tenant
  BY DEF Holders
<1>2. j \in DOMAIN rows' /\ rows'[j].finding = rows[j].finding
  BY <1>1
<1>3. rows'[j].finding.id = id /\ n = rows'[j].finding.tenant
  BY <1>1, <1>2
<1> QED BY <1>2, <1>3 DEF Holders

(***************************************************************************)
(* Safe is inductive: one lemma for each way a step changes a thread.      *)
(***************************************************************************)
\* Receiving a request the right way keeps the thread well formed.
LEMMA ReceiveSafe ==
    ASSUME Safe, NEW t \in Threads, NEW r \in Requests,
           NEW step \in {"seed", "read"},
           r.op \in {"import", "scan"} <=> step = "seed",
           r.op = "decide" => Reviewer(r.by.subject),
           Receive(t, r, step)
    PROVE  Safe'
<1>1. r.op \in {"import", "scan", "bulk", "decide"}
  BY RequestParts
<1>2. TypeOK'
  BY DEF Safe, TypeOK, Receive, GoTo
<1>3. RequestOK'
  BY <1>1 DEF Safe, TypeOK, RequestOK, Receive, GoTo
<1> QED BY <1>2, <1>3 DEF Safe

\* An answered thread is idle; rows, trail and applications are as the step left them.
LEMMA AnswerSafe ==
    ASSUME Safe, NEW t \in Threads, NEW code \in {200, 202, 400, 403, 404, 409, 500},
           Answer(t, code),
           rows' \in Seq(Rows), audit' \in Seq(Events), apps' \in [Tenants -> Nat],
           overlapped' = overlapped
    PROVE  Safe'
<1>1. TypeOK'
  BY DEF Safe, TypeOK, Answer, GoTo
<1>2. RequestOK'
  BY DEF Safe, TypeOK, RequestOK, Answer, GoTo
<1> QED BY <1>1, <1>2 DEF Safe

\* A thread that goes to its handler's next call.
LEMMA MoveSafe ==
    ASSUME Safe, NEW t \in Threads, pc[t] # "idle",
           NEW step \in {"seed", "save", "read", "update", "audit"}, GoTo(t, step),
           step = "seed" => req[t].op \in {"import", "scan"},
           step = "save" => req[t].op = "scan",
           step \in {"read", "update"} => req[t].op \in {"bulk", "decide"},
           UNCHANGED <<req, reply>>,
           rows' \in Seq(Rows), audit' \in Seq(Events), apps' \in [Tenants -> Nat],
           overlapped' = overlapped,
           pos' \in [Threads -> Nat \ {0}], todo' \in [Threads -> SUBSET Nat],
           \A u \in Threads \ {t} : todo'[u] = todo[u],
           todo'[t] # {} => step = "update" /\ req[t].op = "bulk"
    PROVE  Safe'
<1>1. /\ pc \in [Threads -> {"idle", "seed", "save", "read", "update", "audit"}]
      /\ req \in [Threads -> Requests \cup {None}]
      /\ reply \in {0, 200, 202, 400, 403, 404, 409, 500}
      /\ RequestOK /\ overlapped \in BOOLEAN
  BY DEF Safe, TypeOK
<1>2. pc' \in [Threads -> {"idle", "seed", "save", "read", "update", "audit"}]
  BY <1>1 DEF GoTo
<1>3. TypeOK'
  <2>1. overlapped' \in BOOLEAN
    BY <1>1
  <2> QED BY <1>1, <1>2, <2>1 DEF TypeOK
<1>4. /\ pc'[t] = step /\ req' = req
      /\ \A u \in Threads \ {t} : pc'[u] = pc[u] /\ todo'[u] = todo[u]
  BY <1>1 DEF GoTo
<1>5. RequestOK'
  <2>1. SUFFICES ASSUME NEW u \in Threads
                 PROVE  RequestOK!(u)'
    BY DEF RequestOK
  <2>2. CASE u = t
    BY <1>1, <1>4, <2>2 DEF RequestOK
  <2>3. CASE u # t
    <3>1. req'[u] = req[u] /\ pc'[u] = pc[u] /\ todo'[u] = todo[u]
      BY <1>4, <2>3
    <3> QED BY <1>1, <3>1 DEF RequestOK
  <2> QED BY <2>2, <2>3
<1> QED BY <1>3, <1>5 DEF Safe

\* A step inside a loop of the handler: the thread's call stays the same.
LEMMA LoopSafe ==
    ASSUME Safe, UNCHANGED <<pc, req, reply>>,
           rows' \in Seq(Rows), audit' \in Seq(Events), apps' \in [Tenants -> Nat],
           overlapped' = overlapped,
           pos' \in [Threads -> Nat \ {0}], todo' \in [Threads -> SUBSET Nat],
           \A u \in Threads : todo'[u] # {} => todo[u] # {}
    PROVE  Safe'
<1>1. TypeOK'
  BY DEF Safe, TypeOK
<1>2. RequestOK'
  <2>1. SUFFICES ASSUME NEW u \in Threads
                 PROVE  RequestOK!(u)'
    BY DEF RequestOK
  <2>2. pc' = pc /\ req' = req /\ (todo'[u] # {} => todo[u] # {})
    OBVIOUS
  <2> QED BY <2>2 DEF Safe, RequestOK
<1> QED BY <1>1, <1>2 DEF Safe

LEMMA SafeInit == Init => Safe
<1> SUFFICES ASSUME Init PROVE Safe
  OBVIOUS
<1>1. Len(InitialRows) \in Nat /\ DOMAIN InitialRows = 1..Len(InitialRows)
  BY LenProperties
<1>2. \A k \in 1..Len(InitialRows) : InitialRows[k] \in Findings
  BY ElementOfSeq
<1>3. rows \in [1..Len(InitialRows) -> Rows]
  BY <1>1, <1>2 DEF Init, Rows
<1>4. rows \in Seq(Rows)
  BY <1>1, <1>3, SeqDef
<1>5. audit \in Seq(Events)
  BY EmptySeq DEF Init
<1>6. overlapped \in BOOLEAN
  BY DEF Init
<1> QED BY <1>4, <1>5, <1>6 DEF Safe, TypeOK, RequestOK, Init

LEMMA SafeStep ==
    ASSUME Safe, NEW t \in Threads, Arrive(t) \/ Serve(t)
    PROVE  Safe'
<1> USE DEF Safe
<1>1. pc[t] # "idle" => /\ req[t] \in Requests
                        /\ req[t].op \in {"import", "scan"} => req[t].findings \in Seq(Findings)
                        /\ req[t].by.tenant \in Tenants
                        /\ req[t].op = "decide" => req[t].decision \in Decisions
  BY RequestParts DEF RequestOK
<1>2. rows \in Seq(Rows) /\ audit \in Seq(Events) /\ apps \in [Tenants -> Nat]
      /\ pos \in [Threads -> Nat \ {0}] /\ todo \in [Threads -> SUBSET Nat]
  BY DEF TypeOK
<1>3. CASE ReceiveImport(t)
  <2>1. PICK by \in Principals, findings \in Payloads :
           Receive(t, [op |-> "import", by |-> by, findings |-> findings], "seed")
    BY <1>3 DEF ReceiveImport
  <2> DEFINE r == [op |-> "import", by |-> by, findings |-> findings]
  <2>2. r \in Requests /\ r.op = "import"
    BY DEF Requests, ImportRequest
  <2> HIDE DEF r
  <2> QED BY <2>1, <2>2, ReceiveSafe DEF r
<1>4. CASE ReceiveScan(t)
  <2>1. PICK by \in Principals, findings \in Payloads :
           Receive(t, [op |-> "scan", by |-> by, findings |-> findings], "seed")
    BY <1>4 DEF ReceiveScan
  <2> DEFINE r == [op |-> "scan", by |-> by, findings |-> findings]
  <2>2. r \in Requests /\ r.op = "scan"
    BY DEF Requests, ImportRequest
  <2> HIDE DEF r
  <2> QED BY <2>1, <2>2, ReceiveSafe DEF r
<1>5. CASE ReceiveBulk(t)
  <2>1. PICK by \in Principals, sel \in Selectors :
           Receive(t, [op |-> "bulk", by |-> by, sel |-> sel], "read")
    BY <1>5 DEF ReceiveBulk
  <2> DEFINE r == [op |-> "bulk", by |-> by, sel |-> sel]
  <2>2. r \in Requests /\ r.op = "bulk"
    BY DEF Requests, BulkRequest
  <2> HIDE DEF r
  <2> QED BY <2>1, <2>2, ReceiveSafe DEF r
<1>6. CASE ReceiveDecision(t)
  <2>1. PICK by \in Principals, id \in Ids, decision \in Decisions :
           /\ Reviewer(by.subject)
           /\ Receive(t, [op |-> "decide", by |-> by, id |-> id, decision |-> decision], "read")
    BY <1>6 DEF ReceiveDecision
  <2> DEFINE r == [op |-> "decide", by |-> by, id |-> id, decision |-> decision]
  <2>2. r \in Requests /\ r.op = "decide" /\ r.by = by
    BY DEF Requests, DecisionRequest
  <2> HIDE DEF r
  <2> QED BY <2>1, <2>2, ReceiveSafe DEF r
<1>7. CASE RejectPath(t) \/ RejectMismatch(t) \/ RejectRole(t)
  BY <1>2, <1>7, AnswerSafe DEF RejectPath, RejectMismatch, RejectRole, Refuse
<1>8. CASE SeedFinding(t)
  <2> DEFINE f == req[t].findings[pos[t]]
  <2>1. req[t].findings \in Seq(Findings)
    BY <1>1, <1>8 DEF SeedFinding, RequestOK
  <2>2. f \in Findings
    BY <1>8, <2>1, LenProperties, ElementOfSeq DEF SeedFinding
  <2>3. [finding |-> f, status |-> f.status] \in Rows
    BY <2>2 DEF Rows
  <2>4. rows' \in Seq(Rows)
    BY <1>2, <1>8, <2>3, AppendProperties DEF SeedFinding
  <2>5. pos' \in [Threads -> Nat \ {0}]
    BY <1>2, <1>8 DEF SeedFinding
  <2> QED BY <1>2, <1>8, <2>4, <2>5, LoopSafe DEF SeedFinding
<1>9. CASE RejectForeign(t)
  BY <1>2, <1>9, AnswerSafe DEF RejectForeign
<1>10. CASE FinishSeeding(t)
  <2>1. req[t].op \in {"import", "scan"}
    BY <1>10 DEF FinishSeeding, RequestOK
  <2> DEFINE step == IF req[t].op = "scan" THEN "save" ELSE "audit"
  <2>2. step \in {"save", "audit"} /\ (step = "save" => req[t].op = "scan")
    OBVIOUS
  <2>3. GoTo(t, step) /\ pc[t] # "idle" /\ UNCHANGED <<rows, audit, apps, req, pos, todo, reply, overlapped>>
    BY <1>10 DEF FinishSeeding
  <2>4. todo[t] = {}
    BY <1>10 DEF FinishSeeding, RequestOK
  <2> HIDE DEF step
  <2> QED BY <1>2, <2>2, <2>3, <2>4, MoveSafe
<1>11. CASE SaveApplication(t)
  <2>1. apps' \in [Tenants -> Nat]
    BY <1>1, <1>2, <1>11 DEF SaveApplication
  <2> QED BY <1>2, <1>11, <2>1, MoveSafe DEF SaveApplication, RequestOK
<1>12. CASE ReadMatches(t)
  <2>1. Match(Listed(req[t].by.tenant), req[t].sel) \subseteq Nat
    BY <1>2, LenProperties DEF Match, Listed
  <2>2. todo' \in [Threads -> SUBSET Nat]
    BY <1>2, <1>12, <2>1 DEF ReadMatches
  <2> QED BY <1>2, <1>12, <2>2, MoveSafe DEF ReadMatches
<1>13. CASE ReviewFinding(t)
  <2>1. PICK k \in todo[t] : /\ UpdateStatus(rows[k].finding.id, "IN_REVIEW")
                             /\ todo' = [todo EXCEPT ![t] = @ \ {k}]
    BY <1>13 DEF ReviewFinding
  <2>2. rows' \in Seq(Rows)
    BY <1>2, <2>1, UpdateKeepsRows DEF Status
  <2>3. todo' \in [Threads -> SUBSET Nat]
    BY <1>2, <2>1
  <2> QED BY <1>2, <1>13, <2>2, <2>3, LoopSafe DEF ReviewFinding
<1>14. CASE FinishBulk(t)
  BY <1>2, <1>14, MoveSafe DEF FinishBulk, RequestOK
<1>15. CASE FindDecided(t)
  BY <1>2, <1>15, MoveSafe DEF FindDecided, RequestOK
<1>16. CASE RejectUnknown(t)
  BY <1>2, <1>16, AnswerSafe DEF RejectUnknown
<1>17. CASE DecideFinding(t)
  <2>1. rows' \in Seq(Rows)
    BY <1>1, <1>2, <1>17, UpdateKeepsRows DEF DecideFinding, DecidedStatus, Status
  <2> QED BY <1>2, <1>17, <2>1, MoveSafe DEF DecideFinding, RequestOK
<1>18. CASE AppendAudit(t)
  <2>1. audit' \in Seq(Events)
    BY <1>1, <1>2, <1>18, EventType, AppendProperties DEF AppendAudit
  <2>2. PICK code \in {200, 202} : Answer(t, code)
    BY <1>18 DEF AppendAudit
  <2> QED BY <1>2, <1>18, <2>1, <2>2, AnswerSafe DEF AppendAudit
<1>19. CASE MissingMethod(t)
  BY <1>2, <1>19, AnswerSafe DEF MissingMethod
<1>20. CASE DatabaseFails(t)
  BY <1>2, <1>20, AnswerSafe DEF DatabaseFails
<1> QED BY <1>3, <1>4, <1>5, <1>6, <1>7, <1>8, <1>9, <1>10, <1>11, <1>12, <1>13, <1>14,
           <1>15, <1>16, <1>17, <1>18, <1>19, <1>20 DEF Arrive, Serve

LEMMA SafeAlways == Spec => []Safe
<1>1. Safe /\ [Next]_vars => Safe'
  <2> SUFFICES ASSUME Safe, [Next]_vars PROVE Safe'
    OBVIOUS
  <2>1. CASE Next
    BY <2>1, SafeStep DEF Next
  <2>2. CASE UNCHANGED vars
    BY <2>2 DEF vars, Safe, TypeOK, RequestOK
  <2> QED BY <2>1, <2>2
<1> QED BY SafeInit, <1>1, PTL DEF Spec

\* Type correctness of the process (main.py's handlers over either adapter).
THEOREM TypeCorrect == Spec => []TypeOK
<1>1. Safe => TypeOK
  BY DEF Safe
<1> QED BY SafeAlways, <1>1, PTL

(***************************************************************************)
(* Rows are never dropped, reordered or given another finding.             *)
(***************************************************************************)
LEMMA RowsChange ==
    ASSUME NEW t \in Threads, Arrive(t) \/ Serve(t)
    PROVE  rows' = rows \/ SeedFinding(t) \/ ReviewFinding(t) \/ DecideFinding(t)
BY DEF Arrive, Serve, ReceiveImport, ReceiveScan, ReceiveBulk, ReceiveDecision, RejectPath,
       RejectMismatch, RejectRole, Receive, Refuse, RejectForeign, FinishSeeding, SaveApplication,
       ReadMatches, FinishBulk, FindDecided, RejectUnknown, AppendAudit, MissingMethod, DatabaseFails

\* What SeedFinding does to the rows: one more, of the caller's tenant.
LEMMA SeedRows ==
    ASSUME Safe, NEW t \in Threads, SeedFinding(t)
    PROVE  LET f == req[t].findings[pos[t]]
           IN  /\ f \in Findings /\ f.tenant = req[t].by.tenant
               /\ DemoMode
               /\ Len(rows') = Len(rows) + 1 /\ DOMAIN rows' = DOMAIN rows \cup {Len(rows) + 1}
               /\ \A k \in DOMAIN rows : rows'[k] = rows[k]
               /\ rows'[Len(rows) + 1] = [finding |-> f, status |-> f.status]
<1> DEFINE f == req[t].findings[pos[t]]
<1>1. rows \in Seq(Rows) /\ rows' = Append(rows, [finding |-> f, status |-> f.status])
      /\ f.tenant = req[t].by.tenant /\ "seed" \in Port /\ pos[t] \in DOMAIN req[t].findings
  BY DEF Safe, TypeOK, SeedFinding
<1>2. req[t].findings \in Seq(Findings)
  BY RequestParts DEF SeedFinding, Safe, RequestOK
<1>3. f \in Findings
  BY <1>1, <1>2, LenProperties, ElementOfSeq
<1>4. [finding |-> f, status |-> f.status] \in Rows
  BY <1>3 DEF Rows
<1>5. DemoMode
  BY <1>1 DEF Port
<1>6. rows' \in Seq(Rows) /\ Len(rows') = Len(rows) + 1
  BY <1>1, <1>4, AppendProperties
<1>7. DOMAIN rows = 1..Len(rows) /\ DOMAIN rows' = 1..(Len(rows) + 1) /\ Len(rows) \in Nat
  BY <1>1, <1>6, LenProperties
<1>8. \A k \in 1..Len(rows) : rows'[k] = rows[k]
  BY <1>1, <1>4, <1>7, AppendProperties
<1>9. rows'[Len(rows) + 1] = [finding |-> f, status |-> f.status]
  BY <1>1, <1>4, AppendProperties
<1> QED BY <1>1, <1>3, <1>5, <1>6, <1>7, <1>8, <1>9

\* What the two handlers that change a status do to the rows.
LEMMA ReviewRows ==
    ASSUME Safe, SnapshotHolds, NEW t \in Threads, ReviewFinding(t)
    PROVE  /\ DemoMode
           /\ Len(rows') = Len(rows) /\ DOMAIN rows' = DOMAIN rows
           /\ \A k \in DOMAIN rows :
                 /\ rows'[k].finding = rows[k].finding
                 /\ rows'[k] = rows[k] \/ /\ rows'[k].status = "IN_REVIEW"
                                          /\ IsFirst(k, rows[k].finding.id)
                                          /\ req[t].by.tenant \in Holders(rows[k].finding.id)
<1>1. rows \in Seq(Rows) /\ DemoMode
  BY DEF Safe, TypeOK, ReviewFinding, Port
<1>2. PICK j \in todo[t] : UpdateStatus(rows[j].finding.id, "IN_REVIEW")
  BY DEF ReviewFinding
<1>3. j \in DOMAIN rows /\ rows[j].finding.tenant = req[t].by.tenant
  BY <1>2 DEF ReviewFinding, SnapshotHolds
<1>4. req[t].by.tenant \in Holders(rows[j].finding.id)
  BY <1>3, HolderOfRow
<1>5. /\ Len(rows') = Len(rows) /\ DOMAIN rows' = DOMAIN rows
      /\ \A k \in DOMAIN rows :
            /\ rows'[k].finding = rows[k].finding
            /\ rows'[k].status = IF IsFirst(k, rows[j].finding.id) THEN "IN_REVIEW" ELSE rows[k].status
            /\ ~IsFirst(k, rows[j].finding.id) => rows'[k] = rows[k]
  <2> HIDE FindingsAssumption, RequestsAssumption
  <2> QED BY <1>1, <1>2, UpdateKeepsRows DEF Status
<1>6. ASSUME NEW k \in DOMAIN rows, IsFirst(k, rows[j].finding.id)
      PROVE  rows[k].finding.id = rows[j].finding.id
  BY <1>6 DEF IsFirst
<1> QED BY <1>1, <1>4, <1>5, <1>6

LEMMA DecideRows ==
    ASSUME Safe, SnapshotHolds, NEW t \in Threads, DecideFinding(t)
    PROVE  /\ DemoMode
           /\ Len(rows') = Len(rows) /\ DOMAIN rows' = DOMAIN rows
           /\ \A k \in DOMAIN rows :
                 /\ rows'[k].finding = rows[k].finding
                 /\ rows'[k] = rows[k] \/ /\ rows'[k].status = DecidedStatus(req[t].decision)
                                          /\ rows[k].finding.id = req[t].id
                                          /\ IsFirst(k, rows[k].finding.id)
                                          /\ req[t].by.tenant \in Holders(rows[k].finding.id)
<1>1. rows \in Seq(Rows) /\ DemoMode
  BY DEF Safe, TypeOK, DecideFinding, Port
<1>2. UpdateStatus(req[t].id, DecidedStatus(req[t].decision)) /\ req[t].op = "decide"
  BY DEF DecideFinding
<1>3. PICK j \in DOMAIN rows : /\ rows[j].finding.id = req[t].id
                               /\ rows[j].finding.tenant = req[t].by.tenant
  BY DEF DecideFinding, SnapshotHolds
<1>4. req[t].by.tenant \in Holders(req[t].id)
  BY <1>3, HolderOfRow
<1>5. DecidedStatus(req[t].decision) \in Status
  BY DEF DecidedStatus, Status
<1>6. /\ Len(rows') = Len(rows) /\ DOMAIN rows' = DOMAIN rows
      /\ \A k \in DOMAIN rows :
            /\ rows'[k].finding = rows[k].finding
            /\ rows'[k].status = IF IsFirst(k, req[t].id) THEN DecidedStatus(req[t].decision)
                                 ELSE rows[k].status
            /\ ~IsFirst(k, req[t].id) => rows'[k] = rows[k]
  BY <1>1, <1>2, <1>5, UpdateKeepsRows
<1>7. ASSUME NEW k \in DOMAIN rows, IsFirst(k, req[t].id)
      PROVE  rows[k].finding.id = req[t].id
  BY <1>7 DEF IsFirst
<1> QED BY <1>1, <1>4, <1>6, <1>7

LEMMA FindingsKept ==
    ASSUME Safe, SnapshotHolds, NEW t \in Threads, Arrive(t) \/ Serve(t)
    PROVE  /\ DOMAIN rows \subseteq DOMAIN rows'
           /\ \A k \in DOMAIN rows : rows'[k].finding = rows[k].finding
BY RowsChange, SeedRows, ReviewRows, DecideRows
(***************************************************************************)
(* What a thread read stays true until it uses it.                         *)
(***************************************************************************)
LEMMA OthersUndisturbed ==
    ASSUME Safe, NEW t \in Threads, Arrive(t) \/ Serve(t), NEW u \in Threads \ {t}
    PROVE  pc'[u] = pc[u] /\ req'[u] = req[u] /\ pos'[u] = pos[u] /\ todo'[u] = todo[u]
<1>1. /\ DOMAIN pc = Threads /\ DOMAIN req = Threads
      /\ DOMAIN pos = Threads /\ DOMAIN todo = Threads
  BY DEF Safe, TypeOK
<1>2. ASSUME NEW r, NEW step, Receive(t, r, step)
      PROVE  pc'[u] = pc[u] /\ req'[u] = req[u] /\ pos'[u] = pos[u] /\ todo'[u] = todo[u]
  BY <1>1, <1>2 DEF Receive, GoTo
<1>3. ASSUME NEW code, Answer(t, code)
      PROVE  pc'[u] = pc[u] /\ req'[u] = req[u] /\ pos'[u] = pos[u] /\ todo'[u] = todo[u]
  BY <1>1, <1>3 DEF Answer, GoTo
<1>4. CASE Arrive(t)
  BY <1>2, <1>3, <1>4 DEF Arrive, ReceiveImport, ReceiveScan, ReceiveBulk, ReceiveDecision,
         RejectPath, RejectMismatch, RejectRole, Refuse
<1>5. CASE RejectForeign(t) \/ RejectUnknown(t) \/ AppendAudit(t) \/ MissingMethod(t) \/ DatabaseFails(t)
  BY <1>3, <1>5 DEF RejectForeign, RejectUnknown, AppendAudit, MissingMethod, DatabaseFails
<1>6. CASE \/ SeedFinding(t) \/ FinishSeeding(t) \/ SaveApplication(t) \/ ReadMatches(t)
           \/ FinishBulk(t) \/ FindDecided(t) \/ DecideFinding(t)
  BY <1>1, <1>6 DEF SeedFinding, FinishSeeding, SaveApplication, ReadMatches, FinishBulk,
         FindDecided, DecideFinding, GoTo
<1>7. CASE ReviewFinding(t)
  BY <1>1, <1>7 DEF ReviewFinding
<1> QED BY <1>4, <1>5, <1>6, <1>7 DEF Serve

\* The steps that leave a thread at its update loop.
LEMMA AtUpdate ==
    ASSUME Safe, NEW t \in Threads, Arrive(t) \/ Serve(t), pc'[t] = "update"
    PROVE  ReadMatches(t) \/ ReviewFinding(t) \/ FindDecided(t)
<1>1. DOMAIN pc = Threads
  BY DEF Safe, TypeOK
<1>2. ASSUME NEW r, NEW step \in {"seed", "read"}, Receive(t, r, step) PROVE FALSE
  BY <1>1, <1>2 DEF Receive, GoTo
<1>3. ASSUME NEW code, Answer(t, code) PROVE FALSE
  BY <1>1, <1>3 DEF Answer, GoTo
<1>4. CASE Arrive(t)
  BY <1>2, <1>3, <1>4 DEF Arrive, ReceiveImport, ReceiveScan, ReceiveBulk, ReceiveDecision,
         RejectPath, RejectMismatch, RejectRole, Refuse
<1>5. CASE RejectForeign(t) \/ RejectUnknown(t) \/ AppendAudit(t) \/ MissingMethod(t) \/ DatabaseFails(t)
  BY <1>3, <1>5 DEF RejectForeign, RejectUnknown, AppendAudit, MissingMethod, DatabaseFails
<1>6. CASE SeedFinding(t) \/ FinishSeeding(t) \/ SaveApplication(t) \/ FinishBulk(t) \/ DecideFinding(t)
  BY <1>1, <1>6 DEF SeedFinding, FinishSeeding, SaveApplication, FinishBulk, DecideFinding, GoTo
<1> QED BY <1>4, <1>5, <1>6 DEF Serve

\* The steps that leave a thread owing its audit event.
LEMMA AtAudit ==
    ASSUME Safe, NEW t \in Threads, Arrive(t) \/ Serve(t), pc'[t] = "audit"
    PROVE  SaveApplication(t) \/ FinishSeeding(t) \/ FinishBulk(t) \/ DecideFinding(t)
<1>1. DOMAIN pc = Threads
  BY DEF Safe, TypeOK
<1>2. ASSUME NEW r, NEW step \in {"seed", "read"}, Receive(t, r, step) PROVE FALSE
  BY <1>1, <1>2 DEF Receive, GoTo
<1>3. ASSUME NEW code, Answer(t, code) PROVE FALSE
  BY <1>1, <1>3 DEF Answer, GoTo
<1>4. CASE Arrive(t)
  BY <1>2, <1>3, <1>4 DEF Arrive, ReceiveImport, ReceiveScan, ReceiveBulk, ReceiveDecision,
         RejectPath, RejectMismatch, RejectRole, Refuse
<1>5. CASE RejectForeign(t) \/ RejectUnknown(t) \/ AppendAudit(t) \/ MissingMethod(t) \/ DatabaseFails(t)
  BY <1>3, <1>5 DEF RejectForeign, RejectUnknown, AppendAudit, MissingMethod, DatabaseFails
<1>6. CASE SeedFinding(t) \/ ReadMatches(t) \/ ReviewFinding(t) \/ FindDecided(t)
  BY <1>1, <1>6 DEF SeedFinding, ReadMatches, ReviewFinding, FindDecided, GoTo
<1> QED BY <1>4, <1>5, <1>6 DEF Serve

LEMMA SnapshotStep ==
    ASSUME Safe, SnapshotHolds, NEW t \in Threads, Arrive(t) \/ Serve(t)
    PROVE  SnapshotHolds'
<1> DEFINE Mine(u) == {k \in DOMAIN rows : rows[k].finding.tenant = req[u].by.tenant}
           Target(u) == \E k \in DOMAIN rows : /\ rows[k].finding.id = req[u].id
                                               /\ rows[k].finding.tenant = req[u].by.tenant
<1>1. /\ DOMAIN rows \subseteq DOMAIN rows'
      /\ \A k \in DOMAIN rows : rows'[k].finding = rows[k].finding
  BY FindingsKept
<1>2. \A u \in Threads \ {t} :
         pc'[u] = pc[u] /\ req'[u] = req[u] /\ todo'[u] = todo[u]
  BY OthersUndisturbed
<1>3. ASSUME pc'[t] = "update"
      PROVE  /\ req'[t] = req[t]
             /\ todo'[t] \subseteq Mine(t)
             /\ req[t].op = "decide" => Target(t)
  <2>1. ReadMatches(t) \/ ReviewFinding(t) \/ FindDecided(t)
    BY <1>3, AtUpdate
  <2>2. CASE ReadMatches(t)
    BY <2>2 DEF ReadMatches, Safe, TypeOK, Match, Listed
  <2>3. CASE ReviewFinding(t)
    BY <2>3 DEF ReviewFinding, Safe, TypeOK, SnapshotHolds
  <2>4. CASE FindDecided(t)
    <3>1. Target(t) /\ req'[t] = req[t] /\ todo'[t] = todo[t]
      BY <2>4 DEF FindDecided, Listed
    <3>2. todo[t] = {}
      BY <2>4 DEF FindDecided, Safe, RequestOK
    <3> QED BY <3>1, <3>2
  <2> QED BY <2>1, <2>2, <2>3, <2>4
<1> QED BY <1>1, <1>2, <1>3 DEF SnapshotHolds
(***************************************************************************)
(* Outside demo mode nothing takes effect.                                 *)
(***************************************************************************)
\* No decision gets past its update, and no status differs from the submitted one.
SqlUntouched ==
    ~DemoMode => /\ NothingTakesEffect
                 /\ \A t \in Threads : pc[t] = "audit" => req[t].op # "decide"

LEMMA SqlInit == Init => SqlUntouched
<1> SUFFICES ASSUME Init PROVE SqlUntouched
  OBVIOUS
<1>1. Len(InitialRows) \in Nat /\ DOMAIN InitialRows = 1..Len(InitialRows)
  BY LenProperties
<1>2. rows \in Seq(Rows) /\ Len(rows) = Len(InitialRows)
  <2>1. rows \in Seq(Rows) /\ DOMAIN rows = 1..Len(InitialRows)
    BY <1>1, SafeInit DEF Init, Safe, TypeOK
  <2> QED BY <1>1, <2>1, RowFindings
<1>3. \A k \in DOMAIN rows : rows[k].status = rows[k].finding.status
  BY DEF Init
<1> QED BY <1>2, <1>3 DEF SqlUntouched, NothingTakesEffect, Init

LEMMA SqlStep ==
    ASSUME Safe, SnapshotHolds, SqlUntouched, NEW t \in Threads, Arrive(t) \/ Serve(t)
    PROVE  SqlUntouched'
<1> SUFFICES ASSUME ~DemoMode PROVE SqlUntouched'
  BY DEF SqlUntouched
<1>1. rows' = rows
  BY RowsChange, SeedRows, ReviewRows, DecideRows
<1>2. \A i \in DOMAIN audit' : audit'[i].type \notin Decisions
  <2>1. audit' = audit \/ AppendAudit(t)
    BY DEF Arrive, Serve, ReceiveImport, ReceiveScan, ReceiveBulk, ReceiveDecision, RejectPath,
       RejectMismatch, RejectRole, Receive, Refuse, SeedFinding, RejectForeign, FinishSeeding,
       SaveApplication, ReadMatches, ReviewFinding, FinishBulk, FindDecided, RejectUnknown,
       DecideFinding, MissingMethod, DatabaseFails
  <2>2. CASE AppendAudit(t)
    <3>1. req[t] \in Requests /\ req[t].op \in {"import", "scan", "bulk"}
      BY <2>2, RequestParts DEF AppendAudit, Safe, RequestOK, SqlUntouched
    <3>2. EventOf(req[t]) \in Events /\ EventOf(req[t]).type \notin Decisions
      BY <3>1, EventType DEF EventOf, Decisions
    <3>3. audit \in Seq(Events) /\ audit' = Append(audit, EventOf(req[t]))
      BY <2>2 DEF AppendAudit, Safe, TypeOK
    <3> QED BY <3>2, <3>3, AppendProperties, LenProperties DEF SqlUntouched, NothingTakesEffect
  <2> QED BY <2>1, <2>2 DEF SqlUntouched, NothingTakesEffect
<1>3. ASSUME NEW u \in Threads, pc'[u] = "audit"
      PROVE  req'[u].op # "decide"
  <2>1. CASE u # t
    BY <1>3, <2>1, OthersUndisturbed DEF SqlUntouched
  <2>2. CASE u = t
    <3>1. SaveApplication(t) \/ FinishSeeding(t) \/ FinishBulk(t)
      BY <1>3, <2>2, AtAudit, DecideRows
    <3> QED BY <2>2, <3>1 DEF SaveApplication, FinishSeeding, FinishBulk, Safe, RequestOK
  <2> QED BY <2>1, <2>2
<1> QED BY <1>1, <1>2, <1>3 DEF SqlUntouched, NothingTakesEffect
(***************************************************************************)
(* Every status that is not the submitted one is accounted for.            *)
(***************************************************************************)
\* An event that is, or will be, in the trail.
Owes(t) == pc[t] \in {"update", "audit"}
Explained(row) ==
    \/ \E i \in DOMAIN audit : Accounts(audit[i], row)
    \/ \E t \in Threads : Owes(t) /\ Accounts(EventOf(req[t]), row)

\* The trail only grows, and a thread that owes an event owes it until it has
\* appended it (in demo mode nothing can fail in between).
LEMMA DebtIsPaid ==
    ASSUME Safe, DemoMode, NEW t \in Threads, Arrive(t) \/ Serve(t), Owes(t)
    PROVE  \/ Owes(t)' /\ req'[t] = req[t]
           \/ AppendAudit(t)
<1>1. DOMAIN pc = Threads
  BY DEF Safe, TypeOK
<1>2. ~Arrive(t) /\ ~DatabaseFails(t) /\ ~MissingMethod(t)
  BY DEF Owes, Arrive, ReceiveImport, ReceiveScan, ReceiveBulk, ReceiveDecision, Receive,
         RejectPath, RejectMismatch, RejectRole, Refuse, DatabaseFails, MissingMethod, Port
<1>3. ReviewFinding(t) \/ FinishBulk(t) \/ DecideFinding(t) \/ AppendAudit(t)
  BY <1>2 DEF Owes, Serve, SeedFinding, RejectForeign, FinishSeeding, SaveApplication,
         ReadMatches, FindDecided, RejectUnknown
<1> QED BY <1>1, <1>3 DEF Owes, ReviewFinding, FinishBulk, DecideFinding, GoTo

LEMMA TrailGrows ==
    ASSUME Safe, NEW t \in Threads, Arrive(t) \/ Serve(t)
    PROVE  /\ DOMAIN audit \subseteq DOMAIN audit'
           /\ \A i \in DOMAIN audit : audit'[i] = audit[i]
           /\ AppendAudit(t) =>
                 \E i \in DOMAIN audit' : audit'[i] = EventOf(req[t])
<1>1. audit \in Seq(Events)
  BY DEF Safe, TypeOK
<1>2. audit' = audit \/ AppendAudit(t)
  BY DEF Arrive, Serve, ReceiveImport, ReceiveScan, ReceiveBulk, ReceiveDecision, RejectPath,
     RejectMismatch, RejectRole, Receive, Refuse, SeedFinding, RejectForeign, FinishSeeding,
     SaveApplication, ReadMatches, ReviewFinding, FinishBulk, FindDecided, RejectUnknown,
     DecideFinding, MissingMethod, DatabaseFails
<1>3. CASE AppendAudit(t)
  <2>1. EventOf(req[t]) \in Events /\ audit' = Append(audit, EventOf(req[t]))
    BY <1>3, EventType DEF AppendAudit, Safe, RequestOK
  <2> QED BY <1>1, <2>1, AppendProperties, LenProperties
<1>4. CASE audit' = audit /\ ~AppendAudit(t)
  BY <1>4
<1> QED BY <1>2, <1>3, <1>4

LEMMA ExplainedStays ==
    ASSUME Safe, SnapshotHolds, DemoMode, NEW t \in Threads, Arrive(t) \/ Serve(t),
           NEW row, Explained(row)
    PROVE  Explained(row)'
<1>0. ASSUME NEW n \in Holders(row.finding.id) PROVE n \in Holders(row.finding.id)'
  <2>1. PICK id : id = row.finding.id
    OBVIOUS
  <2>2. n \in Holders(id)'
    BY <2>1, FindingsKept, HoldersGrow
  <2> QED BY <2>1, <2>2
<1>a. ASSUME NEW e, Accounts(e, row) PROVE Accounts(e, row)'
  BY <1>0, <1>a DEF Accounts
<1>1. CASE \E i \in DOMAIN audit : Accounts(audit[i], row)
  <2>1. PICK i \in DOMAIN audit : Accounts(audit[i], row)
    BY <1>1
  <2>2. PICK e : e = audit[i]
    OBVIOUS
  <2>3. i \in DOMAIN audit' /\ audit'[i] = e
    BY <2>1, <2>2, TrailGrows
  <2>4. Accounts(e, row)'
    BY <1>a, <2>1, <2>2
  <2> QED BY <2>3, <2>4 DEF Explained
<1>2. CASE \E u \in Threads : Owes(u) /\ Accounts(EventOf(req[u]), row)
  <2>1. PICK u \in Threads : Owes(u) /\ Accounts(EventOf(req[u]), row)
    BY <1>2
  <2>2. PICK e : e = EventOf(req[u])
    OBVIOUS
  <2>3. Accounts(e, row)'
    BY <1>a, <2>1, <2>2
  <2>4. CASE u # t
    <3>1. Owes(u)' /\ req'[u] = req[u]
      BY <2>1, <2>4, OthersUndisturbed DEF Owes
    <3>2. EventOf(req[u])' = e
      BY <2>2, <3>1 DEF EventOf
    <3> QED BY <2>3, <3>1, <3>2 DEF Explained
  <2>5. CASE u = t
    <3>1. CASE Owes(t)' /\ req'[t] = req[t]
      <4>1. EventOf(req[t])' = e
        BY <2>2, <2>5, <3>1 DEF EventOf
      <4> QED BY <2>3, <3>1, <4>1 DEF Explained
    <3>2. CASE AppendAudit(t)
      BY <2>2, <2>3, <2>5, <3>2, TrailGrows DEF Explained
    <3> QED BY <2>1, <2>5, <3>1, <3>2, DebtIsPaid
  <2> QED BY <2>4, <2>5
<1> QED BY <1>1, <1>2 DEF Explained

LEMMA ExplainedStep ==
    ASSUME Safe, SnapshotHolds, SqlUntouched, StatusExplained,
           NEW t \in Threads, Arrive(t) \/ Serve(t)
    PROVE  StatusExplained'
<1>1. CASE ~DemoMode
  BY <1>1, SqlStep DEF SqlUntouched, NothingTakesEffect, StatusExplained
<1>2. CASE DemoMode
  <2> SUFFICES ASSUME NEW k \in DOMAIN rows', NEW row, row = rows'[k],
                      row.status # row.finding.status
               PROVE  Explained(row)'
    BY DEF StatusExplained, Explained, Owes
  <2>1. CASE k \in DOMAIN rows /\ row = rows[k]
    <3>1. Explained(row)
      BY <2>1 DEF StatusExplained, Explained, Owes
    <3> QED BY <1>2, <3>1, ExplainedStays, Zenon
  <2>2. CASE SeedFinding(t) /\ k \notin DOMAIN rows
    <3> DEFINE f == req[t].findings[pos[t]]
    <3>1. /\ DOMAIN rows' = DOMAIN rows \cup {Len(rows) + 1}
          /\ rows'[Len(rows) + 1] = [finding |-> f, status |-> f.status]
      BY <2>2, SeedRows
    <3>2. row = [finding |-> f, status |-> f.status]
      BY <2>2, <3>1
    <3> QED BY <3>2
  <2>3. CASE ReviewFinding(t) /\ k \in DOMAIN rows /\ row # rows[k]
    <3>1. /\ row.status = "IN_REVIEW" /\ row.finding = rows[k].finding
          /\ req[t].by.tenant \in Holders(rows[k].finding.id)
      BY <2>3, ReviewRows
    <3>2. req[t].op = "bulk" /\ Owes(t)' /\ req'[t] = req[t]
      BY <2>3 DEF ReviewFinding, Owes
    <3>3. req[t].by.tenant \in Holders(row.finding.id)'
      <4>1. PICK n, id : n = req[t].by.tenant /\ id = row.finding.id
        OBVIOUS
      <4>2. n \in Holders(id)'
        BY <3>1, <4>1, FindingsKept, HoldersGrow
      <4> QED BY <4>1, <4>2
    <3>4. EventOf(req[t])' = EventOf(req[t])
      BY <3>2 DEF EventOf
    <3>5. Accounts(EventOf(req[t]), row)'
      BY <3>1, <3>2, <3>3, <3>4 DEF Accounts, EventOf
    <3> QED BY <3>2, <3>5 DEF Explained
  <2>4. CASE DecideFinding(t) /\ k \in DOMAIN rows /\ row # rows[k]
    <3>1. /\ row.status = DecidedStatus(req[t].decision)
          /\ row.finding.id = req[t].id /\ row.finding = rows[k].finding
          /\ req[t].by.tenant \in Holders(rows[k].finding.id)
      BY <2>4, DecideRows
    <3>2. req[t].op = "decide" /\ Owes(t)' /\ req'[t] = req[t]
      BY <2>4 DEF DecideFinding, Owes, GoTo, Safe, TypeOK
    <3>3. req[t].decision \in Decisions /\ Reviewer(req[t].by.subject)
      BY <2>4, <3>2, RequestParts DEF DecideFinding, Safe, RequestOK
    <3>4. req[t].by.tenant \in Holders(row.finding.id)'
      <4>1. PICK n, id : n = req[t].by.tenant /\ id = row.finding.id
        OBVIOUS
      <4>2. n \in Holders(id)'
        BY <3>1, <4>1, FindingsKept, HoldersGrow
      <4> QED BY <4>1, <4>2
    <3>5. Accounts(EventOf(req[t]), row)'
      BY <3>1, <3>2, <3>3, <3>4 DEF Accounts, EventOf
    <3> QED BY <3>2, <3>5 DEF Explained
  <2> QED BY <2>1, <2>2, <2>3, <2>4, RowsChange, SeedRows, ReviewRows, DecideRows
<1> QED BY <1>1, <1>2

(***************************************************************************)
(* The theorems.                                                           *)
(***************************************************************************)
Inv == Safe /\ SnapshotHolds /\ SqlUntouched /\ StatusExplained

LEMMA InvAlways == Spec => []Inv
<1>1. Init => Inv
  <2>1. Init => SnapshotHolds /\ StatusExplained
    BY DEF Init, SnapshotHolds, StatusExplained
  <2> QED BY <2>1, SafeInit, SqlInit DEF Inv
<1>2. Inv /\ [Next]_vars => Inv'
  <2> SUFFICES ASSUME Inv, [Next]_vars PROVE Inv'
    OBVIOUS
  <2>1. CASE Next
    BY <2>1, SafeStep, SnapshotStep, SqlStep, ExplainedStep DEF Next, Inv
  <2>2. CASE UNCHANGED vars
    <3>1. Safe'
      BY <2>2 DEF vars, Inv, Safe, TypeOK, RequestOK
    <3>2. SnapshotHolds'
      BY <2>2 DEF vars, Inv, SnapshotHolds
    <3>3. SqlUntouched'
      BY <2>2 DEF vars, Inv, SqlUntouched, NothingTakesEffect
    <3>4. StatusExplained'
      BY <2>2 DEF vars, Inv, StatusExplained, Accounts, Holders
    <3> QED BY <3>1, <3>2, <3>3, <3>4 DEF Inv
  <2> QED BY <2>1, <2>2
<1> QED BY <1>1, <1>2, PTL DEF Spec

\* However many requests overlap, every status that differs from the submitted one is
\* accounted for by an event of a tenant that submitted its id, a decision by a reviewer
\* (main.request_bulk_remediation, main.decide_approval).
THEOREM StatusAlwaysExplained == Spec => []StatusExplained
<1>1. Inv => StatusExplained
  BY DEF Inv
<1> QED BY InvAlways, <1>1, PTL

\* A handler may use the rows it read at its start for as long as it runs.
THEOREM SnapshotAlwaysHolds == Spec => []SnapshotHolds
<1>1. Inv => SnapshotHolds
  BY DEF Inv
<1> QED BY InvAlways, <1>1, PTL

\* With the SQL adapters no request ever changes a finding or records a decision.
THEOREM SqlHasNoEffect ==
    ASSUME ~DemoMode
    PROVE  Spec => []NothingTakesEffect
<1>1. Inv => NothingTakesEffect
  BY DEF Inv, SqlUntouched
<1> QED BY InvAlways, <1>1, PTL

\* update_status looks rows up by bare id: a step changes only the first row with an
\* id that the request's tenant has submitted itself, adds rows of that tenant only,
\* and never drops, moves or rewrites a finding.
THEOREM ChangesAlwaysStayWithHolders == Spec => ChangesStayWithHolders
<1> DEFINE Isolated == \E t \in Threads :
         /\ <<pc[t], pos[t], todo[t]>>' # <<pc[t], pos[t], todo[t]>>
         /\ Len(rows') >= Len(rows)
         /\ \A k \in DOMAIN rows : rows'[k].finding = rows[k].finding
         /\ \A k \in DOMAIN rows' :
               IF k \in DOMAIN rows
               THEN rows'[k] # rows[k] =>
                        /\ IsFirst(k, rows[k].finding.id)
                        /\ req[t].by.tenant \in Holders(rows[k].finding.id)
               ELSE rows'[k].finding.tenant = req[t].by.tenant
<1>1. Inv /\ [Next]_vars => [Isolated]_rows
  <2> SUFFICES ASSUME Inv, Next, rows' # rows PROVE Isolated
    BY DEF vars
  <2>1. PICK t \in Threads : Arrive(t) \/ Serve(t)
    BY DEF Next
  <2>2. Len(rows) \in Nat
    BY RowFindings DEF Inv, Safe, TypeOK
  <2>3. CASE SeedFinding(t)
    <3>1. pos'[t] # pos[t]
      BY <2>3 DEF SeedFinding, Inv, Safe, TypeOK
    <3> DEFINE f == req[t].findings[pos[t]]
    <3>2. /\ f.tenant = req[t].by.tenant
          /\ Len(rows') = Len(rows) + 1 /\ DOMAIN rows' = DOMAIN rows \cup {Len(rows) + 1}
          /\ \A k \in DOMAIN rows : rows'[k] = rows[k]
          /\ rows'[Len(rows) + 1] = [finding |-> f, status |-> f.status]
      BY <2>3, SeedRows DEF Inv
    <3>3. rows'[Len(rows) + 1].finding.tenant = req[t].by.tenant
      BY <3>2
    <3> QED BY <2>2, <3>1, <3>2, <3>3
  <2>4. CASE ReviewFinding(t)
    <3>1. todo'[t] # todo[t]
      BY <2>4 DEF ReviewFinding, Inv, Safe, TypeOK
    <3> QED BY <2>2, <2>4, <3>1, ReviewRows DEF Inv
  <2>5. CASE DecideFinding(t)
    <3>1. pc'[t] # pc[t]
      BY <2>5 DEF DecideFinding, GoTo, Inv, Safe, TypeOK
    <3> QED BY <2>2, <2>5, <3>1, DecideRows DEF Inv
  <2> QED BY <2>1, <2>3, <2>4, <2>5, RowsChange
<1> QED BY InvAlways, <1>1, PTL DEF Spec, ChangesStayWithHolders

(***************************************************************************)
(* The approval queue.                                                     *)
(***************************************************************************)
\* A later submission of a finding keeps the status it was submitted with.
DuplicatesAsSubmitted ==
    \A k \in DOMAIN rows :
        rows[k].status # rows[k].finding.status => IsFirst(k, rows[k].finding.id)

\* A step only changes the first row with an id.
LEMMA OnlyFirstChanges ==
    ASSUME Safe, SnapshotHolds, NEW t \in Threads, Arrive(t) \/ Serve(t),
           NEW k \in DOMAIN rows, rows'[k] # rows[k]
    PROVE  IsFirst(k, rows[k].finding.id)
<1>1. rows \in Seq(Rows)
  BY DEF Safe, TypeOK
<1>2. CASE SeedFinding(t)
  BY <1>2, SeedRows
<1>3. ASSUME NEW id, NEW s \in Status, UpdateStatus(id, s)
      PROVE  IsFirst(k, rows[k].finding.id)
  <2>1. IsFirst(k, id)
    BY <1>1, <1>3, UpdateKeepsRows
  <2> QED BY <2>1 DEF IsFirst
<1>4. CASE ReviewFinding(t)
  <2>1. PICK j \in todo[t] : UpdateStatus(rows[j].finding.id, "IN_REVIEW")
    BY <1>4 DEF ReviewFinding
  <2>2. "IN_REVIEW" \in Status
    BY DEF Status
  <2> QED BY <1>3, <2>1, <2>2
<1>5. CASE DecideFinding(t)
  <2>1. UpdateStatus(req[t].id, DecidedStatus(req[t].decision))
    BY <1>5 DEF DecideFinding
  <2>2. DecidedStatus(req[t].decision) \in Status
    BY DEF DecidedStatus, Status
  <2> QED BY <1>3, <2>1, <2>2
<1> QED BY <1>2, <1>4, <1>5, RowsChange

LEMMA DuplicatesStep ==
    ASSUME Inv, DuplicatesAsSubmitted, NEW t \in Threads, Arrive(t) \/ Serve(t)
    PROVE  DuplicatesAsSubmitted'
<1>1. rows \in Seq(Rows) /\ Safe /\ SnapshotHolds
  BY DEF Inv, Safe, TypeOK
<1>2. /\ DOMAIN rows \subseteq DOMAIN rows'
      /\ \A k \in DOMAIN rows : rows'[k].finding = rows[k].finding
  BY <1>1, FindingsKept
<1>3. ASSUME NEW k \in DOMAIN rows, rows'[k].status # rows'[k].finding.status
      PROVE  IsFirst(k, rows[k].finding.id)
  BY <1>1, <1>2, <1>3, OnlyFirstChanges DEF DuplicatesAsSubmitted
<1>4. ASSUME NEW k \in DOMAIN rows' \ DOMAIN rows
      PROVE  rows'[k].status = rows'[k].finding.status
  <2>1. SeedFinding(t)
    BY <1>1, <1>4, RowsChange, ReviewRows, DecideRows
  <2>2. PICK f : f = req[t].findings[pos[t]]
    OBVIOUS
  <2>3. rows'[k] = [finding |-> f, status |-> f.status]
    BY <1>1, <1>4, <2>1, <2>2, SeedRows
  <2> QED BY <2>3
<1>5. ASSUME NEW k \in DOMAIN rows, NEW id, IsFirst(k, id) PROVE IsFirst(k, id)'
  BY <1>1, <1>2, <1>5, FirstKept
<1>6. ASSUME NEW k \in DOMAIN rows', rows'[k].status # rows'[k].finding.status
      PROVE  IsFirst(k, rows[k].finding.id)'
  <2>1. k \in DOMAIN rows
    BY <1>4, <1>6
  <2>2. PICK id : id = rows[k].finding.id
    OBVIOUS
  <2>3. IsFirst(k, id)'
    BY <1>3, <1>5, <1>6, <2>1, <2>2
  <2>4. rows'[k].finding.id = id
    BY <1>2, <2>1, <2>2
  <2> QED BY <2>3, <2>4 DEF IsFirst
<1> QED BY <1>6 DEF DuplicatesAsSubmitted

LEMMA DuplicatesAlways == Spec => []DuplicatesAsSubmitted
<1>1. Init => DuplicatesAsSubmitted
  BY DEF Init, DuplicatesAsSubmitted
<1>2. Inv /\ DuplicatesAsSubmitted /\ [Next]_vars => DuplicatesAsSubmitted'
  <2> SUFFICES ASSUME Inv, DuplicatesAsSubmitted, [Next]_vars PROVE DuplicatesAsSubmitted'
    OBVIOUS
  <2>1. CASE Next
    BY <2>1, DuplicatesStep DEF Next
  <2>2. CASE UNCHANGED vars
    BY <2>2 DEF vars, DuplicatesAsSubmitted, IsFirst
  <2> QED BY <2>1, <2>2
<1> QED BY <1>1, <1>2, InvAlways, PTL DEF Spec

\* A thread that turns from an update of a decision to its event has decided.
LEMMA HasDecided ==
    ASSUME Safe, Next, NEW t \in Threads, pc[t] = "update", req[t].op = "decide", pc'[t] = "audit"
    PROVE  DecideFinding(t)
<1>1. PICK u \in Threads : Arrive(u) \/ Serve(u)
  BY DEF Next
<1>2. u = t
  BY <1>1, OthersUndisturbed
<1>3. SaveApplication(t) \/ FinishSeeding(t) \/ FinishBulk(t) \/ DecideFinding(t)
  BY <1>1, <1>2, AtAudit
<1> QED BY <1>3 DEF SaveApplication, FinishSeeding, FinishBulk

\* After a decision the queue shows the finding only as a later submission that came
\* in review (list_approvals, decide_approval).
THEOREM DecisionAlwaysClearsQueue == Spec => DecisionClearsQueue
<1> DEFINE Cleared ==
       \A t \in Threads :
         (pc[t] = "update" /\ req[t].op = "decide" /\ pc'[t] = "audit") =>
             \A k \in ApprovalQueue(req[t].by.tenant)' :
                 rows'[k].finding.id = req[t].id =>
                     ~IsFirst(k, req[t].id)' /\ rows'[k].finding.status = "IN_REVIEW"
<1>1. Inv /\ DuplicatesAsSubmitted /\ [Next]_vars => [Cleared]_vars
  <2> SUFFICES ASSUME Inv, DuplicatesAsSubmitted, Next,
                      NEW t \in Threads, pc[t] = "update", req[t].op = "decide", pc'[t] = "audit",
                      NEW k \in ApprovalQueue(req[t].by.tenant)', rows'[k].finding.id = req[t].id
               PROVE  ~IsFirst(k, req[t].id)' /\ rows'[k].finding.status = "IN_REVIEW"
    OBVIOUS
  <2>1. Safe /\ SnapshotHolds /\ rows \in Seq(Rows)
    BY DEF Inv, Safe, TypeOK
  <2>2. DecideFinding(t)
    BY <2>1, HasDecided
  <2>3. PICK id : id = req[t].id
    OBVIOUS
  <2>4. req' = req /\ UpdateStatus(id, DecidedStatus(req[t].decision))
    BY <2>2, <2>3 DEF DecideFinding
  <2>5. DecidedStatus(req[t].decision) \in {"REMEDIATED", "ACCEPTED_RISK"}
    BY DEF DecidedStatus
  <2>6. /\ DOMAIN rows' = DOMAIN rows
        /\ \A j \in DOMAIN rows :
              /\ rows'[j].finding = rows[j].finding
              /\ rows'[j].status = IF IsFirst(j, id) THEN DecidedStatus(req[t].decision) ELSE rows[j].status
              /\ ~IsFirst(j, id) => rows'[j] = rows[j]
    BY <2>1, <2>4, <2>5, UpdateKeepsRows DEF Status
  <2>7. k \in DOMAIN rows' /\ rows'[k].status = "IN_REVIEW"
    BY DEF ApprovalQueue, Listed
  <2>8. ~IsFirst(k, id)
    BY <2>5, <2>6, <2>7
  <2>9. ~IsFirst(k, id)'
    BY <2>1, <2>6, <2>7, <2>8, FirstKept
  <2>10. rows[k].finding.id = id /\ rows[k].status = "IN_REVIEW"
    BY <2>3, <2>6, <2>7, <2>8
  <2>11. rows[k].finding.status = "IN_REVIEW"
    BY <2>6, <2>7, <2>8, <2>10 DEF DuplicatesAsSubmitted
  <2>12. ~IsFirst(k, req[t].id)'
    BY <2>3, <2>4, <2>9 DEF IsFirst
  <2> QED BY <2>6, <2>7, <2>11, <2>12
<1> QED BY <1>1, InvAlways, DuplicatesAlways, PTL DEF Spec, DecisionClearsQueue

(***************************************************************************)
(* Reading the trail back.                                                 *)
(***************************************************************************)
\* While requests are served one at a time: a thread about to append a decision has
\* just made it, and the last decision on a finding in the trail still shows unless
\* another is about to be appended or a remediation was requested since.
OneAtATime == \A s, t \in Threads : pc[s] # "idle" /\ pc[t] # "idle" => s = t

Shows(id, decision) ==
    \E k \in DOMAIN rows : IsFirst(k, id) /\ rows[k].status = DecidedStatus(decision)

IsLast(i) ==
    /\ audit[i].type \in Decisions
    /\ \A j \in DOMAIN audit :
          j > i => ~(audit[j].type \in Decisions /\ audit[j].aggregate = audit[i].aggregate)

Deciding(id) == \E t \in Threads : pc[t] = "audit" /\ req[t].op = "decide" /\ req[t].id = id

Reopening(n) ==
    \E t \in Threads : pc[t] \in {"update", "audit"} /\ req[t].op = "bulk" /\ req[t].by.tenant = n

Reopened(i, n) ==
    \E j \in DOMAIN audit : /\ j > i
                            /\ audit[j].type = "REMEDIATION_REQUESTED"
                            /\ audit[j].tenant = n

MayReopen(i, id) == \E n \in Holders(id) : Reopened(i, n) \/ Reopening(n)

ReadBack(i) ==
    \/ Deciding(audit[i].aggregate)
    \/ \E k \in DOMAIN rows :
          /\ IsFirst(k, audit[i].aggregate)
          /\ \/ rows[k].status = DecidedStatus(audit[i].type)
             \/ rows[k].status = "IN_REVIEW" /\ MayReopen(i, audit[i].aggregate)

Serial ==
    ~overlapped =>
        /\ OneAtATime
        /\ \A t \in Threads : pc[t] = "audit" /\ req[t].op = "decide" =>
              Shows(req[t].id, req[t].decision)
        /\ \A i \in DOMAIN audit : IsLast(i) => ReadBack(i)

\* A step without overlap: the other threads are idle, or a request was refused.
LEMMA Solo ==
    ASSUME Safe, Serial, NEW t \in Threads, Arrive(t) \/ Serve(t), ~overlapped'
    PROVE  /\ ~overlapped
           /\ \/ \A u \in Threads \ {t} : pc[u] = "idle" /\ pc'[u] = "idle"
              \/ /\ UNCHANGED <<rows, audit, pc>>
                 /\ pc[t] = "idle"
           /\ \A u \in Threads \ {t} : pc'[u] = pc[u] /\ req'[u] = req[u]
           /\ OneAtATime'
<1>1. DOMAIN pc = Threads /\ overlapped \in BOOLEAN
  BY DEF Safe, TypeOK
<1>2. \A u \in Threads \ {t} : pc'[u] = pc[u] /\ req'[u] = req[u]
  BY OthersUndisturbed
<1>3. ASSUME NEW r, NEW step, Receive(t, r, step)
      PROVE  ~overlapped /\ \A u \in Threads \ {t} : pc[u] = "idle"
  BY <1>1, <1>3 DEF Receive, Busy
<1>4. ASSUME NEW code, Refuse(t, code)
      PROVE  ~overlapped /\ UNCHANGED <<rows, audit, pc>> /\ pc[t] = "idle"
  BY <1>1, <1>4 DEF Refuse, Answer, GoTo, Safe, TypeOK
<1>5. ASSUME Arrive(t) PROVE /\ ~overlapped
                            /\ \/ \A u \in Threads \ {t} : pc[u] = "idle"
                               \/ UNCHANGED <<rows, audit, pc>> /\ pc[t] = "idle"
  <2>1. (\E r, step : Receive(t, r, step)) \/ (\E code : Refuse(t, code))
    BY <1>5 DEF Arrive, ReceiveImport, ReceiveScan, ReceiveBulk, ReceiveDecision,
       RejectPath, RejectMismatch, RejectRole
  <2>2. CASE \E r, step : Receive(t, r, step)
    BY <1>3, <2>2
  <2>3. CASE \E code : Refuse(t, code)
    BY <1>4, <2>3
  <2> QED BY <2>1, <2>2, <2>3
<1>6. ASSUME Serve(t) PROVE ~overlapped /\ \A u \in Threads \ {t} : pc[u] = "idle"
  <2>1. overlapped' = overlapped /\ pc[t] # "idle"
    BY <1>6 DEF Serve, SeedFinding, RejectForeign, FinishSeeding, SaveApplication, ReadMatches,
       ReviewFinding, FinishBulk, FindDecided, RejectUnknown, DecideFinding, AppendAudit,
       MissingMethod, DatabaseFails
  <2>2. ~overlapped
    BY <2>1
  <2> QED BY <2>1, <2>2 DEF Serial, OneAtATime
<1>7. /\ ~overlapped
      /\ \/ \A u \in Threads \ {t} : pc[u] = "idle"
         \/ UNCHANGED <<rows, audit, pc>> /\ pc[t] = "idle"
  BY <1>5, <1>6
<1>8. OneAtATime'
  <2>1. CASE \A u \in Threads \ {t} : pc[u] = "idle"
    BY <1>2, <2>1 DEF OneAtATime
  <2>2. CASE UNCHANGED pc
    BY <1>7, <2>2 DEF Serial, OneAtATime
  <2> QED BY <1>7, <2>1, <2>2
<1> QED BY <1>2, <1>7, <1>8

\* What a decision shows right after its update.
LEMMA DecisionShows ==
    ASSUME Inv, NEW t \in Threads, DecideFinding(t)
    PROVE  Shows(req[t].id, req[t].decision)'
<1>1. Safe /\ SnapshotHolds /\ rows \in Seq(Rows)
  BY DEF Inv, Safe, TypeOK
<1>2. PICK id, decision : id = req[t].id /\ decision = req[t].decision
  OBVIOUS
<1>3. req' = req /\ UpdateStatus(id, DecidedStatus(decision))
  BY <1>2 DEF DecideFinding
<1>4. DecidedStatus(decision) \in Status
  BY DEF DecidedStatus, Status
<1>5. PICK j \in DOMAIN rows : rows[j].finding.id = id
  BY <1>1, <1>2 DEF DecideFinding, SnapshotHolds
<1>6. PICK k \in DOMAIN rows : IsFirst(k, id)
  BY <1>1, <1>5, FirstExists
<1>7. /\ DOMAIN rows' = DOMAIN rows
      /\ \A i \in DOMAIN rows : rows'[i].finding = rows[i].finding
      /\ rows'[k].status = DecidedStatus(decision)
  BY <1>1, <1>3, <1>4, <1>6, UpdateKeepsRows
<1>8. IsFirst(k, id)'
  BY <1>1, <1>6, <1>7, FirstKept
<1>9. Shows(id, decision)'
  BY <1>7, <1>8 DEF Shows
<1> QED BY <1>2, <1>3, <1>9 DEF Shows, IsFirst

\* In demo mode nothing but its event ends a handler that stands before it.
LEMMA OnlyAppends ==
    ASSUME DemoMode, NEW t \in Threads, Arrive(t) \/ Serve(t), pc[t] = "audit"
    PROVE  AppendAudit(t)
BY DEF Arrive, ReceiveImport, ReceiveScan, ReceiveBulk, ReceiveDecision, Receive, RejectPath,
       RejectMismatch, RejectRole, Refuse, Serve, SeedFinding, RejectForeign, FinishSeeding,
       SaveApplication, ReadMatches, ReviewFinding, FinishBulk, FindDecided, RejectUnknown,
       DecideFinding, MissingMethod, DatabaseFails, Port

LEMMA AuditStays ==
    ASSUME NEW t \in Threads, Arrive(t) \/ Serve(t)
    PROVE  audit' = audit \/ AppendAudit(t)
BY DEF Arrive, Serve, ReceiveImport, ReceiveScan, ReceiveBulk, ReceiveDecision, RejectPath,
   RejectMismatch, RejectRole, Receive, Refuse, SeedFinding, RejectForeign, FinishSeeding,
   SaveApplication, ReadMatches, ReviewFinding, FinishBulk, FindDecided, RejectUnknown,
   DecideFinding, MissingMethod, DatabaseFails

\* What a step that appends no event leaves of ReadBack.
LEMMA ReadBackStays ==
    ASSUME Inv, Serial, DemoMode, NEW t \in Threads, Arrive(t) \/ Serve(t), ~overlapped',
           audit' = audit, pc[t] # "audit", NEW i \in DOMAIN audit, ReadBack(i)
    PROVE  ReadBack(i)'
<1>1. Safe /\ SnapshotHolds /\ rows \in Seq(Rows)
  BY DEF Inv, Safe, TypeOK
<1>2. PICK e : e = audit[i]
  OBVIOUS
<1>3. \A u \in Threads \ {t} : pc'[u] = pc[u] /\ req'[u] = req[u]
  BY <1>1, Solo
<1>4. /\ DOMAIN rows \subseteq DOMAIN rows'
      /\ \A k \in DOMAIN rows : rows'[k].finding = rows[k].finding
  BY <1>1, FindingsKept
<1>5. CASE Deciding(e.aggregate)
  <2>1. PICK u \in Threads : pc[u] = "audit" /\ req[u].op = "decide" /\ req[u].id = e.aggregate
    BY <1>5 DEF Deciding
  <2>2. pc'[u] = "audit" /\ req'[u] = req[u]
    BY <1>3, <2>1
  <2>3. Deciding(e.aggregate)'
    BY <2>1, <2>2 DEF Deciding
  <2> QED BY <1>2, <2>3 DEF ReadBack, Deciding
<1>6. ASSUME NEW n, Reopened(i, n) \/ Reopening(n) PROVE (Reopened(i, n) \/ Reopening(n))'
  <2>1. CASE Reopened(i, n)
    BY <2>1 DEF Reopened
  <2>2. CASE Reopening(n)
    <3>1. PICK u \in Threads : pc[u] \in {"update", "audit"} /\ req[u].op = "bulk" /\ req[u].by.tenant = n
      BY <2>2 DEF Reopening
    <3>2. pc'[u] \in {"update", "audit"} /\ req'[u] = req[u]
      <4>1. CASE u # t
        BY <1>3, <3>1, <4>1
      <4>2. CASE u = t
        BY <1>1, <3>1, <4>2, DebtIsPaid DEF Owes, AppendAudit
      <4> QED BY <4>1, <4>2
    <3>3. Reopening(n)'
      BY <3>1, <3>2 DEF Reopening
    <3> QED BY <3>3
  <2> QED BY <1>6, <2>1, <2>2
<1>7. ASSUME NEW k \in DOMAIN rows, IsFirst(k, e.aggregate),
             \/ rows[k].status = DecidedStatus(e.type)
             \/ rows[k].status = "IN_REVIEW" /\ MayReopen(i, e.aggregate)
      PROVE  ReadBack(i)'
  <2>1. ASSUME NEW n \in Holders(e.aggregate), (Reopened(i, n) \/ Reopening(n))'
        PROVE  MayReopen(i, e.aggregate)'
    <3>1. n \in Holders(e.aggregate)'
      BY <1>4, HoldersGrow
    <3> QED BY <2>1, <3>1 DEF MayReopen
  <2>2. IsFirst(k, e.aggregate)' /\ k \in DOMAIN rows'
    BY <1>1, <1>4, <1>7, FirstKept
  <2> SUFFICES \/ rows'[k].status = DecidedStatus(e.type)
               \/ rows'[k].status = "IN_REVIEW" /\ MayReopen(i, e.aggregate)'
               \/ Deciding(e.aggregate)'
    <3>1. audit'[i] = e
      BY <1>2
    <3> QED BY <2>2, <3>1 DEF ReadBack
  <2>3. CASE rows'[k] = rows[k]
    BY <1>6, <1>7, <2>1, <2>3 DEF MayReopen
  <2>4. CASE ReviewFinding(t) /\ rows'[k] # rows[k]
    <3>1. rows'[k].status = "IN_REVIEW" /\ req[t].by.tenant \in Holders(e.aggregate)
      BY <1>1, <1>7, <2>4, ReviewRows DEF IsFirst
    <3>2. pc'[t] = "update" /\ req' = req /\ req[t].op = "bulk"
      BY <2>4 DEF ReviewFinding
    <3>3. PICK n : n = req[t].by.tenant
      OBVIOUS
    <3>4. Reopening(n)'
      BY <3>2, <3>3 DEF Reopening
    <3> QED BY <2>1, <3>1, <3>3, <3>4
  <2>5. CASE DecideFinding(t) /\ rows'[k] # rows[k]
    <3>1. rows[k].finding.id = req[t].id
      BY <1>1, <2>5, DecideRows
    <3>2. req[t].id = e.aggregate
      BY <1>7, <3>1 DEF IsFirst
    <3>3. pc'[t] = "audit" /\ req' = req /\ req[t].op = "decide"
      BY <1>1, <2>5 DEF DecideFinding, GoTo, Safe, TypeOK
    <3>4. Deciding(e.aggregate)'
      BY <3>2, <3>3 DEF Deciding
    <3> QED BY <3>4
  <2>6. CASE SeedFinding(t)
    <3>1. rows'[k] = rows[k]
      BY <1>1, <2>6, SeedRows
    <3> QED BY <2>3, <3>1
  <2> QED BY <2>3, <2>4, <2>5, <2>6, RowsChange
<1> QED BY <1>2, <1>5, <1>7 DEF ReadBack

\* Appending an event, without overlap.
LEMMA ReadBackAppended ==
    ASSUME Inv, Serial, ~overlapped, NEW t \in Threads, AppendAudit(t),
           NEW i \in DOMAIN audit', IsLast(i)'
    PROVE  ReadBack(i)'
<1>1. PICK r, n : r = req[t] /\ n = Len(audit)
  OBVIOUS
<1>2. /\ audit \in Seq(Events) /\ r \in Requests /\ EventOf(r) \in Events /\ pc[t] = "audit"
      /\ audit' = Append(audit, EventOf(r)) /\ rows' = rows
  BY <1>1, EventType DEF AppendAudit, Inv, Safe, TypeOK, RequestOK
<1>3. /\ n \in Nat /\ DOMAIN audit = 1..n /\ DOMAIN audit' = 1..(n + 1)
      /\ \A j \in 1..n : audit'[j] = audit[j]
      /\ audit'[n + 1] = EventOf(r)
  BY <1>1, <1>2, AppendProperties, LenProperties
<1>4. /\ r.op = "decide" => EventOf(r).type = r.decision /\ EventOf(r).aggregate = r.id
                            /\ r.decision \in Decisions
      /\ r.op = "bulk" => EventOf(r).type = "REMEDIATION_REQUESTED" /\ EventOf(r).tenant = r.by.tenant
      /\ r.op # "decide" => EventOf(r).type \notin Decisions
  BY <1>2, RequestParts DEF EventOf, Decisions
<1>5. \A id : \A k \in DOMAIN rows : IsFirst(k, id) => IsFirst(k, id)'
  BY <1>2 DEF IsFirst
<1>6. CASE i = n + 1
  <2>1. r.op = "decide"
    BY <1>3, <1>4, <1>6 DEF IsLast
  <2>2. Shows(r.id, r.decision)
    BY <1>1, <1>2, <2>1 DEF Serial
  <2>3. PICK k \in DOMAIN rows : IsFirst(k, r.id) /\ rows[k].status = DecidedStatus(r.decision)
    BY <2>2 DEF Shows
  <2>4. IsFirst(k, r.id)' /\ rows'[k].status = DecidedStatus(r.decision) /\ k \in DOMAIN rows'
    BY <1>2, <1>5, <2>3
  <2>5. audit'[i].aggregate = r.id /\ audit'[i].type = r.decision
    BY <1>3, <1>4, <1>6, <2>1
  <2> QED BY <2>4, <2>5 DEF ReadBack, IsFirst, DecidedStatus
<1>7. CASE i \in 1..n
  <2>1. audit'[i] = audit[i] /\ i < n + 1
    BY <1>3, <1>7
  <2>2. IsLast(i)
    BY <1>3, <1>7, <2>1 DEF IsLast
  <2>3. ~(EventOf(r).type \in Decisions /\ EventOf(r).aggregate = audit[i].aggregate)
    BY <1>3, <2>1 DEF IsLast
  <2>4. \A u \in Threads : pc[u] # "idle" => u = t
    BY <1>2 DEF Serial, OneAtATime
  <2>5. ~Deciding(audit[i].aggregate)
    BY <1>1, <1>4, <2>3, <2>4 DEF Deciding
  <2>6. PICK e : e = audit[i]
    OBVIOUS
  <2>7. PICK k \in DOMAIN rows :
          /\ IsFirst(k, e.aggregate)
          /\ \/ rows[k].status = DecidedStatus(e.type)
             \/ rows[k].status = "IN_REVIEW" /\ MayReopen(i, e.aggregate)
    BY <1>3, <1>7, <2>2, <2>5, <2>6 DEF Serial, ReadBack
  <2>8. Holders(e.aggregate)' = Holders(e.aggregate)
    BY <1>2 DEF Holders
  <2>9. IsFirst(k, e.aggregate)' /\ rows'[k] = rows[k] /\ k \in DOMAIN rows'
    BY <1>2, <1>5, <2>7
  <2>10. ASSUME NEW m, Reopened(i, m) \/ Reopening(m) PROVE Reopened(i, m)'
    <3>1. CASE Reopened(i, m)
      BY <1>3, <3>1 DEF Reopened
    <3>2. CASE Reopening(m)
      <4>1. r.op = "bulk" /\ r.by.tenant = m
        BY <1>1, <2>4, <3>2 DEF Reopening
      <4>2. n + 1 \in DOMAIN audit' /\ n + 1 > i
        BY <1>3, <1>7
      <4> QED BY <1>3, <1>4, <4>1, <4>2 DEF Reopened
    <3> QED BY <2>10, <3>1, <3>2
  <2>11. MayReopen(i, e.aggregate) => MayReopen(i, e.aggregate)'
    BY <2>8, <2>10 DEF MayReopen
  <2>12. audit'[i] = e
    BY <2>1, <2>6
  <2> QED BY <2>7, <2>9, <2>11, <2>12 DEF ReadBack
<1> QED BY <1>3, <1>6, <1>7

LEMMA SerialStep ==
    ASSUME Inv, Inv', Serial, NEW t \in Threads, Arrive(t) \/ Serve(t)
    PROVE  Serial'
<1> SUFFICES ASSUME ~overlapped' PROVE Serial'
  BY DEF Serial
<1>1. Safe /\ SnapshotHolds /\ rows \in Seq(Rows)
  BY DEF Inv, Safe, TypeOK
<1>2. ~overlapped /\ OneAtATime'
  BY <1>1, Solo
<1>3. ASSUME NEW u \in Threads, pc'[u] = "audit", req'[u].op = "decide"
      PROVE  Shows(req[u].id, req[u].decision)'
  <2>1. CASE u = t
    <3>1. DecideFinding(t)
      <4>1. SaveApplication(t) \/ FinishSeeding(t) \/ FinishBulk(t) \/ DecideFinding(t)
        BY <1>1, <1>3, <2>1, AtAudit
      <4> QED BY <1>1, <1>3, <2>1, <4>1 DEF SaveApplication, FinishSeeding, FinishBulk, Safe, RequestOK
    <3> QED BY <2>1, <3>1, DecisionShows
  <2>2. CASE u # t
    <3>1. UNCHANGED rows /\ pc[u] = "audit" /\ req'[u] = req[u]
      BY <1>1, <1>3, <2>2, Solo
    <3>2. Shows(req[u].id, req[u].decision)
      BY <1>2, <1>3, <3>1 DEF Serial
    <3> QED BY <3>1, <3>2 DEF Shows, IsFirst
  <2> QED BY <2>1, <2>2
<1>4. ASSUME NEW i \in DOMAIN audit', IsLast(i)' PROVE ReadBack(i)'
  <2>1. CASE ~DemoMode
    BY <1>4, <2>1 DEF Inv, SqlUntouched, NothingTakesEffect, IsLast
  <2>2. CASE DemoMode /\ AppendAudit(t)
    BY <1>2, <1>4, <2>2, ReadBackAppended
  <2>3. CASE DemoMode /\ ~AppendAudit(t)
    <3>1. audit' = audit /\ pc[t] # "audit"
      BY <2>3, AuditStays, OnlyAppends
    <3>2. IsLast(i)
      BY <1>4, <3>1 DEF IsLast
    <3>3. ReadBack(i)
      BY <1>2, <1>4, <3>1, <3>2 DEF Serial
    <3> QED BY <1>4, <2>3, <3>1, <3>3, ReadBackStays
  <2> QED BY <2>1, <2>2, <2>3
<1> QED BY <1>2, <1>3, <1>4 DEF Serial

LEMMA SerialAlways == Spec => []Serial
<1>1. Init => Serial
  BY DEF Init, Serial, OneAtATime
<1>2. Inv /\ Inv' /\ Serial /\ [Next]_vars => Serial'
  <2> SUFFICES ASSUME Inv, Inv', Serial, [Next]_vars PROVE Serial'
    OBVIOUS
  <2>1. CASE Next
    BY <2>1, SerialStep DEF Next
  <2>2. CASE UNCHANGED vars
    BY <2>2 DEF vars, Serial, OneAtATime, Shows, IsLast, ReadBack, Deciding, Reopening, Reopened, IsFirst,
           MayReopen, Holders
  <2> QED BY <2>1, <2>2
<1> QED BY <1>1, <1>2, InvAlways, PTL DEF Spec

\* As long as requests do not overlap, the trail tells a decided finding's status.
THEOREM LastDecisionAlwaysStands == Spec => []LastDecisionStands
<1>1. Serial => LastDecisionStands
  <2> SUFFICES ASSUME Serial, ~overlapped, \A t \in Threads : pc[t] = "idle",
                      NEW i \in DOMAIN audit, IsLast(i)
               PROVE  \E k \in DOMAIN rows :
                         /\ IsFirst(k, audit[i].aggregate)
                         /\ \/ rows[k].status = DecidedStatus(audit[i].type)
                            \/ /\ rows[k].status = "IN_REVIEW"
                               /\ \E n \in Holders(audit[i].aggregate) : Reopened(i, n)
    BY DEF LastDecisionStands, IsLast, Reopened
  <2>1. ReadBack(i)
    BY DEF Serial
  <2>2. ~Deciding(audit[i].aggregate) /\ \A n : ~Reopening(n)
    BY DEF Deciding, Reopening
  <2> QED BY <2>1, <2>2 DEF ReadBack, MayReopen
<1> QED BY <1>1, SerialAlways, PTL

(***************************************************************************)
(* The evidence of scans.                                                  *)
(***************************************************************************)
\* The scans of a tenant that have saved their application and owe their event.
Scanning(n) == {t \in Threads : pc[t] = "audit" /\ req[t].op = "scan" /\ req[t].by.tenant = n}

Evidence ==
    \A n \in Tenants : /\ IsFiniteSet(Scanning(n))
                       /\ apps[n] = Cardinality(ScanEvents(n)) + Cardinality(Scanning(n))

LEMMA EventsAreFinite ==
    ASSUME Safe, NEW n
    PROVE  IsFiniteSet(ScanEvents(n)) /\ Cardinality(ScanEvents(n)) \in Nat
<1>1. DOMAIN audit = 1..Len(audit) /\ Len(audit) \in Nat
  BY LenProperties DEF Safe, TypeOK
<1>2. ScanEvents(n) \in SUBSET (1..Len(audit))
  BY <1>1 DEF ScanEvents
<1>3. IsFiniteSet(1..Len(audit))
  BY <1>1, FS_Interval
<1>4. IsFiniteSet(ScanEvents(n))
  BY <1>2, <1>3, FS_Subset
<1> QED BY <1>4, FS_CardinalityType

\* Which threads owe the event of a scan changes in two steps only.
LEMMA ScanningStays ==
    ASSUME Safe, DemoMode, NEW t \in Threads, Arrive(t) \/ Serve(t), NEW n,
           ~SaveApplication(t), ~AppendAudit(t)
    PROVE  Scanning(n)' = Scanning(n)
<1>1. \A u \in Threads \ {t} : pc'[u] = pc[u] /\ req'[u] = req[u]
  BY OthersUndisturbed
<1>2. pc[t] # "audit"
  BY OnlyAppends
<1>3. ~(pc'[t] = "audit" /\ req'[t].op = "scan")
  <2> SUFFICES ASSUME pc'[t] = "audit", req'[t].op = "scan" PROVE FALSE
    OBVIOUS
  <2>1. FinishSeeding(t) \/ FinishBulk(t) \/ DecideFinding(t)
    BY AtAudit
  <2>2. CASE FinishSeeding(t)
    BY <2>2 DEF FinishSeeding, GoTo, Safe, TypeOK
  <2>3. CASE FinishBulk(t) \/ DecideFinding(t)
    BY <2>3 DEF FinishBulk, DecideFinding
  <2> QED BY <2>1, <2>2, <2>3
<1> QED BY <1>1, <1>2, <1>3 DEF Scanning

LEMMA EvidenceStep ==
    ASSUME Safe, Safe', DemoMode, Evidence, NEW t \in Threads, Arrive(t) \/ Serve(t)
    PROVE  Evidence'
<1> SUFFICES ASSUME NEW n \in Tenants
             PROVE  /\ IsFiniteSet(Scanning(n)')
                    /\ apps'[n] = Cardinality(ScanEvents(n)') + Cardinality(Scanning(n)')
  BY DEF Evidence
<1>1. /\ IsFiniteSet(Scanning(n)) /\ Cardinality(Scanning(n)) \in Nat
      /\ apps[n] = Cardinality(ScanEvents(n)) + Cardinality(Scanning(n))
      /\ IsFiniteSet(ScanEvents(n)) /\ Cardinality(ScanEvents(n)) \in Nat
  BY EventsAreFinite, FS_CardinalityType DEF Evidence
<1>2. \A u \in Threads \ {t} : pc'[u] = pc[u] /\ req'[u] = req[u]
  BY OthersUndisturbed
<1>3. CASE SaveApplication(t)
  <2>1. /\ pc[t] = "save" /\ pc'[t] = "audit" /\ req' = req /\ req[t].op = "scan"
        /\ ScanEvents(n)' = ScanEvents(n)
        /\ apps' = [apps EXCEPT ![req[t].by.tenant] = @ + 1]
    BY <1>3 DEF SaveApplication, GoTo, Safe, TypeOK, RequestOK, ScanEvents
  <2>2. CASE req[t].by.tenant = n
    <3>1. Scanning(n)' = Scanning(n) \cup {t} /\ t \notin Scanning(n)
      BY <1>2, <2>1, <2>2 DEF Scanning
    <3>2. IsFiniteSet(Scanning(n)') /\ Cardinality(Scanning(n)') = Cardinality(Scanning(n)) + 1
      BY <1>1, <3>1, FS_AddElement
    <3>3. apps'[n] = apps[n] + 1
      BY <2>1, <2>2 DEF Safe, TypeOK
    <3> QED BY <1>1, <2>1, <3>2, <3>3
  <2>3. CASE req[t].by.tenant # n
    <3>1. Scanning(n)' = Scanning(n)
      BY <1>2, <2>1, <2>3 DEF Scanning
    <3>2. apps'[n] = apps[n]
      BY <2>1, <2>3 DEF Safe, TypeOK
    <3> QED BY <1>1, <2>1, <3>1, <3>2
  <2> QED BY <2>2, <2>3
<1>4. CASE AppendAudit(t)
  <2>1. PICK r, m : r = req[t] /\ m = Len(audit)
    OBVIOUS
  <2>2. /\ audit \in Seq(Events) /\ r \in Requests /\ EventOf(r) \in Events /\ pc[t] = "audit"
        /\ audit' = Append(audit, EventOf(r)) /\ apps' = apps /\ pc'[t] = "idle"
    BY <1>4, <2>1, EventType DEF AppendAudit, Answer, GoTo, Safe, TypeOK, RequestOK
  <2>3. /\ m \in Nat /\ DOMAIN audit = 1..m /\ DOMAIN audit' = 1..(m + 1)
        /\ \A j \in 1..m : audit'[j] = audit[j]
        /\ audit'[m + 1] = EventOf(r)
    BY <2>1, <2>2, AppendProperties, LenProperties
  <2>4. /\ EventOf(r).tenant = r.by.tenant
        /\ EventOf(r).type = "REPOSITORY_SCAN" <=> r.op = "scan"
    BY <2>2, RequestParts DEF EventOf, Decisions
  <2>5. CASE r.op = "scan" /\ r.by.tenant = n
    <3>1. ScanEvents(n)' = ScanEvents(n) \cup {m + 1} /\ m + 1 \notin ScanEvents(n)
      BY <2>3, <2>4, <2>5 DEF ScanEvents
    <3>2. Cardinality(ScanEvents(n)') = Cardinality(ScanEvents(n)) + 1
      BY <1>1, <3>1, FS_AddElement
    <3>3. Scanning(n)' = Scanning(n) \ {t} /\ t \in Scanning(n)
      BY <1>2, <2>1, <2>2, <2>5 DEF Scanning
    <3>4. IsFiniteSet(Scanning(n)') /\ Cardinality(Scanning(n)') = Cardinality(Scanning(n)) - 1
      BY <1>1, <3>3, FS_RemoveElement
    <3> QED BY <1>1, <2>2, <3>2, <3>4
  <2>6. CASE ~(r.op = "scan" /\ r.by.tenant = n)
    <3>1. ScanEvents(n)' = ScanEvents(n)
      BY <2>3, <2>4, <2>6 DEF ScanEvents
    <3>2. Scanning(n)' = Scanning(n)
      BY <1>2, <2>1, <2>2, <2>6 DEF Scanning
    <3> QED BY <1>1, <2>2, <3>1, <3>2
  <2> QED BY <2>5, <2>6
<1>5. CASE ~SaveApplication(t) /\ ~AppendAudit(t)
  <2>1. Scanning(n)' = Scanning(n)
    BY <1>5, ScanningStays
  <2>2. audit' = audit
    BY <1>5, AuditStays
  <2>3. apps' = apps
    BY <1>5 DEF Arrive, Serve, ReceiveImport, ReceiveScan, ReceiveBulk, ReceiveDecision, RejectPath,
       RejectMismatch, RejectRole, Receive, Refuse, SeedFinding, RejectForeign, FinishSeeding,
       ReadMatches, ReviewFinding, FinishBulk, FindDecided, RejectUnknown,
       DecideFinding, MissingMethod, DatabaseFails
  <2>4. ScanEvents(n)' = ScanEvents(n)
    BY <2>2 DEF ScanEvents
  <2> QED BY <1>1, <2>1, <2>3, <2>4
<1> QED BY <1>3, <1>4, <1>5

\* In demo mode a tenant has one application record for each of its scans' events
\* and for each scan about to append its own (LocalSecurityMvp.scan, mvp_scan).
THEOREM ScanEvidenceHolds ==
    ASSUME DemoMode
    PROVE  Spec => []ScanEvidence
<1>1. Init => Evidence
  <2> SUFFICES ASSUME Init, NEW n \in Tenants
               PROVE  /\ IsFiniteSet(Scanning(n))
                      /\ apps[n] = Cardinality(ScanEvents(n)) + Cardinality(Scanning(n))
    BY DEF Evidence
  <2>1. Scanning(n) = {} /\ ScanEvents(n) = {} /\ apps[n] = 0
    BY DEF Init, Scanning, ScanEvents
  <2> QED BY <2>1, FS_EmptySet
<1>2. Safe /\ Safe' /\ Evidence /\ [Next]_vars => Evidence'
  <2> SUFFICES ASSUME Safe, Safe', Evidence, [Next]_vars PROVE Evidence'
    OBVIOUS
  <2>1. CASE Next
    BY <2>1, EvidenceStep DEF Next
  <2>2. CASE UNCHANGED vars
    BY <2>2 DEF vars, Evidence, Scanning, ScanEvents
  <2> QED BY <2>1, <2>2
<1>3. Evidence => ScanEvidence
  BY DEF Evidence, ScanEvidence, Scanning
<1> QED BY <1>1, <1>2, <1>3, SafeAlways, PTL DEF Spec

(***************************************************************************)
(* The seed loop: what a thread has worked off of its payload.             *)
(***************************************************************************)
SeededOwn ==
    \A t \in Threads :
        /\ pc[t] = "idle" => pos[t] = 1
        /\ pc[t] = "seed" =>
              /\ pos[t] \in 1..(Len(req[t].findings) + 1)
              /\ \A j \in 1..(pos[t] - 1) : req[t].findings[j].tenant = req[t].by.tenant

\* Where a step of a thread leaves it in its payload.
LEMMA PosChange ==
    ASSUME Safe, NEW t \in Threads, Arrive(t) \/ Serve(t)
    PROVE  \/ pos'[t] = 1 /\ pc'[t] = "idle"
           \/ /\ pos'[t] = pos[t] /\ pc[t] = "idle" /\ pc'[t] # "idle"
              /\ pc'[t] = "seed" => Len(req'[t].findings) \in Nat
           \/ SeedFinding(t)
           \/ pos'[t] = pos[t] /\ pc[t] # "idle" /\ pc'[t] \notin {"idle", "seed"}
<1>1. /\ DOMAIN pc = Threads /\ DOMAIN pos = Threads /\ DOMAIN req = Threads
  BY DEF Safe, TypeOK
<1>2. ASSUME NEW code, Answer(t, code)
      PROVE  pos'[t] = 1 /\ pc'[t] = "idle"
  BY <1>1, <1>2 DEF Answer, GoTo
<1>3. ASSUME NEW r, NEW step \in {"seed", "read"}, Receive(t, r, step)
      PROVE  pos'[t] = pos[t] /\ pc[t] = "idle" /\ pc'[t] = step /\ req'[t] = r
  BY <1>1, <1>3 DEF Receive, GoTo
<1>4. CASE ReceiveImport(t) \/ ReceiveScan(t)
  <2>1. ASSUME NEW op, NEW by, NEW findings \in Payloads,
               Receive(t, [op |-> op, by |-> by, findings |-> findings], "seed")
        PROVE  /\ pos'[t] = pos[t] /\ pc[t] = "idle" /\ pc'[t] = "seed"
               /\ Len(req'[t].findings) \in Nat
    <3>1. Len(findings) \in Nat
      BY LenProperties
    <3> QED BY <1>3, <2>1, <3>1
  <2>2. CASE ReceiveImport(t)
    BY <2>1, <2>2 DEF ReceiveImport
  <2>3. CASE ReceiveScan(t)
    BY <2>1, <2>3 DEF ReceiveScan
  <2> QED BY <1>4, <2>2, <2>3
<1>5. CASE ReceiveBulk(t) \/ ReceiveDecision(t)
  <2>1. PICK r : Receive(t, r, "read")
    BY <1>5 DEF ReceiveBulk, ReceiveDecision
  <2> QED BY <1>3, <2>1
<1>6. CASE \/ RejectPath(t) \/ RejectMismatch(t) \/ RejectRole(t) \/ RejectForeign(t)
           \/ RejectUnknown(t) \/ AppendAudit(t) \/ MissingMethod(t) \/ DatabaseFails(t)
  BY <1>2, <1>6 DEF RejectPath, RejectMismatch, RejectRole, Refuse, RejectForeign, RejectUnknown,
                    AppendAudit, MissingMethod, DatabaseFails
<1>7. CASE \/ FinishSeeding(t) \/ SaveApplication(t) \/ ReadMatches(t) \/ ReviewFinding(t)
           \/ FinishBulk(t) \/ FindDecided(t) \/ DecideFinding(t)
  BY <1>1, <1>7 DEF FinishSeeding, SaveApplication, ReadMatches, ReviewFinding, FinishBulk,
                    FindDecided, DecideFinding, GoTo
<1> QED BY <1>4, <1>5, <1>6, <1>7 DEF Arrive, Serve

\* One finding more is seeded, and it is the caller's.
LEMMA SeedAdvances ==
    ASSUME Safe, NEW t \in Threads, SeedFinding(t)
    PROVE  /\ pos'[t] = pos[t] + 1 /\ pos[t] \in 1..Len(req[t].findings) /\ Len(req[t].findings) \in Nat
           /\ req[t].findings[pos[t]].tenant = req[t].by.tenant
           /\ UNCHANGED <<pc, req, todo>> /\ pc[t] = "seed"
<1>1. req[t].findings \in Seq(Findings)
  BY RequestParts DEF SeedFinding, Safe, RequestOK
<1>2. DOMAIN req[t].findings = 1..Len(req[t].findings) /\ Len(req[t].findings) \in Nat
  BY <1>1, LenProperties
<1> QED BY <1>2 DEF SeedFinding, Safe, TypeOK

LEMMA SeededOwnAlways == Spec => []SeededOwn
<1>1. Init => SeededOwn
  BY DEF Init, SeededOwn
<1>2. Safe /\ SeededOwn /\ [Next]_vars => SeededOwn'
  <2> SUFFICES ASSUME Safe, SeededOwn, [Next]_vars, NEW u \in Threads
               PROVE  SeededOwn!(u)'
    BY DEF SeededOwn
  <2>1. CASE UNCHANGED vars
    BY <2>1 DEF vars, SeededOwn
  <2>2. ASSUME NEW t \in Threads, Arrive(t) \/ Serve(t)
        PROVE  SeededOwn!(u)'
    <3>1. CASE u # t
      <4>1. pc'[u] = pc[u] /\ req'[u] = req[u] /\ pos'[u] = pos[u]
        BY <2>2, <3>1, OthersUndisturbed
      <4> QED BY <4>1 DEF SeededOwn
    <3>2. CASE u = t /\ SeedFinding(t)
      <4>1. /\ pos'[t] = pos[t] + 1 /\ pos[t] \in 1..Len(req[t].findings)
            /\ Len(req[t].findings) \in Nat /\ pc[t] = "seed" /\ pc' = pc /\ req' = req
            /\ req[t].findings[pos[t]].tenant = req[t].by.tenant
        BY <3>2, SeedAdvances
      <4>2. \A j \in 1..(pos[t] - 1) : req[t].findings[j].tenant = req[t].by.tenant
        BY <4>1 DEF SeededOwn
      <4>3. \A j \in 1..pos[t] : req[t].findings[j].tenant = req[t].by.tenant
        <5>1. \A j \in 1..pos[t] : j = pos[t] \/ j \in 1..(pos[t] - 1)
          BY <4>1
        <5> QED BY <4>1, <4>2, <5>1
      <4> QED BY <3>2, <4>1, <4>3
    <3>3. CASE u = t /\ ~SeedFinding(t)
      <4>1. \/ pos'[t] = 1 /\ pc'[t] = "idle"
            \/ pos[t] = 1 /\ pos'[t] = 1 /\ pc'[t] # "idle" /\ (pc'[t] = "seed" => Len(req'[t].findings) \in Nat)
            \/ pc'[t] \notin {"idle", "seed"}
        BY <2>2, <3>3, PosChange DEF SeededOwn
      <4> QED BY <3>3, <4>1
    <3> QED BY <3>1, <3>2, <3>3
  <2> QED BY <2>1, <2>2 DEF Next
<1> QED BY SafeAlways, <1>1, <1>2, PTL DEF Spec

(***************************************************************************)
(* What is imported leaves a trace.                                        *)
(***************************************************************************)
ImportTypes == {"SCAN_IMPORTED", "REPOSITORY_SCAN"}

\* A thread that has seeded something, or will seed nothing more, and owes its event.
Importing(t) ==
    /\ pc[t] \in {"seed", "save", "audit"} /\ req[t].op \in {"import", "scan"}
    /\ pc[t] = "seed" => pos[t] > 1

Traced(n) ==
    \/ \E i \in DOMAIN audit : audit[i].type \in ImportTypes /\ audit[i].tenant = n
    \/ \E t \in Threads : Importing(t) /\ req[t].by.tenant = n

Uniform == \A p \in Payloads : \A j, k \in DOMAIN p : p[j].tenant = p[k].tenant

\* An import of one tenant's findings that has begun is not refused any more.
LEMMA ImportGoesOn ==
    ASSUME Safe, SeededOwn, DemoMode, Uniform, NEW t \in Threads, Arrive(t) \/ Serve(t), Importing(t)
    PROVE  (Importing(t)' /\ req'[t] = req[t]) \/ AppendAudit(t)
<1>1. /\ DOMAIN pc = Threads /\ DOMAIN pos = Threads /\ req[t] \in Requests /\ pos[t] \in Nat
      /\ pc[t] \in {"seed", "save", "audit"} /\ req[t].op \in {"import", "scan"}
  BY DEF Safe, TypeOK, RequestOK, Importing
<1>2. req[t].findings \in Payloads /\ req[t].findings \in Seq(Findings)
  BY <1>1, RequestParts
<1>3. ~RejectForeign(t)
  <2> SUFFICES ASSUME RejectForeign(t) PROVE FALSE
    OBVIOUS
  <2>1. pc[t] = "seed" /\ pos[t] \in DOMAIN req[t].findings
        /\ req[t].findings[pos[t]].tenant # req[t].by.tenant
    BY DEF RejectForeign
  <2>2. pos[t] > 1 /\ DOMAIN req[t].findings = 1..Len(req[t].findings) /\ Len(req[t].findings) \in Nat
    BY <1>2, <2>1, LenProperties DEF Importing
  <2>3. 1 \in DOMAIN req[t].findings /\ 1 \in 1..(pos[t] - 1)
    BY <1>1, <2>1, <2>2
  <2>4. req[t].findings[1].tenant = req[t].by.tenant
    BY <2>1, <2>3 DEF SeededOwn
  <2>5. req[t].findings[1].tenant = req[t].findings[pos[t]].tenant
    BY <1>2, <2>1, <2>3 DEF Uniform
  <2> QED BY <2>1, <2>4, <2>5
<1>4. SeedFinding(t) \/ FinishSeeding(t) \/ SaveApplication(t) \/ AppendAudit(t)
  BY <1>1, <1>3 DEF Arrive, Serve, ReceiveImport, ReceiveScan, ReceiveBulk, ReceiveDecision, Receive,
         RejectPath, RejectMismatch, RejectRole, Refuse, ReadMatches, ReviewFinding, FinishBulk,
         FindDecided, RejectUnknown, DecideFinding, MissingMethod, DatabaseFails, Port
<1>5. CASE SeedFinding(t)
  BY <1>1, <1>5, SeedAdvances DEF Importing
<1>6. CASE FinishSeeding(t) \/ SaveApplication(t)
  BY <1>1, <1>6 DEF FinishSeeding, SaveApplication, GoTo, Importing
<1> QED BY <1>4, <1>5, <1>6

LEMMA TracedStays ==
    ASSUME Safe, SeededOwn, DemoMode, Uniform, NEW t \in Threads, Arrive(t) \/ Serve(t), NEW n, Traced(n)
    PROVE  Traced(n)'
<1>1. CASE \E i \in DOMAIN audit : audit[i].type \in ImportTypes /\ audit[i].tenant = n
  BY <1>1, TrailGrows DEF Traced
<1>2. ASSUME NEW u \in Threads, Importing(u), req[u].by.tenant = n
      PROVE  Traced(n)'
  <2>1. CASE u # t
    <3>1. pc'[u] = pc[u] /\ req'[u] = req[u] /\ pos'[u] = pos[u]
      BY <2>1, OthersUndisturbed
    <3> QED BY <1>2, <3>1 DEF Traced, Importing
  <2>2. CASE u = t /\ AppendAudit(t)
    <3>1. /\ EventOf(req[t]).type \in ImportTypes /\ EventOf(req[t]).tenant = n
      BY <1>2, <2>2 DEF Importing, EventOf, ImportTypes
    <3> QED BY <2>2, <3>1, TrailGrows DEF Traced
  <2>3. CASE u = t /\ Importing(t)' /\ req'[t] = req[t]
    BY <1>2, <2>3 DEF Traced
  <2> QED BY <1>2, <2>1, <2>2, <2>3, ImportGoesOn
<1> QED BY <1>1, <1>2 DEF Traced

RowsTraced == \A k \in DOMAIN rows : k > Len(InitialRows) => Traced(rows[k].finding.tenant)

LEMMA RowsTracedStep ==
    ASSUME Safe, SnapshotHolds, SeededOwn, DemoMode, Uniform, RowsTraced,
           NEW t \in Threads, Arrive(t) \/ Serve(t)
    PROVE  RowsTraced'
<1> SUFFICES ASSUME NEW k \in DOMAIN rows', k > Len(InitialRows), NEW n, n = rows'[k].finding.tenant
             PROVE  Traced(n)'
  BY DEF RowsTraced
<1>1. CASE k \in DOMAIN rows
  <2>1. rows'[k].finding = rows[k].finding
    BY <1>1, FindingsKept
  <2>2. Traced(n)
    BY <1>1, <2>1 DEF RowsTraced
  <2> QED BY <2>2, TracedStays
<1>2. CASE k \notin DOMAIN rows
  <2>1. SeedFinding(t)
    BY <1>2, RowsChange, ReviewRows, DecideRows
  <2>2. n = req[t].by.tenant
    <3> DEFINE f == req[t].findings[pos[t]]
    <3>1. /\ DOMAIN rows' = DOMAIN rows \cup {Len(rows) + 1} /\ f.tenant = req[t].by.tenant
          /\ rows'[Len(rows) + 1] = [finding |-> f, status |-> f.status]
      BY <2>1, SeedRows
    <3>2. rows'[k] = [finding |-> f, status |-> f.status]
      BY <1>2, <3>1
    <3> QED BY <3>1, <3>2
  <2>3. /\ pc'[t] = "seed" /\ req' = req /\ pos'[t] > 1
        /\ req[t].op \in {"import", "scan"}
    BY <2>1, SeedAdvances DEF Safe, RequestOK
  <2> QED BY <2>2, <2>3 DEF Traced, Importing
<1> QED BY <1>1, <1>2

\* The README's claim, and what it needs: if no submission mixes tenants, then every
\* finding a request has left behind has an import event of its tenant once all
\* requests are answered, in both modes, however the requests overlap (import_scan
\* and mvp_scan refuse before they seed anything, or reach their event).
THEOREM UniformImportsAreAudited ==
    ASSUME Uniform
    PROVE  Spec => []MutationsAudited
<1>1. Init => RowsTraced
  <2> SUFFICES ASSUME Init PROVE RowsTraced
    OBVIOUS
  <2>1. DOMAIN rows = 1..Len(InitialRows) /\ Len(InitialRows) \in Nat
    BY LenProperties DEF Init
  <2> QED BY <2>1 DEF RowsTraced
<1> DEFINE I == DemoMode => RowsTraced
<1>2. Inv /\ SeededOwn /\ I /\ [Next]_vars => I'
  <2> SUFFICES ASSUME Inv, SeededOwn, DemoMode, RowsTraced, [Next]_vars PROVE RowsTraced'
    OBVIOUS
  <2>1. CASE UNCHANGED vars
    BY <2>1 DEF vars, RowsTraced, Traced, Importing
  <2>2. CASE Next
    BY <2>2, RowsTracedStep DEF Next, Inv
  <2> QED BY <2>1, <2>2
<1>3. Inv /\ I => MutationsAudited
  <2> SUFFICES ASSUME Inv, DemoMode => RowsTraced, \A t \in Threads : pc[t] = "idle",
                      NEW k \in (Len(InitialRows) + 1)..Len(rows)
               PROVE  \E i \in DOMAIN audit : /\ audit[i].type \in {"SCAN_IMPORTED", "REPOSITORY_SCAN"}
                                              /\ audit[i].tenant = rows[k].finding.tenant
    BY DEF MutationsAudited
  <2>1. DOMAIN rows = 1..Len(rows) /\ Len(rows) \in Nat /\ Len(InitialRows) \in Nat
    BY LenProperties DEF Inv, Safe, TypeOK
  <2>2. DemoMode
    BY <2>1 DEF Inv, SqlUntouched, NothingTakesEffect
  <2>3. Traced(rows[k].finding.tenant)
    BY <2>1, <2>2 DEF RowsTraced
  <2> QED BY <2>3 DEF Traced, Importing, ImportTypes
<1>4. Init => I
  BY <1>1
<1> HIDE DEF I
<1> QED BY InvAlways, SeededOwnAlways, <1>2, <1>3, <1>4, PTL DEF Spec

(***************************************************************************)
(* Every step of a handler brings its request closer to its answer: what   *)
(* safety there is in the termination of handlers.                         *)
(***************************************************************************)
Stage(t) ==
    CASE pc[t] = "idle" -> 0
      [] pc[t] = "audit" -> 1
      [] pc[t] = "save" -> 2
      [] pc[t] \in {"seed", "update"} -> 3
      [] pc[t] = "read" -> 4

\* What is left of the loop a thread is in: findings to seed, or rows to review.
Left(t) == Owed(t) + Cardinality(todo[t])

Closer(t) == Stage(t)' < Stage(t) \/ (Stage(t)' = Stage(t) /\ Left(t)' < Left(t))

\* One thread moves; a request it serves comes closer to its answer, and no other is
\* set back.
Advance ==
    \E t \in Threads :
        /\ \A u \in Threads \ {t} : Stage(u)' = Stage(u) /\ Left(u)' = Left(u)
        /\ pc[t] # "idle" => Stage(t) \in Nat /\ Left(t) \in Nat /\ Left(t)' \in Nat /\ Closer(t)

Measured == \A t \in Threads : Left(t) \in Nat

LEMMA StageIs ==
    ASSUME Safe, NEW t \in Threads
    PROVE  /\ pc[t] = "idle" => Stage(t) = 0
           /\ pc[t] = "audit" => Stage(t) = 1
           /\ pc[t] = "save" => Stage(t) = 2
           /\ pc[t] \in {"seed", "update"} => Stage(t) = 3
           /\ pc[t] = "read" => Stage(t) = 4
           /\ pc[t] \in {"idle", "audit", "save", "seed", "update", "read"}
BY DEF Safe, TypeOK, Stage

LEMMA LeftIs ==
    ASSUME Safe, SnapshotHolds, SeededOwn, NEW t \in Threads
    PROVE  /\ IsFiniteSet(todo[t]) /\ Cardinality(todo[t]) \in Nat
           /\ Owed(t) \in Nat /\ Left(t) \in Nat
           /\ pc[t] = "seed" => Left(t) = Len(req[t].findings) - pos[t] + 1
           /\ pc[t] # "seed" => Left(t) = Cardinality(todo[t])
<1>1. DOMAIN rows = 1..Len(rows) /\ Len(rows) \in Nat
  BY LenProperties DEF Safe, TypeOK
<1>2. todo[t] \subseteq 1..Len(rows) /\ (pc[t] # "update" => todo[t] = {})
  BY <1>1 DEF Safe, RequestOK, SnapshotHolds
<1>3. IsFiniteSet(todo[t]) /\ Cardinality(todo[t]) \in Nat
  <2>1. IsFiniteSet(1..Len(rows))
    BY <1>1, FS_Interval
  <2>2. IsFiniteSet(todo[t])
    BY <1>2, <2>1, FS_Subset
  <2> QED BY <2>2, FS_CardinalityType
<1>4. pc[t] = "seed" => /\ Len(req[t].findings) \in Nat /\ pos[t] \in 1..(Len(req[t].findings) + 1)
                        /\ Cardinality(todo[t]) = 0
  <2> SUFFICES ASSUME pc[t] = "seed"
               PROVE  /\ Len(req[t].findings) \in Nat /\ pos[t] \in 1..(Len(req[t].findings) + 1)
                      /\ Cardinality(todo[t]) = 0
    OBVIOUS
  <2>1. req[t].findings \in Seq(Findings)
    BY RequestParts DEF Safe, RequestOK
  <2> QED BY <1>2, <2>1, FS_EmptySet, LenProperties DEF SeededOwn
<1> QED BY <1>3, <1>4 DEF Left, Owed

\* Where each step leads, and what it leaves to do.
LEMMA ServeAdvances ==
    ASSUME Safe, SnapshotHolds, SeededOwn, NEW t \in Threads, Serve(t)
    PROVE  Closer(t)
<1>1. DOMAIN pc = Threads /\ DOMAIN todo = Threads
  BY DEF Safe, TypeOK
<1>2. /\ pc'[t] = "idle" => Stage(t)' = 0
      /\ pc'[t] = "audit" => Stage(t)' = 1
      /\ pc'[t] = "save" => Stage(t)' = 2
      /\ pc'[t] \in {"seed", "update"} => Stage(t)' = 3
  BY DEF Stage
<1>3. ASSUME NEW code, Answer(t, code), pc[t] # "idle"
      PROVE  Closer(t)
  BY <1>1, <1>2, <1>3, StageIs DEF Answer, GoTo, Closer
<1>4. CASE RejectForeign(t) \/ RejectUnknown(t) \/ AppendAudit(t) \/ MissingMethod(t) \/ DatabaseFails(t)
  BY <1>3, <1>4 DEF RejectForeign, RejectUnknown, AppendAudit, MissingMethod, DatabaseFails
<1>5. CASE FinishSeeding(t) \/ SaveApplication(t)
  BY <1>1, <1>2, <1>5, StageIs DEF FinishSeeding, SaveApplication, GoTo, Closer
<1>6. CASE ReadMatches(t) \/ FindDecided(t)
  BY <1>1, <1>2, <1>6, StageIs DEF ReadMatches, FindDecided, GoTo, Closer
<1>7. CASE FinishBulk(t) \/ DecideFinding(t)
  BY <1>1, <1>2, <1>7, StageIs DEF FinishBulk, DecideFinding, GoTo, Closer
<1>8. CASE SeedFinding(t)
  <2>1. /\ pos'[t] = pos[t] + 1 /\ pos[t] \in Nat /\ Len(req[t].findings) \in Nat
        /\ pc' = pc /\ req' = req /\ todo' = todo /\ pc[t] = "seed"
    BY <1>8, SeedAdvances
  <2>2. Stage(t)' = 3 /\ Stage(t) = 3
    BY <1>2, <2>1, StageIs
  <2>3. Cardinality(todo[t]) \in Nat
    BY LeftIs
  <2>4. Left(t)' < Left(t)
    BY <2>1, <2>3 DEF Left, Owed
  <2> QED BY <2>2, <2>4 DEF Closer
<1>9. CASE ReviewFinding(t)
  <2>1. PICK k \in todo[t] : todo' = [todo EXCEPT ![t] = @ \ {k}]
    BY <1>9 DEF ReviewFinding
  <2>2. todo'[t] = todo[t] \ {k} /\ pc[t] = "update" /\ pc' = pc
    BY <1>1, <1>9, <2>1 DEF ReviewFinding
  <2>3. IsFiniteSet(todo[t]) /\ Cardinality(todo[t]) \in Nat
    BY LeftIs
  <2>4. Cardinality(todo'[t]) = Cardinality(todo[t]) - 1
    BY <2>2, <2>3, FS_RemoveElement
  <2>5. Left(t)' < Left(t)
    BY <2>2, <2>3, <2>4 DEF Left, Owed
  <2>6. Stage(t)' = 3 /\ Stage(t) = 3
    BY <1>2, <2>2, StageIs
  <2> QED BY <2>5, <2>6 DEF Closer
<1> QED BY <1>4, <1>5, <1>6, <1>7, <1>8, <1>9 DEF Serve

\* Every step is one thread's.  If that thread serves a request, the request comes
\* closer to its answer, in stages and in findings left, by a measure that is always
\* finite; and no other thread's request is set back, although all threads seed,
\* review and decide the same rows.  So no handler can loop for ever, whatever the
\* others do between its steps (import_scan, request_bulk_remediation).
THEOREM HandlersAdvance == Spec => [][Advance]_vars
<1>1. Safe /\ SnapshotHolds /\ SeededOwn => Measured
  BY LeftIs DEF Measured
<1>2. Safe /\ SnapshotHolds /\ SeededOwn /\ Measured /\ Measured' /\ [Next]_vars => [Advance]_vars
  <2> SUFFICES ASSUME Safe, SnapshotHolds, SeededOwn, Measured, Measured',
                      NEW t \in Threads, Arrive(t) \/ Serve(t)
               PROVE  Advance
    BY DEF Next
  <2>1. ASSUME NEW u \in Threads \ {t}
        PROVE  Stage(u)' = Stage(u) /\ Left(u)' = Left(u)
    BY OthersUndisturbed DEF Stage, Left, Owed
  <2>2. ASSUME pc[t] # "idle"
        PROVE  Stage(t) \in Nat /\ Left(t) \in Nat /\ Left(t)' \in Nat /\ Closer(t)
    <3>1. Serve(t)
      BY <2>2 DEF Arrive, ReceiveImport, ReceiveScan, ReceiveBulk, ReceiveDecision, Receive,
                  RejectPath, RejectMismatch, RejectRole, Refuse
    <3>2. Left(t) \in Nat /\ Left(t)' \in Nat
      BY DEF Measured
    <3>3. Stage(t) \in Nat
      BY StageIs
    <3>4. Closer(t)
      BY <3>1, ServeAdvances
    <3> QED BY <3>2, <3>3, <3>4
  <2> QED BY <2>1, <2>2 DEF Advance
<1>3. Inv => Safe /\ SnapshotHolds
  BY DEF Inv
<1> QED BY InvAlways, SeededOwnAlways, <1>1, <1>2, <1>3, PTL DEF Spec

(***************************************************************************)
(* Who decided what.                                                       *)
(***************************************************************************)
Known(id, n) == \E k \in DOMAIN rows : rows[k].finding.id = id /\ rows[k].finding.tenant = n

\* Every decision in the trail is a reviewer's, on a finding of the tenant it is
\* recorded for (decide_approval).
DecisionsAccountable ==
    \A i \in DOMAIN audit :
        audit[i].type \in Decisions =>
            Reviewer(audit[i].actor) /\ Known(audit[i].aggregate, audit[i].tenant)

DecidersKnow ==
    \A t \in Threads : pc[t] = "audit" /\ req[t].op = "decide" => Known(req[t].id, req[t].by.tenant)

LEMMA AccountableStep ==
    ASSUME Safe, SnapshotHolds, DecisionsAccountable, DecidersKnow,
           NEW t \in Threads, Arrive(t) \/ Serve(t)
    PROVE  DecisionsAccountable' /\ DecidersKnow'
<1>1. ASSUME NEW u \in Threads, pc'[u] = "audit", req'[u].op = "decide"
      PROVE  Known(req[u].id, req[u].by.tenant)'
  <2>1. CASE u # t
    <3>1. Known(req[u].id, req[u].by.tenant) /\ req'[u] = req[u]
      BY <1>1, <2>1, OthersUndisturbed DEF DecidersKnow
    <3>2. \E k \in DOMAIN rows' : /\ rows'[k].finding.id = req[u].id
                                  /\ rows'[k].finding.tenant = req[u].by.tenant
      BY <3>1, FindingsKept DEF Known
    <3> QED BY <3>1, <3>2 DEF Known
  <2>2. CASE u = t
    <3>1. SaveApplication(t) \/ FinishSeeding(t) \/ FinishBulk(t) \/ DecideFinding(t)
      BY <1>1, <2>2, AtAudit
    <3>2. DecideFinding(t)
      BY <1>1, <2>2, <3>1 DEF SaveApplication, FinishSeeding, FinishBulk, Safe, RequestOK
    <3>3. req' = req /\ \E k \in DOMAIN rows : /\ rows[k].finding.id = req[t].id
                                               /\ rows[k].finding.tenant = req[t].by.tenant
      BY <3>2 DEF DecideFinding, SnapshotHolds
    <3>4. \E k \in DOMAIN rows' : /\ rows'[k].finding.id = req'[t].id
                                  /\ rows'[k].finding.tenant = req'[t].by.tenant
      BY <3>3, FindingsKept
    <3> QED BY <2>2, <3>4 DEF Known
  <2> QED BY <2>1, <2>2
<1>2. DecisionsAccountable'
  <2>1. CASE AppendAudit(t)
    <3>1. /\ audit \in Seq(Events) /\ req[t] \in Requests /\ EventOf(req[t]) \in Events /\ pc[t] = "audit"
          /\ audit' = Append(audit, EventOf(req[t])) /\ rows' = rows
      BY <2>1, EventType DEF AppendAudit, Safe, TypeOK, RequestOK
    <3> DEFINE e == EventOf(req[t])
    <3>2. e.type \in Decisions => Reviewer(e.actor) /\ Known(e.aggregate, e.tenant)
      <4> SUFFICES ASSUME e.type \in Decisions PROVE Reviewer(e.actor) /\ Known(e.aggregate, e.tenant)
        OBVIOUS
      <4>1. req[t].op = "decide"
        BY <3>1, RequestParts DEF EventOf, Decisions
      <4>2. e.actor = req[t].by.subject /\ e.aggregate = req[t].id /\ e.tenant = req[t].by.tenant
        BY <4>1 DEF EventOf
      <4> QED BY <3>1, <4>1, <4>2 DEF DecidersKnow, Safe, RequestOK
    <3> HIDE DEF e
    <3>3. /\ DOMAIN audit' = DOMAIN audit \cup {Len(audit) + 1} /\ audit'[Len(audit) + 1] = e
          /\ \A i \in DOMAIN audit : audit'[i] = audit[i]
      BY <3>1, AppendProperties, LenProperties DEF e
    <3> QED BY <3>1, <3>2, <3>3 DEF DecisionsAccountable, Known
  <2>2. CASE audit' = audit
    BY <2>2, FindingsKept DEF DecisionsAccountable, Known
  <2> QED BY <2>1, <2>2, AuditStays
<1> QED BY <1>1, <1>2 DEF DecidersKnow

\* Every decision in the trail was taken by a reviewer and names a finding the
\* deciding tenant has, though the role is only looked at when the request comes in
\* and the finding only before the update (decide_approval).
THEOREM DecisionsAreAlwaysAccountable == Spec => []DecisionsAccountable
<1>1. Init => DecisionsAccountable /\ DecidersKnow
  BY DEF Init, DecisionsAccountable, DecidersKnow
<1>2. Inv /\ DecisionsAccountable /\ DecidersKnow /\ [Next]_vars => (DecisionsAccountable /\ DecidersKnow)'
  <2> SUFFICES ASSUME Inv, DecisionsAccountable, DecidersKnow, [Next]_vars
               PROVE  DecisionsAccountable' /\ DecidersKnow'
    OBVIOUS
  <2>1. CASE Next
    BY <2>1, AccountableStep DEF Next, Inv
  <2>2. CASE UNCHANGED vars
    BY <2>2 DEF vars, DecisionsAccountable, DecidersKnow, Known
  <2> QED BY <2>1, <2>2
<1> QED BY InvAlways, <1>1, <1>2, PTL DEF Spec

(***************************************************************************)
(* In demo mode FindingLifecycle implements GovernedStatus, for any number *)
(* of threads, tenants, users and findings.  Each step of a handler is     *)
(* shown to be a step of the abstract specification or to change nothing   *)
(* of what that specification sees.                                        *)
(***************************************************************************)
USE DesksAssumption

\* What the abstract specification sees.
SeenStatus == [id \in Ids |-> StatusOf(id)]
SeenHolders == [id \in Ids |-> Holders(id)]
SeenDesk == [t \in Threads |-> DeskOf(t)]

-----------------------------------------------------------------------------
(***************************************************************************)
(* The steps of GovernedStatus, in the variables of the process.           *)
(***************************************************************************)
LEMMA Begins ==
    ASSUME NEW t \in Threads, NEW e \in Events, pc[t] = "idle",
           e.type \in Decisions => e.actor \in Users /\ Reviewer(e.actor),
           SeenDesk' = [SeenDesk EXCEPT ![t] =
                           [entry |-> e, granted |-> e.type \in {"SCAN_IMPORTED", "REPOSITORY_SCAN"}]],
           SeenStatus' = SeenStatus, SeenHolders' = SeenHolders, audit' = audit
    PROVE  Governed!Begin(t)
<1>1. SeenDesk[t] = None
  BY DEF SeenDesk, DeskOf
<1> QED BY <1>1 DEF Governed!Begin, Governed!Submissions, SeenDesk, SeenStatus,
  SeenHolders, Decisions

\* The desk of a busy thread.
LEMMA BusyDesk ==
    ASSUME NEW t \in Threads, pc[t] # "idle", EventOf(req[t]) \in Events
    PROVE  /\ SeenDesk[t] # None
           /\ SeenDesk[t].entry = EventOf(req[t])
           /\ SeenDesk[t].granted = (pc[t] # "read")
<1> DEFINE e == EventOf(req[t])
           g == pc[t] # "read"
<1>1. SeenDesk[t] = [entry |-> e, granted |-> g]
  BY DEF SeenDesk, DeskOf
<1>2. e \in Events /\ g \in BOOLEAN
  OBVIOUS
<1> HIDE DEF e, g
<1>3. [entry |-> e, granted |-> g] # None
  BY <1>2
<1>4. SeenDesk[t] # None /\ SeenDesk[t].entry = e /\ SeenDesk[t].granted = g
  BY <1>1, <1>3
<1> QED BY <1>4 DEF e, g

LEMMA Grants ==
    ASSUME NEW t \in Threads, EventOf(req[t]) \in Events, pc[t] = "read",
           SeenDesk' = [SeenDesk EXCEPT ![t] = [entry |-> EventOf(req[t]), granted |-> TRUE]],
           SeenStatus' = SeenStatus, SeenHolders' = SeenHolders, audit' = audit
    PROVE  Governed!Grant(t)
<1>1. /\ SeenDesk[t] # None /\ SeenDesk[t].granted = FALSE
      /\ SeenDesk[t].entry = EventOf(req[t])
  BY BusyDesk
<1> QED BY <1>1 DEF Governed!Grant, SeenDesk, SeenStatus, SeenHolders

LEMMA Withdraws ==
    ASSUME NEW t \in Threads, pc[t] # "idle", EventOf(req[t]) \in Events,
           pc[t] = "read" \/ EventOf(req[t]).type \in {"SCAN_IMPORTED", "REPOSITORY_SCAN"},
           SeenDesk' = [SeenDesk EXCEPT ![t] = None],
           SeenStatus' = SeenStatus, SeenHolders' = SeenHolders, audit' = audit
    PROVE  Governed!Withdraw(t)
<1>1. /\ SeenDesk[t] # None
      /\ SeenDesk[t].granted = FALSE \/ SeenDesk[t].entry.type \in {"SCAN_IMPORTED", "REPOSITORY_SCAN"}
  BY BusyDesk
<1> QED BY <1>1 DEF Governed!Withdraw, Governed!Submissions, SeenDesk, SeenStatus,
  SeenHolders

LEMMA Records ==
    ASSUME NEW t \in Threads, pc[t] \notin {"idle", "read"}, EventOf(req[t]) \in Events,
           SeenDesk' = [SeenDesk EXCEPT ![t] = None],
           SeenStatus' = SeenStatus, SeenHolders' = SeenHolders, audit' = Append(audit, EventOf(req[t]))
    PROVE  Governed!Record(t)
<1>1. SeenDesk[t] # None /\ SeenDesk[t].granted = TRUE /\ SeenDesk[t].entry = EventOf(req[t])
  BY BusyDesk
<1> QED BY <1>1 DEF Governed!Record, SeenDesk, SeenStatus, SeenHolders

LEMMA Submits ==
    ASSUME NEW t \in Threads, pc[t] \notin {"idle", "read"}, EventOf(req[t]) \in Events,
           EventOf(req[t]).type \in {"SCAN_IMPORTED", "REPOSITORY_SCAN"},
           NEW id \in Ids, NEW s \in Status,
           SeenStatus' = [SeenStatus EXCEPT ![id] = IF @ = "ABSENT" THEN s ELSE @],
           SeenHolders' = [SeenHolders EXCEPT ![id] = @ \cup {EventOf(req[t]).tenant}],
           SeenDesk' = SeenDesk, audit' = audit
    PROVE  Governed!Submit(t)
<1>1. SeenDesk[t] # None /\ SeenDesk[t].granted = TRUE /\ SeenDesk[t].entry = EventOf(req[t])
  BY BusyDesk
<1> QED BY <1>1 DEF Governed!Submit, Governed!Submissions, Governed!Status, Status,
       SeenDesk, SeenStatus, SeenHolders

LEMMA Changes ==
    ASSUME NEW t \in Threads, pc[t] \notin {"idle", "read"}, EventOf(req[t]) \in Events,
           NEW id \in Ids, NEW s, EventOf(req[t]).tenant \in Holders(id),
           s \in Governed!Allowed(EventOf(req[t]), id),
           SeenStatus' = [SeenStatus EXCEPT ![id] = s], SeenHolders' = SeenHolders,
           SeenDesk' = SeenDesk, audit' = audit
    PROVE  Governed!Change(t)
<1>1. SeenDesk[t] # None /\ SeenDesk[t].granted = TRUE /\ SeenDesk[t].entry = EventOf(req[t])
  BY BusyDesk
<1>2. EventOf(req[t]).tenant \in SeenHolders[id]
  BY DEF SeenHolders
<1> QED BY <1>1, <1>2 DEF Governed!Change, SeenDesk, SeenStatus, SeenHolders

-----------------------------------------------------------------------------
(***************************************************************************)
(* Statuses: the row that update_status finds.                             *)
(***************************************************************************)
FirstShows ==
    \A id : \A k \in DOMAIN rows : IsFirst(k, id) => StatusOf(id) = rows[k].status
AbsentShows ==
    \A id : (\A k \in DOMAIN rows : ~IsFirst(k, id)) => StatusOf(id) = "ABSENT"

LEMMA StatusOfFirst == Safe => FirstShows
<1> SUFFICES ASSUME Safe, NEW id, NEW k \in DOMAIN rows, IsFirst(k, id)
             PROVE  StatusOf(id) = rows[k].status
  BY DEF FirstShows
<1>1. PICK n \in Nat : DOMAIN rows = 1..n
  BY LenProperties DEF Safe, TypeOK
<1>2. ASSUME NEW i \in DOMAIN rows, IsFirst(i, id) PROVE i = k
  <2>1. i \in 1..n /\ k \in 1..n
    BY <1>1
  <2>2. ~(i \in 1..(k - 1)) /\ ~(k \in 1..(i - 1))
    BY <1>2 DEF IsFirst
  <2> QED BY <2>1, <2>2
<1>3. (CHOOSE i \in DOMAIN rows : IsFirst(i, id)) = k
  BY <1>2
<1>4. \E i \in DOMAIN rows : IsFirst(i, id)
  OBVIOUS
<1>5. StatusOf(id) = rows[CHOOSE i \in DOMAIN rows : IsFirst(i, id)].status
  BY <1>4 DEF StatusOf
<1> QED BY <1>3, <1>5

LEMMA StatusOfAbsent == AbsentShows
BY DEF AbsentShows, StatusOf

LEMMA StatusType ==
    ASSUME Safe, NEW id
    PROVE  StatusOf(id) \in Status \cup {"ABSENT"}
<1> rows \in Seq(Rows)
  BY DEF Safe, TypeOK
<1>1. CASE \E k \in DOMAIN rows : IsFirst(k, id)
  <2>1. PICK k \in DOMAIN rows : IsFirst(k, id)
    BY <1>1
  <2>2. StatusOf(id) = rows[k].status
    BY <2>1, StatusOfFirst DEF FirstShows
  <2>3. rows[k] \in Rows
    BY RowFindings
  <2> QED BY <2>2, <2>3 DEF Rows
<1>2. CASE \A k \in DOMAIN rows : ~IsFirst(k, id)
  BY <1>2, StatusOfAbsent DEF AbsentShows
<1> QED BY <1>1, <1>2

\* A finding is absent exactly when no tenant holds it.
LEMMA AbsentIsUnheld ==
    ASSUME Safe, NEW id
    PROVE  /\ Holders(id) \subseteq Tenants
           /\ StatusOf(id) = "ABSENT" <=> Holders(id) = {}
<1> rows \in Seq(Rows)
  BY DEF Safe, TypeOK
<1>1. CASE \E j \in DOMAIN rows : rows[j].finding.id = id
  <2>1. PICK k \in DOMAIN rows : IsFirst(k, id)
    BY <1>1, FirstExists
  <2>2. StatusOf(id) = rows[k].status /\ rows[k] \in Rows
    BY <2>1, StatusOfFirst, RowFindings DEF FirstShows
  <2>3. StatusOf(id) # "ABSENT"
    BY <2>2 DEF Rows, Status
  <2>4. Holders(id) # {}
    BY <1>1 DEF Holders
  <2> QED BY <2>3, <2>4, RowFindings DEF Holders
<1>2. CASE \A j \in DOMAIN rows : rows[j].finding.id # id
  <2>1. Holders(id) = {}
    BY <1>2 DEF Holders
  <2>2. StatusOf(id) = "ABSENT"
    BY <1>2, StatusOfAbsent DEF AbsentShows, IsFirst
  <2> QED BY <2>1, <2>2
<1> QED BY <1>1, <1>2

\* Who holds an id depends on the findings alone.
LEMMA HoldersStay ==
    ASSUME DOMAIN rows' = DOMAIN rows,
           \A k \in DOMAIN rows : rows'[k].finding = rows[k].finding
    PROVE  SeenHolders' = SeenHolders
<1>1. ASSUME NEW id PROVE Holders(id)' = Holders(id)
  <2>1. {j \in DOMAIN rows' : rows'[j].finding.id = id} = {j \in DOMAIN rows : rows[j].finding.id = id}
    OBVIOUS
  <2>2. PICK S : S = {j \in DOMAIN rows : rows[j].finding.id = id}
    OBVIOUS
  <2>3. \A j \in S : rows'[j].finding.tenant = rows[j].finding.tenant
    BY <2>2
  <2>4. {rows'[k].finding.tenant : k \in S} = {rows[k].finding.tenant : k \in S}
    BY <2>3
  <2> QED BY <2>1, <2>2, <2>4 DEF Holders
<1> QED BY <1>1 DEF SeenHolders

\* update_status, seen from outside.
LEMMA UpdateSeen ==
    ASSUME Safe, Safe', NEW id \in Ids, NEW s \in Status, UpdateStatus(id, s),
           NEW j \in DOMAIN rows, rows[j].finding.id = id
    PROVE  SeenStatus' = [SeenStatus EXCEPT ![id] = s] /\ SeenHolders' = SeenHolders
<1>1. rows \in Seq(Rows) /\ rows' \in Seq(Rows)
  BY DEF Safe, TypeOK
<1>2. /\ DOMAIN rows' = DOMAIN rows
      /\ \A k \in DOMAIN rows : /\ rows'[k].finding = rows[k].finding
                                /\ rows'[k].status = IF IsFirst(k, id) THEN s ELSE rows[k].status
  BY <1>1, UpdateKeepsRows
<1>3. \A i \in Ids : \A k \in DOMAIN rows : IsFirst(k, i)' <=> IsFirst(k, i)
  BY <1>1, <1>2, FirstKept
<1>4. PICK k0 \in DOMAIN rows : IsFirst(k0, id)
  BY <1>1, FirstExists
<1>5. FirstShows /\ FirstShows'
  BY StatusOfFirst, PTL
<1>6. AbsentShows /\ AbsentShows'
  BY StatusOfAbsent, PTL
<1>7. StatusOf(id)' = s /\ StatusOf(id) = rows[k0].status
  BY <1>1, <1>2, <1>3, <1>4, <1>5 DEF FirstShows
<1>8. ASSUME NEW i \in Ids, i # id PROVE StatusOf(i)' = StatusOf(i)
  <2>1. \A k \in DOMAIN rows : IsFirst(k, i) => ~IsFirst(k, id)
    BY <1>8 DEF IsFirst
  <2>2. CASE \E k \in DOMAIN rows : IsFirst(k, i)
    <3>1. PICK k \in DOMAIN rows : IsFirst(k, i)
      BY <2>2
    <3>2. StatusOf(i) = rows[k].status /\ StatusOf(i)' = rows'[k].status
      BY <1>1, <1>2, <1>3, <1>5, <3>1 DEF FirstShows
    <3> QED BY <1>2, <2>1, <3>1, <3>2
  <2>3. CASE \A k \in DOMAIN rows : ~IsFirst(k, i)
    BY <1>2, <1>3, <1>6, <2>3 DEF AbsentShows
  <2> QED BY <2>2, <2>3
<1>9. SeenStatus' = [SeenStatus EXCEPT ![id] = s]
  BY <1>7, <1>8 DEF SeenStatus
<1>10. SeenHolders' = SeenHolders
  BY <1>2, HoldersStay
<1> QED BY <1>9, <1>10

LEMMA FindingInIds ==
    ASSUME NEW f \in Findings
    PROVE  f.id \in Ids
BY DEF Ids

\* seed, seen from outside: the first submission of a finding shows, later ones do not.
LEMMA SeedSeen ==
    ASSUME Safe, Safe', NEW f \in Findings,
           Len(rows') = Len(rows) + 1, DOMAIN rows' = DOMAIN rows \cup {Len(rows) + 1},
           \A k \in DOMAIN rows : rows'[k] = rows[k],
           rows'[Len(rows) + 1] = [finding |-> f, status |-> f.status]
    PROVE  /\ SeenStatus' = [SeenStatus EXCEPT ![f.id] = IF @ = "ABSENT" THEN f.status ELSE @]
           /\ SeenHolders' = [SeenHolders EXCEPT ![f.id] = @ \cup {f.tenant}]
<1> PICK n : n = Len(rows)
  OBVIOUS
<1> DEFINE Shown(i) == IF i # f.id THEN StatusOf(i)
                       ELSE IF StatusOf(i) = "ABSENT" THEN f.status ELSE StatusOf(i)
<1> HIDE DEF Shown
<1>1. rows \in Seq(Rows) /\ rows' \in Seq(Rows)
  BY DEF Safe, TypeOK
<1>2. n \in Nat /\ DOMAIN rows = 1..n /\ DOMAIN rows' = 1..(n + 1)
  BY <1>1, LenProperties
<1>3. \A i : \A k \in 1..n : IsFirst(k, i)' <=> IsFirst(k, i)
  BY <1>1, <1>2, FirstKept
<1>4. \A i : IsFirst(n + 1, i)' <=> f.id = i /\ \A j \in 1..n : rows[j].finding.id # i
  <2> SUFFICES ASSUME NEW i
               PROVE  IsFirst(n + 1, i)' <=> f.id = i /\ \A j \in 1..n : rows[j].finding.id # i
    OBVIOUS
  <2>1. (n + 1) - 1 = n /\ n + 1 \in DOMAIN rows' /\ rows'[n + 1].finding = f
    BY <1>2
  <2>2. \A j \in 1..n : rows'[j].finding.id = rows[j].finding.id
    BY <1>2
  <2> QED BY <2>1, <2>2 DEF IsFirst
<1>5. FirstShows /\ FirstShows'
  BY StatusOfFirst, PTL
<1>6. AbsentShows /\ AbsentShows'
  BY StatusOfAbsent, PTL
<1>7. ASSUME NEW i \in Ids, ~IsFirst(n + 1, i)' PROVE StatusOf(i)' = StatusOf(i)
  <2>1. CASE \E k \in 1..n : IsFirst(k, i)
    <3>1. PICK k \in 1..n : IsFirst(k, i)
      BY <2>1
    <3> QED BY <1>1, <1>2, <1>3, <1>5, <3>1 DEF FirstShows
  <2>2. CASE \A k \in 1..n : ~IsFirst(k, i)
    <3>1. \A k \in 1..n : ~IsFirst(k, i)'
      BY <1>3, <2>2
    <3>2. \A k \in DOMAIN rows' : k \in 1..n \/ k = n + 1
      BY <1>2
    <3>3. \A k \in DOMAIN rows' : ~IsFirst(k, i)'
      BY <1>7, <3>1, <3>2
    <3> QED BY <1>2, <1>6, <2>2, <3>3 DEF AbsentShows
  <2> QED BY <2>1, <2>2
<1>8. \A i \in Ids : i # f.id => StatusOf(i)' = StatusOf(i)
  BY <1>4, <1>7
<1>9. ASSUME ~IsFirst(n + 1, f.id)' PROVE \A i \in Ids : StatusOf(i)' = Shown(i)
  <2>1. \A i \in Ids : StatusOf(i)' = StatusOf(i)
    BY <1>7, <1>8, <1>9
  <2>2. PICK j \in 1..n : rows[j].finding.id = f.id
    BY <1>4, <1>9
  <2>3. rows[j].finding.tenant \in Holders(f.id)
    BY <1>2, <2>2, HolderOfRow
  <2>4. StatusOf(f.id) # "ABSENT"
    BY <2>3, AbsentIsUnheld
  <2> QED BY <2>1, <2>4 DEF Shown
<1>10. ASSUME IsFirst(n + 1, f.id)' PROVE \A i \in Ids : StatusOf(i)' = Shown(i)
  <2>1. StatusOf(f.id)' = f.status
    <3>1. n + 1 \in DOMAIN rows' /\ rows'[n + 1].status = f.status
      BY <1>2
    <3> QED BY <1>5, <1>10, <3>1 DEF FirstShows
  <2>2. \A k \in DOMAIN rows : ~IsFirst(k, f.id)
    BY <1>2, <1>4, <1>10 DEF IsFirst
  <2>3. StatusOf(f.id) = "ABSENT"
    BY <1>6, <2>2 DEF AbsentShows
  <2> QED BY <1>8, <2>1, <2>3 DEF Shown
<1>11. ASSUME NEW i \in Ids
       PROVE  Holders(i)' = IF i = f.id THEN Holders(i) \cup {f.tenant} ELSE Holders(i)
  <2>1. rows'[n + 1].finding = f /\ n + 1 \in DOMAIN rows'
    BY <1>2
  <2>2. ASSUME NEW m \in Holders(i)' PROVE m \in Holders(i) \/ (i = f.id /\ m = f.tenant)
    <3>1. PICK j \in DOMAIN rows' : rows'[j].finding.id = i /\ m = rows'[j].finding.tenant
      BY <2>2 DEF Holders
    <3>2. CASE j \in 1..n
      BY <1>2, <3>1, <3>2 DEF Holders
    <3>3. CASE j = n + 1
      BY <2>1, <3>1, <3>3
    <3> QED BY <1>2, <3>2, <3>3
  <2>3. ASSUME NEW m \in Holders(i) PROVE m \in Holders(i)'
    BY HoldersGrow
  <2>4. ASSUME i = f.id PROVE f.tenant \in Holders(i)'
    BY <2>1, <2>4 DEF Holders
  <2> QED BY <2>2, <2>3, <2>4
<1>12. SeenHolders' = [SeenHolders EXCEPT ![f.id] = @ \cup {f.tenant}]
  BY <1>11 DEF SeenHolders
<1>13. \A i \in Ids : StatusOf(i)' = Shown(i)
  BY <1>9, <1>10
<1>14. SeenStatus' = [SeenStatus EXCEPT ![f.id] = IF @ = "ABSENT" THEN f.status ELSE @]
  BY <1>13, FindingInIds DEF SeenStatus, Shown
<1> QED BY <1>12, <1>14

-----------------------------------------------------------------------------
(***************************************************************************)
(* Desks.                                                                  *)
(***************************************************************************)
LEMMA DesksStay ==
    ASSUME req' = req,
           \A u \in Threads : /\ pc'[u] = "idle" <=> pc[u] = "idle"
                              /\ pc'[u] = "read" <=> pc[u] = "read"
    PROVE  SeenDesk' = SeenDesk
<1>1. \A u \in Threads : DeskOf(u)' = DeskOf(u)
  BY DEF DeskOf, EventOf
<1> QED BY <1>1 DEF SeenDesk

LEMMA DeskCleared ==
    ASSUME Safe, NEW t \in Threads, NEW code, Answer(t, code)
    PROVE  SeenDesk' = [SeenDesk EXCEPT ![t] = None]
<1>1. \A u \in Threads \ {t} : pc'[u] = pc[u] /\ req'[u] = req[u]
  BY DEF Answer, GoTo, Safe, TypeOK
<1>2. \A u \in Threads \ {t} : DeskOf(u)' = DeskOf(u)
  BY <1>1 DEF DeskOf, EventOf
<1>3. pc'[t] = "idle"
  BY DEF Answer, GoTo, Safe, TypeOK
<1>4. DeskOf(t)' = None
  BY <1>3 DEF DeskOf
<1> QED BY <1>2, <1>4 DEF SeenDesk

LEMMA DeskFilled ==
    ASSUME Safe, NEW t \in Threads, NEW r, NEW step \in {"seed", "read"}, Receive(t, r, step)
    PROVE  SeenDesk' = [SeenDesk EXCEPT ![t] = [entry |-> EventOf(r), granted |-> step # "read"]]
<1>1. \A u \in Threads \ {t} : pc'[u] = pc[u] /\ req'[u] = req[u]
  BY DEF Receive, GoTo, Safe, TypeOK
<1>2. \A u \in Threads \ {t} : DeskOf(u)' = DeskOf(u)
  BY <1>1 DEF DeskOf, EventOf
<1>3. pc'[t] = step /\ req'[t] = r
  BY DEF Receive, GoTo, Safe, TypeOK
<1>4. EventOf(req[t])' = EventOf(r)
  BY <1>3 DEF EventOf
<1>5. DeskOf(t)' = [entry |-> EventOf(r), granted |-> step # "read"]
  BY <1>3, <1>4 DEF DeskOf
<1> QED BY <1>2, <1>5 DEF SeenDesk

LEMMA DeskGranted ==
    ASSUME Safe, NEW t \in Threads, pc[t] = "read", GoTo(t, "update"), req' = req
    PROVE  SeenDesk' = [SeenDesk EXCEPT ![t] = [entry |-> EventOf(req[t]), granted |-> TRUE]]
<1>1. \A u \in Threads \ {t} : pc'[u] = pc[u] /\ req'[u] = req[u]
  BY DEF GoTo, Safe, TypeOK
<1>2. \A u \in Threads \ {t} : DeskOf(u)' = DeskOf(u)
  BY <1>1 DEF DeskOf, EventOf
<1>3. pc'[t] = "update" /\ req'[t] = req[t]
  BY DEF GoTo, Safe, TypeOK
<1>4. EventOf(req[t])' = EventOf(req[t])
  BY <1>3 DEF EventOf
<1>5. DeskOf(t)' = [entry |-> EventOf(req[t]), granted |-> TRUE]
  BY <1>3, <1>4 DEF DeskOf
<1> QED BY <1>2, <1>5 DEF SeenDesk

\* The kind of entry a request owes.
LEMMA EntryKind ==
    ASSUME NEW r \in Requests
    PROVE  /\ EventOf(r).tenant = r.by.tenant
           /\ EventOf(r).actor = r.by.subject
           /\ r.op \in {"import", "scan"} => EventOf(r).type \in {"SCAN_IMPORTED", "REPOSITORY_SCAN"}
           /\ r.op = "bulk" => EventOf(r).type = "REMEDIATION_REQUESTED"
           /\ r.op = "decide" => EventOf(r).type = r.decision /\ EventOf(r).aggregate = r.id
BY DEF EventOf

-----------------------------------------------------------------------------
(***************************************************************************)
(* Every step is a step of GovernedStatus or changes nothing it sees.      *)
(***************************************************************************)
Unseen ==
    /\ SeenStatus' = SeenStatus /\ SeenHolders' = SeenHolders
    /\ SeenDesk' = SeenDesk /\ audit' = audit

LEMMA StatusesStay ==
    ASSUME rows' = rows
    PROVE  SeenStatus' = SeenStatus /\ SeenHolders' = SeenHolders
BY DEF SeenStatus, SeenHolders, StatusOf, IsFirst, Holders

LEMMA RefuseUnseen ==
    ASSUME Safe, NEW t \in Threads, NEW code, Refuse(t, code)
    PROVE  Unseen
<1>1. SeenDesk' = [SeenDesk EXCEPT ![t] = None]
  BY DeskCleared DEF Refuse
<1>2. SeenDesk[t] = None
  BY DEF Refuse, SeenDesk, DeskOf
<1>3. SeenDesk' = SeenDesk
  BY <1>1, <1>2 DEF SeenDesk
<1> QED BY <1>3, StatusesStay DEF Refuse, Unseen

LEMMA ReceiveBegins ==
    ASSUME Safe, NEW t \in Threads, NEW r \in Requests, NEW step \in {"seed", "read"},
           r.op \in {"import", "scan"} <=> step = "seed",
           r.op = "decide" => Reviewer(r.by.subject),
           Receive(t, r, step)
    PROVE  Governed!Begin(t)
<1> DEFINE e == EventOf(r)
<1>1. e \in Events /\ e.type \in {"SCAN_IMPORTED", "REPOSITORY_SCAN"} <=> step # "read"
  BY EntryKind, EventType, RequestParts DEF Decisions
<1>2. e.type \in Decisions => e.actor \in Users /\ Reviewer(e.actor)
  BY EntryKind, RequestParts DEF Decisions
<1>3. SeenDesk' = [SeenDesk EXCEPT ![t] = [entry |-> e, granted |-> step # "read"]]
  BY DeskFilled
<1>4. pc[t] = "idle" /\ SeenStatus' = SeenStatus /\ SeenHolders' = SeenHolders /\ audit' = audit
  BY StatusesStay DEF Receive
<1>5. e \in Events
  BY EventType
<1> HIDE DEF e
<1>6. (step # "read") = (e.type \in {"SCAN_IMPORTED", "REPOSITORY_SCAN"})
  BY <1>1, <1>5
<1> QED BY <1>2, <1>3, <1>4, <1>5, <1>6, Begins

LEMMA ArriveStep ==
    ASSUME Safe, NEW t \in Threads, Arrive(t)
    PROVE  Governed!Begin(t) \/ Unseen
<1>1. CASE ReceiveImport(t)
  <2>1. PICK by \in Principals, findings \in Payloads :
           Receive(t, [op |-> "import", by |-> by, findings |-> findings], "seed")
    BY <1>1 DEF ReceiveImport
  <2> DEFINE r == [op |-> "import", by |-> by, findings |-> findings]
  <2>2. r \in Requests /\ r.op = "import"
    BY DEF Requests, ImportRequest
  <2> HIDE DEF r
  <2> QED BY <2>1, <2>2, ReceiveBegins DEF r
<1>2. CASE ReceiveScan(t)
  <2>1. PICK by \in Principals, findings \in Payloads :
           Receive(t, [op |-> "scan", by |-> by, findings |-> findings], "seed")
    BY <1>2 DEF ReceiveScan
  <2> DEFINE r == [op |-> "scan", by |-> by, findings |-> findings]
  <2>2. r \in Requests /\ r.op = "scan"
    BY DEF Requests, ImportRequest
  <2> HIDE DEF r
  <2> QED BY <2>1, <2>2, ReceiveBegins DEF r
<1>3. CASE ReceiveBulk(t)
  <2>1. PICK by \in Principals, sel \in Selectors :
           Receive(t, [op |-> "bulk", by |-> by, sel |-> sel], "read")
    BY <1>3 DEF ReceiveBulk
  <2> DEFINE r == [op |-> "bulk", by |-> by, sel |-> sel]
  <2>2. r \in Requests /\ r.op = "bulk"
    BY DEF Requests, BulkRequest
  <2> HIDE DEF r
  <2> QED BY <2>1, <2>2, ReceiveBegins DEF r
<1>4. CASE ReceiveDecision(t)
  <2>1. PICK by \in Principals, id \in Ids, decision \in Decisions :
           /\ Reviewer(by.subject)
           /\ Receive(t, [op |-> "decide", by |-> by, id |-> id, decision |-> decision], "read")
    BY <1>4 DEF ReceiveDecision
  <2> DEFINE r == [op |-> "decide", by |-> by, id |-> id, decision |-> decision]
  <2>2. r \in Requests /\ r.op = "decide" /\ r.by = by
    BY DEF Requests, DecisionRequest
  <2> HIDE DEF r
  <2> QED BY <2>1, <2>2, ReceiveBegins DEF r
<1>5. CASE RejectPath(t) \/ RejectMismatch(t) \/ RejectRole(t)
  BY <1>5, RefuseUnseen DEF RejectPath, RejectMismatch, RejectRole
<1> QED BY <1>1, <1>2, <1>3, <1>4, <1>5 DEF Arrive

\* The entry a busy thread owes, and the parts of its request.
LEMMA Owing ==
    ASSUME Safe, NEW t \in Threads, pc[t] # "idle"
    PROVE  req[t] \in Requests /\ EventOf(req[t]) \in Events
BY EventType DEF Safe, RequestOK

LEMMA ServeStep ==
    ASSUME DemoMode, Safe, SnapshotHolds, Safe', NEW t \in Threads, Serve(t)
    PROVE  \/ Governed!Grant(t) \/ Governed!Withdraw(t) \/ Governed!Change(t)
           \/ Governed!Submit(t) \/ Governed!Record(t) \/ Unseen
<1> DEFINE e == EventOf(req[t])
<1>1. DOMAIN pc = Threads /\ RequestOK
  BY DEF Safe, TypeOK
<1>2. CASE SeedFinding(t)
  <2>1. pc[t] = "seed" /\ req[t].op \in {"import", "scan"} /\ req[t] \in Requests /\ e \in Events
    BY <1>1, <1>2, Owing DEF SeedFinding, RequestOK
  <2>2. PICK f : f = req[t].findings[pos[t]]
    OBVIOUS
  <2>3. /\ f \in Findings /\ f.tenant = req[t].by.tenant
        /\ Len(rows') = Len(rows) + 1 /\ DOMAIN rows' = DOMAIN rows \cup {Len(rows) + 1}
        /\ \A k \in DOMAIN rows : rows'[k] = rows[k]
        /\ rows'[Len(rows) + 1] = [finding |-> f, status |-> f.status]
    BY <1>2, <2>2, SeedRows
  <2>4. SeenDesk' = SeenDesk /\ audit' = audit
    BY <1>2, DesksStay DEF SeedFinding
  <2>5. /\ SeenStatus' = [SeenStatus EXCEPT ![f.id] = IF @ = "ABSENT" THEN f.status ELSE @]
        /\ SeenHolders' = [SeenHolders EXCEPT ![f.id] = @ \cup {f.tenant}]
    BY <2>3, SeedSeen
  <2>6. f.id \in Ids /\ f.status \in Status
    BY <2>3 DEF Ids
  <2>7. e.type \in {"SCAN_IMPORTED", "REPOSITORY_SCAN"} /\ e.tenant = f.tenant
    BY <2>1, <2>3, EntryKind
  <2> QED BY <2>1, <2>4, <2>5, <2>6, <2>7, Submits
<1>3. CASE RejectForeign(t)
  <2>1. pc[t] = "seed" /\ req[t].op \in {"import", "scan"} /\ req[t] \in Requests /\ e \in Events
    BY <1>1, <1>3, Owing DEF RejectForeign, RequestOK
  <2>2. e.type \in {"SCAN_IMPORTED", "REPOSITORY_SCAN"}
    BY <2>1, EntryKind
  <2>3. /\ SeenDesk' = [SeenDesk EXCEPT ![t] = None]
        /\ SeenStatus' = SeenStatus /\ SeenHolders' = SeenHolders /\ audit' = audit
    BY <1>3, DeskCleared, StatusesStay DEF RejectForeign
  <2> QED BY <2>1, <2>2, <2>3, Withdraws
<1>4. CASE FinishSeeding(t) \/ SaveApplication(t) \/ FinishBulk(t)
  <2>1. PICK step \in {"save", "audit"} : GoTo(t, step)
    BY <1>4 DEF FinishSeeding, SaveApplication, FinishBulk
  <2>2. pc[t] \in {"seed", "save", "update"} /\ UNCHANGED <<rows, audit, req>>
    BY <1>4 DEF FinishSeeding, SaveApplication, FinishBulk
  <2>3. SeenDesk' = SeenDesk
    BY <1>1, <2>1, <2>2, DesksStay DEF GoTo
  <2> QED BY <2>2, <2>3, StatusesStay DEF Unseen
<1>5. CASE ReadMatches(t) \/ FindDecided(t)
  <2>1. pc[t] = "read" /\ GoTo(t, "update") /\ UNCHANGED <<rows, audit, req>>
    BY <1>5 DEF ReadMatches, FindDecided
  <2>2. e \in Events
    BY <2>1, Owing
  <2> QED BY <2>1, <2>2, DeskGranted, StatusesStay, Grants
<1>6. CASE ReviewFinding(t)
  <2>1. /\ pc[t] = "update" /\ req[t].op = "bulk" /\ req[t] \in Requests /\ e \in Events
        /\ UNCHANGED <<pc, req, audit>>
    BY <1>6, Owing DEF ReviewFinding
  <2>2. PICK j \in todo[t] : UpdateStatus(rows[j].finding.id, "IN_REVIEW")
    BY <1>6 DEF ReviewFinding
  <2>3. j \in DOMAIN rows /\ rows[j].finding.tenant = req[t].by.tenant
    BY <2>1, <2>2 DEF SnapshotHolds
  <2>4. PICK f \in Findings : f = rows[j].finding
    BY <2>3, RowFindings DEF Safe, TypeOK
  <2>5. f.id \in Ids /\ f.tenant = req[t].by.tenant /\ UpdateStatus(f.id, "IN_REVIEW")
    BY <2>2, <2>3, <2>4 DEF Ids
  <2>6. SeenStatus' = [SeenStatus EXCEPT ![f.id] = "IN_REVIEW"] /\ SeenHolders' = SeenHolders
    BY <2>3, <2>4, <2>5, UpdateSeen DEF Status
  <2>7. e.tenant \in Holders(f.id) /\ e.type = "REMEDIATION_REQUESTED"
    BY <2>1, <2>3, <2>4, HolderOfRow, EntryKind
  <2>8. SeenDesk' = SeenDesk
    BY <2>1, DesksStay
  <2> HIDE DEF e
  <2>9. "IN_REVIEW" \in Governed!Allowed(e, f.id)
    BY <2>5, <2>6, <2>7 DEF Governed!Allowed, Governed!Submissions
  <2> QED BY <2>1, <2>5, <2>6, <2>7, <2>8, <2>9, Changes DEF e
<1>7. CASE RejectUnknown(t)
  <2>1. pc[t] = "read" /\ audit' = audit /\ rows' = rows /\ Answer(t, 404)
    BY <1>7 DEF RejectUnknown
  <2>2. e \in Events
    BY <2>1, Owing
  <2> QED BY <2>1, <2>2, DeskCleared, StatusesStay, Withdraws
<1>8. CASE DecideFinding(t)
  <2>1. /\ pc[t] = "update" /\ req[t].op = "decide" /\ req[t] \in Requests /\ e \in Events
        /\ GoTo(t, "audit") /\ UNCHANGED <<req, audit>>
        /\ UpdateStatus(req[t].id, DecidedStatus(req[t].decision))
    BY <1>8, Owing DEF DecideFinding
  <2>2. PICK j \in DOMAIN rows : /\ rows[j].finding.id = req[t].id
                                 /\ rows[j].finding.tenant = req[t].by.tenant
    BY <2>1 DEF SnapshotHolds
  <2>3. PICK f \in Findings : f = rows[j].finding
    BY <2>2, RowFindings DEF Safe, TypeOK
  <2>4. PICK s : s = DecidedStatus(req[t].decision)
    OBVIOUS
  <2>5. s \in Status /\ req[t].decision \in Decisions
    BY <2>1, <2>4, RequestParts DEF DecidedStatus, Status
  <2>6. f.id \in Ids /\ f.id = req[t].id /\ f.tenant = req[t].by.tenant /\ UpdateStatus(f.id, s)
    BY <2>1, <2>2, <2>3, <2>4 DEF Ids
  <2>7. SeenStatus' = [SeenStatus EXCEPT ![f.id] = s] /\ SeenHolders' = SeenHolders
    BY <2>2, <2>3, <2>5, <2>6, UpdateSeen
  <2>8. e.tenant \in Holders(f.id) /\ e.type = req[t].decision /\ e.aggregate = f.id
    BY <2>1, <2>2, <2>3, <2>6, HolderOfRow, EntryKind
  <2>9. SeenDesk' = SeenDesk
    BY <1>1, <2>1, DesksStay DEF GoTo
  <2>10. \/ e.type = "APPROVE" /\ s = "REMEDIATED"
         \/ e.type = "REJECT" /\ s = "ACCEPTED_RISK"
    BY <2>4, <2>5, <2>8 DEF DecidedStatus, Decisions
  <2> HIDE DEF e
  <2>11. s \in Governed!Allowed(e, f.id)
    BY <2>6, <2>7, <2>8, <2>10 DEF Governed!Allowed, Governed!Submissions
  <2> QED BY <2>1, <2>6, <2>7, <2>8, <2>9, <2>11, Changes DEF e
<1>9. CASE AppendAudit(t)
  <2>1. pc[t] = "audit" /\ audit' = Append(audit, e) /\ rows' = rows /\ \E code : Answer(t, code)
    BY <1>9 DEF AppendAudit
  <2>2. e \in Events
    BY <2>1, Owing
  <2> QED BY <2>1, <2>2, DeskCleared, StatusesStay, Records
<1>10. ~MissingMethod(t) /\ ~DatabaseFails(t)
  BY DEF MissingMethod, DatabaseFails, Port
<1> QED BY <1>2, <1>3, <1>4, <1>5, <1>6, <1>7, <1>8, <1>9, <1>10 DEF Serve

LEMMA InitSeen == Safe /\ Init => Governed!Init
<1> SUFFICES ASSUME Safe, Init PROVE Governed!Init
  OBVIOUS
<1>1. [id \in Ids |-> StatusOf(id)] \in [Ids -> Governed!Status \cup {"ABSENT"}]
  BY StatusType DEF Governed!Status, Status
<1>2. [t \in Threads |-> DeskOf(t)] = [t \in Threads |-> None]
  BY DEF Init, DeskOf
<1>3. /\ [id \in Ids |-> Holders(id)] \in [Ids -> SUBSET Tenants]
      /\ \A id \in Ids : StatusOf(id) = "ABSENT" <=> Holders(id) = {}
  BY AbsentIsUnheld
<1> QED BY <1>1, <1>2, <1>3 DEF Governed!Init, Init

\* In demo mode every behaviour of the handlers, however they interleave, is one of
\* GovernedStatus.
THEOREM GovernedStatusIsImplemented ==
    ASSUME DemoMode
    PROVE  Spec => ImplementsGovernedStatus
<1>1. Init => Governed!Init
  BY SafeInit, InitSeen
<1>2. Inv /\ Inv' /\ [Next]_vars => [Governed!Next]_(Governed!vars)
  <2> SUFFICES ASSUME Inv, Inv', [Next]_vars
               PROVE  Governed!Next \/ Unseen
    BY DEF Unseen, Governed!vars, SeenStatus, SeenHolders, SeenDesk
  <2>1. CASE Next
    <3>1. PICK t \in Threads : Arrive(t) \/ Serve(t)
      BY <2>1 DEF Next
    <3>2. CASE Arrive(t)
      BY <3>2, ArriveStep DEF Inv, Governed!Next
    <3>3. CASE Serve(t)
      BY <3>3, ServeStep DEF Inv, Governed!Next
    <3> QED BY <3>1, <3>2, <3>3
  <2>2. CASE UNCHANGED vars
    BY <2>2, StatusesStay, DesksStay DEF vars, Unseen
  <2> QED BY <2>1, <2>2
<1> QED BY <1>1, <1>2, InvAlways, PTL DEF Spec, Governed!Spec, ImplementsGovernedStatus
=============================================================================
