------------------------- MODULE RecordStoreProofs -------------------------
(***************************************************************************)
(* Proofs about RecordStore for any number of processes, threads,          *)
(* connections, findings, requests, start-ups and stops.                   *)
(***************************************************************************)
EXTENDS RecordStore, TLAPS

USE StoreAssumption

(***************************************************************************)
(* What a step of one thread can touch.                                    *)
(***************************************************************************)
Steps == Calls \cup {"walk", "switch", "idle"}

\* A thread's step leaves the other threads, the schema and the processes alone.
LEMMA ServeFrame ==
    ASSUME TypeOK, NEW t \in Threads, Serve(t)
    PROVE  /\ schema' = schema /\ phase' = phase
           /\ \A u \in Threads \ {t} : pc'[u] = pc[u] /\ req'[u] = req[u]
           /\ pc' \in [Threads -> Steps] /\ DOMAIN req' = Threads
<1>1. pc \in [Threads -> Steps] /\ DOMAIN req = Threads
  BY DEF TypeOK, Steps
<1>2. ASSUME NEW step \in Steps, GoTo(t, step)
      PROVE  pc' \in [Threads -> Steps] /\ \A u \in Threads \ {t} : pc'[u] = pc[u]
  BY <1>1, <1>2 DEF GoTo
<1>3. ASSUME Answer(t)
      PROVE  /\ pc' \in [Threads -> Steps] /\ DOMAIN req' = Threads
             /\ \A u \in Threads \ {t} : pc'[u] = pc[u] /\ req'[u] = req[u]
  BY <1>1, <1>2, <1>3 DEF Answer, Steps
<1> USE DEF Steps, Calls
<1>4. CASE GiveUp(t) \/ StatementFails(t) \/ RejectUnknown(t) \/ WalkBreaks(t) \/ SwitchFails(t) \/ AppendAudit(t)
  BY <1>3, <1>4 DEF GiveUp, StatementFails, RejectUnknown, WalkBreaks, SwitchFails, AppendAudit, database
<1>5. CASE Receive(t)
  BY <1>1, <1>2, <1>5 DEF Receive, database
<1>6. CASE Begin(t)
  BY <1>1, <1>6 DEF Begin, database
<1>7. CASE SaveRemediation(t) \/ SaveKnowledge(t) \/ Switch(t) \/ FromMemory(t) \/ SaveRecord(t)
  BY <1>1, <1>2, <1>7 DEF SaveRemediation, SaveKnowledge, Switch, FromMemory, SaveRecord, database
<1>8. CASE FindFinding(t) \/ LookUpRemediation(t) \/ WalkRemediations(t) \/ LookUpBranch(t)
  BY <1>1, <1>2, <1>3, <1>8 DEF FindFinding, LookUpRemediation, WalkRemediations, LookUpBranch, Generate, database
<1> QED BY <1>4, <1>5, <1>6, <1>7, <1>8 DEF Serve

\* The rows change by one save, the trail and the acknowledgements by one event.
LEMMA DatabaseStep ==
    ASSUME NEW t \in Threads, Serve(t)
    PROVE  /\ rows' = rows \/ SaveRemediation(t) \/ SaveKnowledge(t) \/ SaveRecord(t)
           /\ UNCHANGED <<trail, acked>> \/ AppendAudit(t)
           /\ served' = served \/ Receive(t)
BY DEF Serve, Receive, Begin, GiveUp, StatementFails, FindFinding, RejectUnknown, SaveRemediation,
       SaveKnowledge, LookUpRemediation, WalkRemediations, WalkBreaks, Switch, SwitchFails, FromMemory,
       LookUpBranch, SaveRecord, AppendAudit, database

\* The requests a step of a handler serves.
OpAt(step, op) ==
    /\ step = "find" => op # "application"
    /\ step \in {"remediation", "knowledge"} => op \in {"fix", "branch"}
    /\ step = "lookup" => op \in {"branch", "pull_request"}
    /\ step \in {"walk", "switch"} => op = "branch"
    /\ step = "record" => op # "fix"

StepOK == \A t \in Threads : pc[t] # "idle" => OpAt(pc[t], req[t].op)

\* Where a thread goes from each of its steps, and that it keeps its request.
LEMMA ThreadStep ==
    ASSUME TypeOK, StepOK, NEW t \in Threads, Serve(t)
    PROVE  \/ pc'[t] = "idle" /\ req'[t] = None
           \/ /\ Receive(t) /\ pc[t] = "idle" /\ pc'[t] \in {"find", "record"}
              /\ req'[t] \in Requests /\ req'[t].n = served' /\ OpAt(pc'[t], req'[t].op)
           \/ /\ req'[t] = req[t] /\ pc[t] # "idle" /\ pc'[t] # "idle" /\ OpAt(pc'[t], req[t].op)
              /\ \/ Begin(t) /\ pc'[t] = pc[t]
                 \/ pc[t] = "find" /\ pc'[t] \in {"remediation", "record", "lookup"}
                 \/ SaveRemediation(t) /\ pc'[t] = "knowledge"
                 \/ SaveKnowledge(t) /\ pc'[t] \in {"audit", "switch"}
                 \/ pc[t] = "lookup" /\ pc'[t] \in {"walk", "record"}
                 \/ pc[t] = "walk" /\ pc'[t] \in {"switch", "remediation"}
                 \/ pc[t] = "switch" /\ pc'[t] = "record"
                 \/ SaveRecord(t) /\ pc'[t] = "audit"
<1>1. DOMAIN pc = Threads /\ DOMAIN req = Threads
  BY DEF TypeOK
<1>2. ASSUME NEW step, GoTo(t, step) PROVE pc'[t] = step
  BY <1>1, <1>2 DEF GoTo
<1>3. ASSUME Answer(t) PROVE pc'[t] = "idle" /\ req'[t] = None
  BY <1>1, <1>2, <1>3 DEF Answer
<1>a. req[t] \in Requests \/ pc[t] = "idle"
  BY DEF TypeOK
<1>b. pc[t] # "idle" => req[t].op \in Ops /\ OpAt(pc[t], req[t].op)
  BY <1>a DEF StepOK, Requests
<1>4. CASE GiveUp(t) \/ StatementFails(t) \/ RejectUnknown(t) \/ WalkBreaks(t) \/ SwitchFails(t) \/ AppendAudit(t)
  BY <1>3, <1>4 DEF GiveUp, StatementFails, RejectUnknown, WalkBreaks, SwitchFails, AppendAudit
<1>5. CASE Receive(t)
  <2>1. PICK op \in Ops, f \in Findings :
           /\ req' = [req EXCEPT ![t] = [n |-> served', op |-> op, finding |-> f]]
           /\ GoTo(t, IF op = "application" THEN "record" ELSE "find")
    BY <1>5 DEF Receive
  <2>2. served \in Nat /\ served' = served + 1 /\ served < MaxRequests /\ pc[t] = "idle"
    BY <1>5 DEF Receive, TypeOK
  <2>3. req'[t] = [n |-> served', op |-> op, finding |-> f]
    BY <1>1, <2>1
  <2>4. req'[t] \in Requests
    BY <2>2, <2>3 DEF Requests
  <2>5. pc'[t] = IF op = "application" THEN "record" ELSE "find"
    BY <1>2, <2>1
  <2> QED BY <1>5, <2>2, <2>3, <2>4, <2>5 DEF OpAt
<1>6. CASE Begin(t)
  BY <1>b, <1>6 DEF Begin, Calls
<1>7. CASE SaveRemediation(t) \/ SaveKnowledge(t) \/ Switch(t) \/ SaveRecord(t)
  BY <1>b, <1>2, <1>7 DEF SaveRemediation, SaveKnowledge, Switch, SaveRecord, Commit, OpAt
<1>8. CASE FindFinding(t) \/ FromMemory(t)
  BY <1>b, <1>2, <1>8 DEF FindFinding, FromMemory, Remembered, Generate, Commit, OpAt, Ops
<1>9. CASE LookUpRemediation(t) \/ LookUpBranch(t)
  BY <1>b, <1>2, <1>3, <1>9 DEF LookUpRemediation, LookUpBranch, Commit, OpAt
<1>10. CASE WalkRemediations(t)
  BY <1>b, <1>2, <1>10 DEF WalkRemediations, Generate, OpAt
<1> QED BY <1>4, <1>5, <1>6, <1>7, <1>8, <1>9, <1>10 DEF Serve

(***************************************************************************)
(* Types.                                                                  *)
(***************************************************************************)
\* What a save leaves, for an id that is new and for one that is there.
LEMMA SavedRows ==
    ASSUME rows \subseteq Rows, \A r, s \in rows : r.id = s.id => r = s,
           NEW id \in (1..MaxRequests) \X Types, NEW tenant \in Tenants, NEW type \in Types,
           NEW finding \in Findings \cup {None},
           rows' = Saved(id, tenant, type, finding)
    PROVE  /\ rows' \subseteq Rows /\ \A r, s \in rows' : r.id = s.id => r = s
           /\ \A r \in rows : r.id # id => r \in rows'
           /\ \E r \in rows' : r.id = id
           /\ \A r \in rows' : r.id # id => r \in rows
           /\ \A r \in rows : r.id = id => \E s \in rows' : s.id = id /\ s.tenant = r.tenant
           /\ (\A r \in rows : r.id # id) =>
                 [id |-> id, tenant |-> tenant, type |-> type,
                  payload |-> [of |-> type, finding |-> finding]] \in rows'
<1> DEFINE payload == [of |-> type, finding |-> finding]
           new == [id |-> id, tenant |-> tenant, type |-> type, payload |-> payload]
           old == {r \in rows : r.id = id}
           Kept(r) == [r EXCEPT !.payload = IF r.tenant = tenant THEN payload ELSE @]
<1>1. payload \in [of : Types, finding : Findings \cup {None}]
  OBVIOUS
<1>2. new \in Rows /\ new.id = id
  BY <1>1 DEF Rows
<1>3. CASE old = {}
  <2>1. rows' = rows \cup {new}
    BY <1>3 DEF Saved
  <2> QED BY <1>2, <1>3, <2>1
<1>4. CASE old # {}
  <2>1. PICK r \in rows : r.id = id
    BY <1>4
  <2>2. old = {r}
    BY <2>1
  <2>3. rows' = (rows \ {r}) \cup {Kept(r)}
    BY <1>4, <2>2 DEF Saved
  <2>4. Kept(r) \in Rows /\ Kept(r).id = id /\ Kept(r).tenant = r.tenant
    BY <1>1, <2>1 DEF Rows
  <2> HIDE DEF Kept
  <2> QED BY <2>1, <2>2, <2>3, <2>4
<1> QED BY <1>3, <1>4

LEMMA TypeServe ==
    ASSUME TypeOK, StepOK, NEW t \in Threads, Serve(t)
    PROVE  TypeOK'
<1>1. pc[t] # "idle" => /\ req[t] \in Requests /\ req[t].n \in 1..MaxRequests
                        /\ req[t].op \in Ops /\ F(t) \in Findings /\ Tenant(t) \in Tenants
                        /\ OpAt(pc[t], req[t].op)
  BY DEF TypeOK, StepOK, Requests, F, Tenant, Tenants
<1>2. rows' \subseteq Rows /\ \A r, s \in rows' : r.id = s.id => r = s
  <2>1. rows \subseteq Rows /\ \A r, s \in rows : r.id = s.id => r = s
    BY DEF TypeOK
  <2>2. ASSUME NEW type \in Types, NEW kind \in Types, NEW f \in Findings \cup {None}, pc[t] # "idle",
               rows' = Saved(<<req[t].n, type>>, Tenant(t), kind, f)
        PROVE  rows' \subseteq Rows /\ \A r, s \in rows' : r.id = s.id => r = s
    <3>1. <<req[t].n, type>> \in (1..MaxRequests) \X Types /\ Tenant(t) \in Tenants
      BY <1>1, <2>2
    <3> HIDE <1>1, StoreAssumption
    <3> QED BY <2>1, <2>2, <3>1, SavedRows
  <2>3. CASE SaveRemediation(t)
    BY <1>1, <2>2, <2>3 DEF SaveRemediation, Commit, Types
  <2>4. CASE SaveKnowledge(t)
    BY <1>1, <2>2, <2>4 DEF SaveKnowledge, Commit, Types
  <2>5. CASE SaveRecord(t)
    <3>1. req[t].op \in Types
      BY <1>1, <2>5 DEF SaveRecord, Commit, OpAt, Ops, Types
    <3> QED BY <1>1, <2>2, <2>5, <3>1 DEF SaveRecord, Commit
  <2> QED BY <2>1, <2>3, <2>4, <2>5, DatabaseStep
<1>3. trail' \subseteq Requests /\ acked' \subseteq Requests
  <2>1. CASE AppendAudit(t)
    BY <1>1, <2>1 DEF AppendAudit, Commit, TypeOK
  <2> QED BY <2>1, DatabaseStep DEF TypeOK
<1>4. memory' \in [Processes -> [fixes : SUBSET Findings, branches : SUBSET Findings]]
  <2>1. memory \in [Processes -> [fixes : SUBSET Findings, branches : SUBSET Findings]]
        /\ Home[t] \in Processes
    BY DEF TypeOK
  <2>2. ASSUME Generate(t) \/ Switch(t), pc[t] # "idle"
        PROVE  memory' \in [Processes -> [fixes : SUBSET Findings, branches : SUBSET Findings]]
    BY <1>1, <2>1, <2>2 DEF Generate, Switch
  <2>3. CASE FindFinding(t) \/ WalkRemediations(t)
    <3>1. pc[t] # "idle" /\ (memory' = memory \/ Generate(t))
      BY <2>3 DEF FindFinding, WalkRemediations, Commit
    <3> QED BY <2>1, <2>2, <3>1
  <2>4. CASE Switch(t)
    BY <2>2, <2>4 DEF Switch
  <2>5. memory' = memory \/ FindFinding(t) \/ WalkRemediations(t) \/ Switch(t)
    BY DEF Serve, Receive, Begin, GiveUp, StatementFails, RejectUnknown, SaveRemediation,
       SaveKnowledge, LookUpRemediation, WalkBreaks, SwitchFails, FromMemory, LookUpBranch, SaveRecord, AppendAudit
  <2> QED BY <2>1, <2>3, <2>4, <2>5
<1>5. pool' \in [Connections -> [user : Threads \cup {None}, tenant : Tenants \cup {None}]]
  <2>1. pool \in [Connections -> [user : Threads \cup {None}, tenant : Tenants \cup {None}]]
    BY DEF TypeOK
  <2>2. CASE Close(t)
    <3>1. Free \in [user : Threads \cup {None}, tenant : Tenants \cup {None}]
      BY DEF Free
    <3> QED BY <2>1, <2>2, <3>1 DEF Close, Freed
  <2>3. CASE Begin(t)
    <3>1. PICK c \in Connections : pool' = [pool EXCEPT ![c] = [user |-> t, tenant |-> Tenant(t)]]
      BY <2>3 DEF Begin, Mine
    <3>2. [user |-> t, tenant |-> Tenant(t)] \in [user : Threads \cup {None}, tenant : Tenants \cup {None}]
      BY <1>1, <2>3 DEF Begin, Calls
    <3> QED BY <2>1, <3>1, <3>2
  <2>4. pool' = pool \/ Close(t) \/ Begin(t)
    BY DEF Serve, Receive, GiveUp, StatementFails, FindFinding, RejectUnknown, SaveRemediation,
       SaveKnowledge, LookUpRemediation, WalkRemediations, WalkBreaks, Switch, SwitchFails, FromMemory,
       LookUpBranch, SaveRecord, AppendAudit, Commit
  <2> QED BY <2>1, <2>2, <2>3, <2>4
<1>6. served' \in 0..MaxRequests
  BY DatabaseStep DEF Receive, TypeOK
<1>7. /\ pc' \in [Threads -> Calls \cup {"walk", "switch", "idle"}] /\ DOMAIN req' = Threads
      /\ schema' \in BOOLEAN
      /\ phase' \in [Processes -> {"down", "creating", "seeding", "serving"}]
  BY ServeFrame DEF TypeOK, Steps
<1>8. \A u \in Threads : IF pc'[u] = "idle" THEN req'[u] = None ELSE req'[u] \in Requests
  <2> SUFFICES ASSUME NEW u \in Threads
               PROVE  IF pc'[u] = "idle" THEN req'[u] = None ELSE req'[u] \in Requests
    OBVIOUS
  <2>1. CASE u = t
    BY <1>1, <2>1, ThreadStep
  <2>2. CASE u # t
    BY <2>2, ServeFrame DEF TypeOK
  <2> QED BY <2>1, <2>2
<1> QED BY <1>2, <1>3, <1>4, <1>5, <1>6, <1>7, <1>8 DEF TypeOK

LEMMA StepServe ==
    ASSUME TypeOK, StepOK, NEW t \in Threads, Serve(t)
    PROVE  StepOK'
<1> SUFFICES ASSUME NEW u \in Threads, pc'[u] # "idle" PROVE OpAt(pc'[u], req'[u].op)
  BY DEF StepOK, OpAt
<1>1. CASE u = t
  BY <1>1, ThreadStep
<1>2. CASE u # t
  BY <1>2, ServeFrame DEF StepOK
<1> QED BY <1>1, <1>2

\* A process that starts, fails to start or stops.
LEMMA TypeProcess ==
    ASSUME TypeOK, StepOK, NEW p \in Processes, StartUp(p) \/ Stop(p)
    PROVE  TypeOK' /\ StepOK'
<1>1. CASE StartUp(p)
  <2>1. /\ UNCHANGED <<schema, rows, trail, memory, pool, pc, req, served, acked>>
        /\ \E q \in {"down", "creating", "seeding", "serving"} : phase' = [phase EXCEPT ![p] = q]
    BY <1>1 DEF StartUp, LookForSchema, RejectFirstScript, RunScripts, ScriptsFail, ServeUnlooked,
                StartUpFailed, database
  <2>2. phase' \in [Processes -> {"down", "creating", "seeding", "serving"}]
    BY <2>1 DEF TypeOK
  <2>3. TypeOK'
    BY <2>1, <2>2 DEF TypeOK
  <2> QED BY <2>1, <2>3 DEF StepOK
<1>2. CASE Stop(p)
  <2>1. /\ UNCHANGED <<schema, rows, trail, served, acked>>
        /\ phase' \in [Processes -> {"down", "creating", "seeding", "serving"}]
    BY <1>2 DEF Stop, database, TypeOK
  <2>2. memory' \in [Processes -> [fixes : SUBSET Findings, branches : SUBSET Findings]]
    <3>1. Empty \in [fixes : SUBSET Findings, branches : SUBSET Findings]
      BY DEF Empty
    <3>2. memory' = [memory EXCEPT ![p] = Empty]
      BY <1>2 DEF Stop
    <3> QED BY <3>1, <3>2 DEF TypeOK
  <2>3. pool' \in [Connections -> [user : Threads \cup {None}, tenant : Tenants \cup {None}]]
    <3>1. Free \in [user : Threads \cup {None}, tenant : Tenants \cup {None}]
      BY DEF Free
    <3> QED BY <1>2, <3>1 DEF Stop, TypeOK
  <2>4. /\ pc' \in [Threads -> Calls \cup {"walk", "switch", "idle"}] /\ DOMAIN req' = Threads
        /\ \A t \in Threads : IF pc'[t] = "idle" THEN req'[t] = None
                              ELSE pc'[t] = pc[t] /\ req'[t] = req[t]
    BY <1>2 DEF Stop, TypeOK
  <2>5. TypeOK'
    BY <2>1, <2>2, <2>3, <2>4 DEF TypeOK
  <2> QED BY <2>4, <2>5 DEF StepOK
<1> QED BY <1>1, <1>2

LEMMA TypeInit == Init => TypeOK /\ StepOK
<1> SUFFICES ASSUME Init PROVE TypeOK /\ StepOK
  OBVIOUS
<1>1. memory \in [Processes -> [fixes : SUBSET Findings, branches : SUBSET Findings]]
  BY DEF Init, Empty
<1>2. pool \in [Connections -> [user : Threads \cup {None}, tenant : Tenants \cup {None}]]
  BY DEF Init, Free
<1>3. /\ rows = {} /\ trail = {} /\ acked = {}
      /\ phase \in [Processes -> {"down", "creating", "seeding", "serving"}]
      /\ served \in 0..MaxRequests
  BY DEF Init
<1>4. schema \in BOOLEAN
  BY DEF Init
<1>5. /\ pc \in [Threads -> Calls \cup {"walk", "switch", "idle"}] /\ DOMAIN req = Threads
      /\ \A t \in Threads : pc[t] = "idle" /\ req[t] = None
  BY DEF Init
<1> QED BY <1>1, <1>2, <1>3, <1>4, <1>5 DEF TypeOK, StepOK

Typed == TypeOK /\ StepOK

LEMMA TypedAlways == Spec => []Typed
<1>1. Typed /\ [Next]_vars => Typed'
  <2> SUFFICES ASSUME Typed, [Next]_vars PROVE Typed'
    OBVIOUS
  <2>1. CASE Next
    <3>1. CASE Migrate
      BY <3>1 DEF Migrate, Typed, TypeOK, StepOK
    <3> QED BY <2>1, <3>1, TypeServe, StepServe, TypeProcess DEF Next, Typed
  <2>2. CASE UNCHANGED vars
    BY <2>2 DEF vars, database, Typed, TypeOK, StepOK
  <2> QED BY <2>1, <2>2
<1> QED BY TypeInit, <1>1, PTL DEF Spec, Typed

\* Types, and that an id names one row (SqlMvpRepository's primary key).
THEOREM TypeCorrect == Spec => []TypeOK
<1>1. Typed => TypeOK
  BY DEF Typed
<1> QED BY TypedAlways, <1>1, PTL

(***************************************************************************)
(* Start-up.                                                               *)
(***************************************************************************)
\* What keeps the database empty until it is migrated: a demo process gets past its
\* start-up with the schema only, a request past its first statement likewise.
SchemaInv == NothingWithoutSchema /\ \A p \in Processes : phase[p] = "seeding" => schema

LEMMA SchemaServe ==
    ASSUME Typed, SchemaInv, NEW t \in Threads, Serve(t)
    PROVE  SchemaInv'
<1>1. schema' = schema /\ phase' = phase /\ \A u \in Threads \ {t} : pc'[u] = pc[u]
  BY ServeFrame DEF Typed
<1>2. ASSUME ~schema
      PROVE  /\ pc'[t] \in {"idle", "find", "record"}
             /\ UNCHANGED <<rows, trail, acked, memory>>
  <2>1. pc[t] \in {"idle", "find", "record"} /\ pc \in [Threads -> Steps]
    BY <1>2 DEF SchemaInv, NothingWithoutSchema, Typed, TypeOK, Steps
  <2>2. /\ Receive(t) \/ Begin(t) \/ GiveUp(t) \/ StatementFails(t)
        /\ UNCHANGED <<rows, trail, acked, memory>>
    BY <1>2, <2>1 DEF Serve, Commit, Receive, Begin, GiveUp, StatementFails, FindFinding, RejectUnknown,
       SaveRemediation, SaveKnowledge, LookUpRemediation, WalkRemediations, WalkBreaks, Switch, SwitchFails,
       FromMemory, LookUpBranch, SaveRecord, AppendAudit, database
  <2> QED BY <2>1, <2>2 DEF Receive, Begin, GiveUp, StatementFails, Answer, GoTo
<1> QED BY <1>1, <1>2 DEF SchemaInv, NothingWithoutSchema

\* Whatever start-ups fail, overlap or are repeated, nothing serves in demo mode or is
\* done on a database without the schema (initialize_demo_database, lifespan).
THEOREM NothingIsDoneWithoutSchema == Spec => []NothingWithoutSchema
<1>1. Init => SchemaInv
  BY DEF Init, SchemaInv, NothingWithoutSchema
<1>2. Typed /\ SchemaInv /\ [Next]_vars => SchemaInv'
  <2> SUFFICES ASSUME Typed, SchemaInv, [Next]_vars PROVE SchemaInv'
    OBVIOUS
  <2>1. ASSUME NEW t \in Threads, Serve(t) PROVE SchemaInv'
    BY <2>1, SchemaServe
  <2>2. ASSUME NEW p \in Processes, StartUp(p) PROVE SchemaInv'
    <3>1. /\ UNCHANGED <<schema, rows, trail, acked, memory, pc>>
          /\ \A q \in Processes \ {p} : phase'[q] = phase[q]
          /\ phase'[p] \in {"seeding", "serving"} => schema \/ (p \notin Demo /\ phase'[p] # "seeding")
      BY <2>2 DEF StartUp, LookForSchema, RejectFirstScript, RunScripts, ScriptsFail, ServeUnlooked,
                  StartUpFailed, database, Typed, TypeOK, SchemaInv
    <3> QED BY <3>1 DEF SchemaInv, NothingWithoutSchema
  <2>3. ASSUME NEW p \in Processes, Stop(p) PROVE SchemaInv'
    <3>1. /\ UNCHANGED <<schema, rows, trail, acked>> /\ phase'[p] = "down"
          /\ \A q \in Processes \ {p} : phase'[q] = phase[q] /\ memory'[q] = memory[q]
          /\ memory'[p] = Empty
          /\ \A t \in Threads : pc'[t] = "idle" \/ pc'[t] = pc[t]
      BY <2>3 DEF Stop, database, Typed, TypeOK
    <3> QED BY <3>1 DEF SchemaInv, NothingWithoutSchema
  <2>4. CASE Migrate
    BY <2>4 DEF Migrate, SchemaInv, NothingWithoutSchema
  <2>5. CASE UNCHANGED vars
    BY <2>5 DEF vars, database, SchemaInv, NothingWithoutSchema
  <2> QED BY <2>1, <2>2, <2>3, <2>4, <2>5 DEF Next
<1>3. SchemaInv => NothingWithoutSchema
  BY DEF SchemaInv
<1> QED BY TypedAlways, <1>1, <1>2, <1>3, PTL DEF Spec

(***************************************************************************)
(* Connections.                                                            *)
(***************************************************************************)
\* A step of a thread begins a transaction, ends its own, or has none.
LEMMA PoolStep ==
    ASSUME Typed, ConnectionsAreScoped, NEW t \in Threads, Serve(t)
    PROVE  \/ pool' = pool /\ ~InTransaction(t)
           \/ Close(t)
           \/ Begin(t)
<1>1. InTransaction(t) => pc[t] \in Calls
  BY DEF InTransaction, ConnectionsAreScoped
<1>2. CASE \/ Receive(t) \/ GiveUp(t) \/ WalkRemediations(t) \/ WalkBreaks(t)
           \/ Switch(t) \/ SwitchFails(t) \/ FromMemory(t)
  BY <1>1, <1>2 DEF Receive, GiveUp, WalkRemediations, WalkBreaks, Switch, SwitchFails, FromMemory, Calls
<1>3. CASE \/ StatementFails(t) \/ FindFinding(t) \/ RejectUnknown(t) \/ SaveRemediation(t)
           \/ SaveKnowledge(t) \/ LookUpRemediation(t) \/ LookUpBranch(t) \/ SaveRecord(t)
           \/ AppendAudit(t)
  BY <1>3 DEF StatementFails, FindFinding, RejectUnknown, SaveRemediation, SaveKnowledge,
              LookUpRemediation, LookUpBranch, SaveRecord, AppendAudit, Commit
<1> QED BY <1>2, <1>3 DEF Serve

\* A connection belongs to one request of its own process while it is in use, and
\* carries no tenant otherwise, however transactions end (persistence.transaction).
THEOREM ConnectionsAreAlwaysScoped == Spec => []ConnectionsAreScoped
<1> DEFINE Scoped(c) ==
       LET t == pool[c].user
       IN  IF t = None THEN pool[c].tenant = None
           ELSE /\ Owner[c] = Home[t] /\ pc[t] \in Calls
                /\ pool[c].tenant = Tenant(t)
                /\ \A d \in Connections : pool[d].user = t => d = c
<1>1. Init => ConnectionsAreScoped
  BY DEF Init, ConnectionsAreScoped, Free
<1>2. Typed /\ ConnectionsAreScoped /\ [Next]_vars => ConnectionsAreScoped'
  <2> SUFFICES ASSUME Typed, ConnectionsAreScoped, [Next]_vars, NEW c \in Connections
               PROVE  Scoped(c)'
    BY DEF ConnectionsAreScoped
  <2>1. pool \in [Connections -> [user : Threads \cup {None}, tenant : Tenants \cup {None}]]
    BY DEF Typed, TypeOK
  <2>2. Scoped(c)
    BY DEF ConnectionsAreScoped
  <2>3. ASSUME NEW t \in Threads, Serve(t) PROVE Scoped(c)'
    <3>1. \A u \in Threads \ {t} : pc'[u] = pc[u] /\ req'[u] = req[u] /\ Tenant(u)' = Tenant(u)
      BY <2>3, ServeFrame DEF Typed, Tenant, F
    <3>2. CASE pool' = pool /\ ~InTransaction(t)
      <4>1. pool[c].user # t
        BY <3>2 DEF InTransaction
      <4> QED BY <2>1, <2>2, <3>1, <3>2, <4>1
    <3>3. CASE Close(t)
      <4>1. \A d \in Connections : pool'[d] = IF pool[d].user = t THEN Free ELSE pool[d]
        BY <3>3 DEF Close, Freed
      <4> QED BY <2>1, <2>2, <3>1, <4>1 DEF Free
    <3>4. CASE Begin(t)
      <4>1. PICK b \in Mine(t) : /\ pool[b].user = None
                                 /\ pool' = [pool EXCEPT ![b] = [user |-> t, tenant |-> Tenant(t)]]
        BY <3>4 DEF Begin
      <4>2. /\ b \in Connections /\ Owner[b] = Home[t] /\ pc[t] \in Calls /\ pc' = pc /\ req' = req
            /\ \A d \in Connections : pool[d].user # t
        BY <3>4, <4>1 DEF Begin, Mine, InTransaction
      <4>3. Tenant(t)' = Tenant(t)
        BY <4>2 DEF Tenant, F
      <4>4. /\ pool'[b] = [user |-> t, tenant |-> Tenant(t)]
            /\ \A d \in Connections \ {b} : pool'[d] = pool[d]
        BY <2>1, <4>1, <4>2
      <4>5. CASE c = b
        BY <4>2, <4>3, <4>4, <4>5
      <4>6. CASE c # b
        BY <2>1, <2>2, <3>1, <4>1, <4>2, <4>4, <4>6
      <4> QED BY <4>5, <4>6
    <3> QED BY <2>3, <3>2, <3>3, <3>4, PoolStep
  <2>4. ASSUME Migrate \/ \E p \in Processes : StartUp(p) PROVE Scoped(c)'
    <3>1. pool' = pool /\ pc' = pc /\ req' = req
      BY <2>4 DEF Migrate, StartUp, LookForSchema, RejectFirstScript, RunScripts, ScriptsFail, ServeUnlooked
    <3> QED BY <2>2, <3>1 DEF Tenant, F
  <2>5. ASSUME NEW p \in Processes, Stop(p) PROVE Scoped(c)'
    <3>1. /\ \A d \in Connections : pool'[d] = IF Owner[d] = p THEN Free ELSE pool[d]
          /\ \A u \in Threads : Home[u] # p => pc'[u] = pc[u] /\ req'[u] = req[u]
      BY <2>5 DEF Stop
    <3>2. \A u \in Threads : Home[u] # p => Tenant(u)' = Tenant(u)
      BY <3>1 DEF Tenant, F
    <3> QED BY <2>1, <2>2, <3>1, <3>2 DEF Free
  <2>6. CASE UNCHANGED vars
    BY <2>2, <2>6 DEF vars, Tenant, F
  <2> QED BY <2>3, <2>4, <2>5, <2>6 DEF Next
<1> QED BY TypedAlways, <1>1, <1>2, PTL DEF Spec

(***************************************************************************)
(* Records and acknowledgements.                                           *)
(***************************************************************************)
StoredIn(R, r) ==
    \E row \in R :
        /\ row.id = IdOf(r) /\ row.tenant = r.finding.tenant
        /\ r.op # "fix" => row.type = r.op /\ row.payload = [of |-> r.op, finding |-> r.finding]

\* A request's number, a uuid, is nobody else's: rows that carry it are its own.
NumbersOK ==
    /\ \A row \in rows : row.id[1] <= served
    /\ \A r \in trail : r.n <= served
    /\ \A t \in Threads : pc[t] # "idle" =>
          /\ req[t].n <= served
          /\ \A r \in trail : r.n # req[t].n
          /\ \A u \in Threads \ {t} : pc[u] # "idle" => req[u].n # req[t].n

\* How far a handler has got with its rows.
Progress(t) ==
    /\ \A row \in rows : row.id[1] = req[t].n => row.tenant = Tenant(t)
    /\ pc[t] = "knowledge" => \E row \in rows : row.id = <<req[t].n, "remediation">>
    /\ pc[t] # "audit" => \A row \in rows : row.id # <<req[t].n, req[t].op>>
    /\ pc[t] = "audit" => StoredIn(rows, req[t])

Ledger ==
    /\ NumbersOK
    /\ \A t \in Threads : pc[t] # "idle" => Progress(t)
    /\ acked \subseteq trail
    /\ \A r \in trail : StoredIn(rows, r)

\* The saves of a thread leave the rows of other requests alone.
LEMMA SaveStep ==
    ASSUME Typed, NEW t \in Threads, SaveRemediation(t) \/ SaveKnowledge(t) \/ SaveRecord(t)
    PROVE  /\ pc[t] # "idle" /\ UNCHANGED <<trail, acked, served>> /\ req' = req
           /\ \A r \in rows : r.id[1] # req[t].n => r \in rows'
           /\ \A r \in rows' : r.id[1] # req[t].n => r \in rows
           /\ (\A r \in rows : r.id[1] = req[t].n => r.tenant = Tenant(t)) =>
                 \A r \in rows' : r.id[1] = req[t].n => r.tenant = Tenant(t)
           /\ \/ /\ pc[t] = "remediation" /\ pc'[t] = "knowledge"
                 /\ rows' = Saved(<<req[t].n, "remediation">>, Tenant(t), "remediation", F(t))
              \/ /\ pc[t] = "knowledge" /\ pc'[t] = IF req[t].op = "fix" THEN "audit" ELSE "switch"
                 /\ rows' = Saved(<<req[t].n, "remediation">>, Tenant(t), "knowledge", None)
              \/ /\ pc[t] = "record" /\ pc'[t] = "audit"
                 /\ rows' = Saved(<<req[t].n, req[t].op>>, Tenant(t), req[t].op, F(t))
<1>1. SaveRemediation(t) \/ SaveKnowledge(t) \/ SaveRecord(t)
  OBVIOUS
<1>2. pc[t] # "idle" /\ UNCHANGED <<trail, acked, served>> /\ req' = req
  BY <1>1 DEF SaveRemediation, SaveKnowledge, SaveRecord, Commit
<1>3. /\ rows \subseteq Rows
      /\ \A step : GoTo(t, step) => pc'[t] = step
  BY DEF Typed, TypeOK, GoTo
<1>4. ASSUME NEW type, NEW kind, NEW f, rows' = Saved(<<req[t].n, type>>, Tenant(t), kind, f)
      PROVE  /\ \A r \in rows : r.id[1] # req[t].n => r \in rows'
             /\ \A r \in rows' : r.id[1] # req[t].n => r \in rows
             /\ (\A r \in rows : r.id[1] = req[t].n => r.tenant = Tenant(t)) =>
                   \A r \in rows' : r.id[1] = req[t].n => r.tenant = Tenant(t)
  <2> DEFINE id == <<req[t].n, type>>
             payload == [of |-> kind, finding |-> f]
             new == [id |-> id, tenant |-> Tenant(t), type |-> kind, payload |-> payload]
             old == {r \in rows : r.id = id}
             Kept(r) == [r EXCEPT !.payload = IF r.tenant = Tenant(t) THEN payload ELSE @]
  <2>1. CASE old = {}
    <3>1. rows' = rows \cup {new}
      BY <1>4, <2>1 DEF Saved
    <3>2. new.id[1] = req[t].n /\ new.tenant = Tenant(t)
      OBVIOUS
    <3> HIDE DEF new
    <3> QED BY <3>1, <3>2
  <2>2. CASE old # {}
    <3>1. rows' = (rows \ old) \cup {Kept(r) : r \in old}
      BY <1>4, <2>2 DEF Saved
    <3>2. \A r \in old : Kept(r).id = r.id /\ Kept(r).tenant = r.tenant /\ r.id[1] = req[t].n
      BY <1>3 DEF Rows
    <3> HIDE DEF Kept
    <3> QED BY <3>1, <3>2
  <2> QED BY <2>1, <2>2
<1>5. \/ /\ pc[t] = "remediation" /\ pc'[t] = "knowledge"
         /\ rows' = Saved(<<req[t].n, "remediation">>, Tenant(t), "remediation", F(t))
      \/ /\ pc[t] = "knowledge" /\ pc'[t] = IF req[t].op = "fix" THEN "audit" ELSE "switch"
         /\ rows' = Saved(<<req[t].n, "remediation">>, Tenant(t), "knowledge", None)
      \/ /\ pc[t] = "record" /\ pc'[t] = "audit"
         /\ rows' = Saved(<<req[t].n, req[t].op>>, Tenant(t), req[t].op, F(t))
  BY <1>1, <1>3 DEF SaveRemediation, SaveKnowledge, SaveRecord, Commit
<1> QED BY <1>2, <1>4, <1>5

\* What a request has stored stays stored while another one saves.
LEMMA StoredStays ==
    ASSUME Typed, NEW t \in Threads, SaveRemediation(t) \/ SaveKnowledge(t) \/ SaveRecord(t),
           NEW r, r.n # req[t].n, StoredIn(rows, r)
    PROVE  StoredIn(rows', r)
<1>1. PICK row \in rows :
        /\ row.id = IdOf(r) /\ row.tenant = r.finding.tenant
        /\ r.op # "fix" => row.type = r.op /\ row.payload = [of |-> r.op, finding |-> r.finding]
  BY DEF StoredIn
<1>2. row.id[1] = r.n
  BY <1>1 DEF IdOf
<1>3. row \in rows'
  BY <1>2, SaveStep
<1> QED BY <1>1, <1>3 DEF StoredIn

\* The thread that saves gets on with its rows.
LEMMA SaveProgress ==
    ASSUME Typed, TypeOK', NEW t \in Threads, SaveRemediation(t) \/ SaveKnowledge(t) \/ SaveRecord(t),
           Progress(t)
    PROVE  Progress(t)'
<1>1. /\ req[t] \in Requests /\ req[t].n \in 1..MaxRequests
      /\ req[t].op \in Ops /\ F(t) \in Findings /\ Tenant(t) \in Tenants
      /\ OpAt(pc[t], req[t].op) /\ req' = req /\ Tenant(t)' = Tenant(t)
  BY SaveStep DEF Typed, TypeOK, StepOK, Requests, F, Tenant, Tenants
<1>2. rows \subseteq Rows /\ \A r, s \in rows : r.id = s.id => r = s
  BY DEF Typed, TypeOK
<1>3. \A row \in rows' : row.id[1] = req'[t].n => row.tenant = Tenant(t)'
  BY <1>1, SaveStep DEF Progress
<1> DEFINE first == <<req[t].n, "remediation">>
           own == <<req[t].n, req[t].op>>
<1>4. own # first /\ first[1] = req[t].n
  BY <1>1 DEF Ops
<1>5. ASSUME NEW kind \in Types, NEW f \in Findings \cup {None}, rows' = Saved(first, Tenant(t), kind, f)
      PROVE  /\ \E row \in rows' : row.id = first
             /\ \A row \in rows' : row.id # first => row \in rows
  <2>1. first \in (1..MaxRequests) \X Types
    BY <1>1 DEF Types
  <2>2. Tenant(t) \in Tenants
    BY <1>1
  <2> HIDE DEF first
  <2> HIDE StoreAssumption
  <2> QED BY <1>2, <1>5, <2>1, <2>2, SavedRows
<1>6. CASE pc[t] = "remediation"
  <2>1. rows' = Saved(first, Tenant(t), "remediation", F(t)) /\ pc'[t] = "knowledge"
    BY <1>6, SaveStep
  <2>2. /\ \E row \in rows' : row.id = first
        /\ \A row \in rows' : row.id # first => row \in rows
    BY <1>1, <1>5, <2>1 DEF Types
  <2>3. \A row \in rows' : row.id # own
    BY <1>4, <1>6, <2>2 DEF Progress
  <2> QED BY <1>1, <1>3, <2>1, <2>2, <2>3 DEF Progress
<1>7. CASE pc[t] = "knowledge"
  <2>1. /\ rows' = Saved(first, Tenant(t), "knowledge", None)
        /\ pc'[t] = IF req[t].op = "fix" THEN "audit" ELSE "switch"
    BY <1>7, SaveStep
  <2>2. PICK row \in rows' : row.id = first
    BY <1>5, <2>1 DEF Types
  <2>3. row.tenant = Tenant(t)
    BY <1>1, <1>3, <1>4, <2>2
  <2>4. req[t].op = "fix" => StoredIn(rows', req[t])
    BY <2>2, <2>3 DEF StoredIn, IdOf, Tenant, F
  <2>5. \A r \in rows' : r.id # own
    BY <1>4, <1>5, <1>7, <2>1 DEF Progress, Types
  <2> QED BY <1>1, <1>3, <2>1, <2>4, <2>5 DEF Progress
<1>8. CASE pc[t] = "record"
  <2>1. rows' = Saved(own, Tenant(t), req[t].op, F(t)) /\ pc'[t] = "audit"
    BY <1>8, SaveStep
  <2>2. req[t].op # "fix" /\ own \in (1..MaxRequests) \X Types /\ req[t].op \in Types
    BY <1>1, <1>8 DEF OpAt, Ops, Types
  <2>3. \A row \in rows : row.id # own
    BY <1>8 DEF Progress
  <2>4. [id |-> own, tenant |-> Tenant(t), type |-> req[t].op,
         payload |-> [of |-> req[t].op, finding |-> F(t)]] \in rows'
    <3> HIDE DEF own
    <3> QED BY <1>1, <1>2, <2>1, <2>2, <2>3, SavedRows
  <2>5. StoredIn(rows', req[t])
    BY <2>2, <2>4 DEF StoredIn, IdOf, Tenant, F
  <2> QED BY <1>1, <1>3, <2>1, <2>5 DEF Progress
<1> QED BY <1>6, <1>7, <1>8, SaveStep

LEMMA LedgerServe ==
    ASSUME Typed, Ledger, NEW t \in Threads, Serve(t)
    PROVE  Ledger'
<1>1. TypeOK /\ StepOK /\ TypeOK'
  BY TypeServe DEF Typed
<1>2. \A u \in Threads \ {t} : pc'[u] = pc[u] /\ req'[u] = req[u] /\ Tenant(u)' = Tenant(u)
  BY <1>1, ServeFrame DEF Tenant, F
<1>3. /\ served \in Nat /\ rows \subseteq Rows
      /\ \A u \in Threads : pc[u] # "idle" => req[u] \in Requests /\ req[u].n \in Nat
      /\ \A r \in trail : r.n \in Nat
      /\ \A row \in rows : row.id[1] \in Nat
  BY <1>1 DEF TypeOK, Requests, Rows
<1>4. CASE SaveRemediation(t) \/ SaveKnowledge(t) \/ SaveRecord(t)
  <2>1. /\ pc[t] # "idle" /\ UNCHANGED <<trail, acked, served>> /\ req' = req
        /\ \A r \in rows' : r.id[1] # req[t].n => r \in rows
        /\ pc'[t] # "idle"
    BY <1>4, SaveStep
  <2>2. NumbersOK'
    BY <1>2, <2>1 DEF Ledger, NumbersOK
  <2>3. ASSUME NEW u \in Threads, pc'[u] # "idle" PROVE Progress(u)'
    <3>1. CASE u = t
      BY <1>1, <1>4, <2>1, <3>1, SaveProgress DEF Ledger
    <3>2. CASE u # t
      <4>1. Progress(u) /\ req[u].n # req[t].n
        BY <1>2, <2>1, <2>3, <3>2 DEF Ledger, NumbersOK
      <4>2. pc'[u] = pc[u] /\ req'[u] = req[u] /\ Tenant(u)' = Tenant(u)
        BY <1>2, <3>2
      <4>3. pc[u] = "audit" => StoredIn(rows', req[u])
        BY <1>4, <4>1, StoredStays DEF Progress
      <4>4. pc[u] = "knowledge" => \E row \in rows' : row.id = <<req[u].n, "remediation">>
        <5>1. \A row \in rows : row.id = <<req[u].n, "remediation">> => row \in rows'
          <6> SUFFICES ASSUME NEW row \in rows, row.id = <<req[u].n, "remediation">>
                       PROVE  row \in rows'
            OBVIOUS
          <6>1. row.id[1] = req[u].n
            OBVIOUS
          <6> QED BY <1>4, <4>1, <6>1, SaveStep
        <5> QED BY <4>1, <5>1 DEF Progress
      <4>5. \A row \in rows' : row.id[1] = req[u].n => row \in rows
        BY <2>1, <4>1
      <4>6. pc[u] # "audit" => \A row \in rows' : row.id # <<req[u].n, req[u].op>>
        BY <4>1, <4>5 DEF Progress
      <4> QED BY <2>1, <4>1, <4>2, <4>3, <4>4, <4>5, <4>6 DEF Progress
    <3> QED BY <3>1, <3>2
  <2>4. ASSUME NEW r \in trail PROVE StoredIn(rows', r)
    BY <1>4, <2>1, StoredStays DEF Ledger, NumbersOK
  <2> QED BY <2>1, <2>2, <2>3, <2>4 DEF Ledger
<1>5. CASE AppendAudit(t)
  <2>1. /\ rows' = rows /\ served' = served /\ pc[t] = "audit" /\ pc'[t] = "idle"
        /\ trail' = trail \cup {req[t]} /\ acked' = acked \cup {req[t]}
    BY <1>1, <1>5 DEF AppendAudit, Commit, Answer, GoTo, TypeOK
  <2>2. NumbersOK'
    BY <1>2, <1>3, <2>1 DEF Ledger, NumbersOK
  <2>3. ASSUME NEW u \in Threads, pc'[u] # "idle" PROVE Progress(u)'
    <3>1. Progress(u) /\ pc'[u] = pc[u] /\ req'[u] = req[u] /\ Tenant(u)' = Tenant(u)
      BY <1>2, <2>1, <2>3 DEF Ledger
    <3> QED BY <2>1, <3>1 DEF Progress
  <2>4. \A r \in trail' : StoredIn(rows', r)
    BY <2>1 DEF Ledger, Progress, StoredIn
  <2> QED BY <2>1, <2>2, <2>3, <2>4 DEF Ledger
<1>6. CASE Receive(t)
  <2>1. /\ rows' = rows /\ trail' = trail /\ acked' = acked /\ served' = served + 1
        /\ req'[t].n = served' /\ pc'[t] \in {"find", "record"} /\ pc[t] = "idle"
    <3>1. rows' = rows /\ trail' = trail /\ acked' = acked /\ served' = served + 1 /\ pc[t] = "idle"
      BY <1>6 DEF Receive, database
    <3>2. pc'[t] \in {"find", "record"} /\ req'[t].n = served'
      BY <1>1, <1>6, <3>1, ThreadStep DEF Receive, TypeOK, GoTo
    <3> QED BY <3>1, <3>2
  <2>2. NumbersOK'
    BY <1>2, <1>3, <2>1 DEF Ledger, NumbersOK
  <2>3. ASSUME NEW u \in Threads \ {t}, pc'[u] # "idle" PROVE Progress(u)'
    <3>1. Progress(u) /\ pc'[u] = pc[u] /\ req'[u] = req[u] /\ Tenant(u)' = Tenant(u)
      BY <1>2, <2>3 DEF Ledger
    <3> QED BY <2>1, <3>1 DEF Progress
  <2>4. Progress(t)'
    <3>1. \A row \in rows : row.id[1] # served'
      BY <1>3, <2>1 DEF Ledger, NumbersOK
    <3>2. \A row \in rows : row.id # <<served', req'[t].op>>
      BY <3>1
    <3> QED BY <2>1, <3>1, <3>2 DEF Progress
  <2> QED BY <2>1, <2>2, <2>3, <2>4 DEF Ledger, StoredIn
<1>7. CASE ~(SaveRemediation(t) \/ SaveKnowledge(t) \/ SaveRecord(t) \/ AppendAudit(t) \/ Receive(t))
  <2>1. rows' = rows /\ trail' = trail /\ acked' = acked /\ served' = served
    BY <1>7, DatabaseStep
  <2>2. \/ pc'[t] = "idle"
        \/ /\ req'[t] = req[t] /\ pc[t] # "idle"
           /\ pc'[t] = pc[t] \/ (pc[t] # "audit" /\ pc'[t] \notin {"knowledge", "audit"})
    BY <1>1, <1>7, ThreadStep
  <2>3. NumbersOK'
    BY <1>2, <2>1, <2>2 DEF Ledger, NumbersOK
  <2>4. ASSUME NEW u \in Threads, pc'[u] # "idle" PROVE Progress(u)'
    <3>1. req'[u] = req[u] /\ pc[u] # "idle" /\ Tenant(u)' = Tenant(u)
      BY <1>2, <2>2, <2>4 DEF Tenant, F
    <3>2. pc'[u] = pc[u] \/ (pc[u] # "audit" /\ pc'[u] \notin {"knowledge", "audit"})
      BY <1>2, <2>2, <2>4
    <3> QED BY <2>1, <3>1, <3>2 DEF Ledger, Progress, StoredIn
  <2> QED BY <2>1, <2>3, <2>4 DEF Ledger, StoredIn
<1> QED BY <1>4, <1>5, <1>6, <1>7

LEMMA LedgerAlways == Spec => []Ledger
<1>1. Init => Ledger
  BY DEF Init, Ledger, NumbersOK
<1>2. Typed /\ Ledger /\ [Next]_vars => Ledger'
  <2> SUFFICES ASSUME Typed, Ledger, [Next]_vars PROVE Ledger'
    OBVIOUS
  <2>1. ASSUME NEW t \in Threads, Serve(t) PROVE Ledger'
    BY <2>1, LedgerServe
  <2>2. ASSUME Migrate \/ \E p \in Processes : StartUp(p) \/ Stop(p) PROVE Ledger'
    <3>1. /\ UNCHANGED <<rows, trail, acked, served>>
          /\ \A t \in Threads : pc'[t] # "idle" => pc'[t] = pc[t] /\ req'[t] = req[t]
      BY <2>2 DEF Migrate, StartUp, LookForSchema, RejectFirstScript, RunScripts, ScriptsFail,
                  ServeUnlooked, Stop, database
    <3>2. NumbersOK'
      BY <3>1 DEF Ledger, NumbersOK
    <3>3. ASSUME NEW t \in Threads, pc'[t] # "idle" PROVE Progress(t)'
      <4>1. Progress(t) /\ pc'[t] = pc[t] /\ req'[t] = req[t] /\ Tenant(t)' = Tenant(t) /\ rows' = rows
        BY <3>1, <3>3 DEF Ledger, Tenant, F
      <4> QED BY <4>1 DEF Progress, StoredIn
    <3> QED BY <3>1, <3>2, <3>3 DEF Ledger, StoredIn
  <2>3. CASE UNCHANGED vars
    <3>1. UNCHANGED <<rows, trail, acked, served, pc, req>>
      BY <2>3 DEF vars, database
    <3>2. NumbersOK'
      BY <3>1 DEF Ledger, NumbersOK
    <3>3. ASSUME NEW t \in Threads, pc'[t] # "idle" PROVE Progress(t)'
      BY <3>1, <3>3 DEF Ledger, Progress, Tenant, F
    <3> QED BY <3>1, <3>2, <3>3 DEF Ledger
  <2> QED BY <2>1, <2>2, <2>3 DEF Next
<1> QED BY TypedAlways, <1>1, <1>2, PTL DEF Spec

\* An acknowledged request has its event, and an event its record, through every
\* failing statement and every stop (LocalSecurityMvp._save, then the audit append).
THEOREM AcknowledgedIsAlwaysStored == Spec => []AcknowledgedIsStored
<1>1. Ledger => AcknowledgedIsStored
  BY DEF Ledger, AcknowledgedIsStored, StoredIn, IdOf
<1> QED BY LedgerAlways, <1>1, PTL

\* Any process, however young, finds an acknowledged branch (mvp_pull_request).
THEOREM BranchesAlwaysOutliveProcesses == Spec => []BranchesOutliveProcesses
<1>1. Ledger => BranchesOutliveProcesses
  <2> SUFFICES ASSUME Ledger, NEW t \in Threads, NEW r \in acked, r.op = "branch", r.finding = F(t)
               PROVE  BranchStored(t)
    BY DEF BranchesOutliveProcesses
  <2>1. StoredIn(rows, r)
    BY DEF Ledger
  <2>2. PICK row \in rows : /\ row.tenant = Tenant(t) /\ row.type = "branch"
                            /\ row.payload.finding = F(t)
    BY <2>1 DEF StoredIn, Tenant
  <2> QED BY <2>2 DEF BranchStored, Records
<1> QED BY LedgerAlways, <1>1, PTL

(***************************************************************************)
(* The abstract specification: all of it is audited work in one place.     *)
(***************************************************************************)
Core(r) == [id |-> r.id, tenant |-> r.tenant, type |-> r.type]
Cores(R) == {Core(r) : r \in R}
Ids(R) == {r.id : r \in R}

\* A save adds one row under an id that was free, or only replaces a payload.
LEMMA SavedCores ==
    ASSUME rows \subseteq Rows, NEW id, NEW tenant, NEW type, NEW finding,
           rows' = Saved(id, tenant, type, finding)
    PROVE  \/ Cores(rows') = Cores(rows)
           \/ /\ id \notin Ids(rows)
              /\ Cores(rows') = Cores(rows) \cup {[id |-> id, tenant |-> tenant, type |-> type]}
<1> DEFINE payload == [of |-> type, finding |-> finding]
           new == [id |-> id, tenant |-> tenant, type |-> type, payload |-> payload]
           old == {r \in rows : r.id = id}
           Kept(r) == [r EXCEPT !.payload = IF r.tenant = tenant THEN payload ELSE @]
<1>1. CASE old = {}
  <2>1. rows' = rows \cup {new} /\ id \notin Ids(rows)
    BY <1>1 DEF Saved, Ids
  <2>2. Core(new) = [id |-> id, tenant |-> tenant, type |-> type]
    BY DEF Core
  <2> HIDE DEF new
  <2>3. Cores(rows') = Cores(rows) \cup {Core(new)}
    BY <2>1 DEF Cores
  <2> QED BY <2>1, <2>2, <2>3
<1>2. CASE old # {}
  <2>1. rows' = (rows \ old) \cup {Kept(r) : r \in old}
    BY <1>2 DEF Saved
  <2>2. \A r \in old : Core(Kept(r)) = Core(r)
    BY DEF Core, Rows
  <2>3. old \subseteq rows
    OBVIOUS
  <2> HIDE DEF old, Kept
  <2>4. Cores(rows') = Cores(rows)
    BY <2>1, <2>2, <2>3 DEF Cores
  <2> QED BY <2>4
<1> QED BY <1>1, <1>2

\* What is seen of the database.
SeenKept == [p \in {"database"} |-> {[id |-> r.id, tenant |-> r.tenant, type |-> r.type] : r \in rows}]
SeenEvidence == {IdOf(r) : r \in trail}
SeenPromised == [p \in {"database"} |-> {IdOf(r) : r \in acked}]

\* An event has its row.
LEMMA StoredHasId ==
    ASSUME NEW r, StoredIn(rows, r)
    PROVE  IdOf(r) \in Ids(rows)
BY DEF StoredIn, Ids

\* What a handler saves is new, or shows nothing.
LEMMA SaveIsWork ==
    ASSUME Typed, Ledger, NEW t \in Threads, SaveRemediation(t) \/ SaveKnowledge(t) \/ SaveRecord(t)
    PROVE  Audited!Do("database") \/ UNCHANGED <<SeenKept, SeenEvidence, SeenPromised>>
<1>1. /\ rows \subseteq Rows /\ Tenant(t) \in Tenants /\ UNCHANGED <<trail, acked>>
      /\ \A r \in trail : IdOf(r) \in Ids(rows)
  <2>1. req[t] \in Requests /\ UNCHANGED <<trail, acked>>
    BY SaveStep DEF Typed, TypeOK
  <2>2. Tenant(t) \in Tenants
    BY <2>1 DEF Requests, Tenant, F, Tenants
  <2>3. rows \subseteq Rows /\ \A r \in trail : IdOf(r) \in Ids(rows)
    BY StoredHasId DEF Typed, TypeOK, Ledger
  <2> QED BY <2>1, <2>2, <2>3
<1>2. \/ rows' = Saved(<<req[t].n, "remediation">>, Tenant(t), "remediation", F(t))
      \/ rows' = Saved(<<req[t].n, "remediation">>, Tenant(t), "knowledge", None)
      \/ rows' = Saved(<<req[t].n, req[t].op>>, Tenant(t), req[t].op, F(t))
  BY SaveStep
<1>3. CASE Cores(rows') = Cores(rows)
  BY <1>1, <1>3 DEF Cores, Core, SeenKept, SeenEvidence, SeenPromised
<1>4. ASSUME NEW kind, NEW id, id \notin Ids(rows),
             Cores(rows') = Cores(rows) \cup {[id |-> id, tenant |-> Tenant(t), type |-> kind]}
      PROVE  Audited!Do("database")
  <2> DEFINE w == [id |-> id, tenant |-> Tenant(t), type |-> kind]
  <2>1. id \notin Audited!Used
    <3>1. SeenKept["database"] = Cores(rows)
      BY DEF SeenKept, Cores, Core
    <3>2. \A c \in Cores(rows) : c.id \in Ids(rows)
      BY DEF Cores, Core, Ids
    <3>3. \A c \in SeenKept["database"] : c.id # id
      BY <1>4, <3>1, <3>2
    <3> QED BY <1>1, <1>4, <3>3 DEF Audited!Used, Audited!IdsAt, SeenKept
  <2>2. w \in SeenKept'["database"] /\ SeenKept' = [SeenKept EXCEPT !["database"] = @ \cup {w}]
    <3>1. SeenKept = [p \in {"database"} |-> Cores(rows)] /\ SeenKept' = [p \in {"database"} |-> Cores(rows')]
      BY DEF SeenKept, Cores, Core
    <3> QED BY <1>4, <3>1
  <2>3. w.id = id /\ w.tenant \in {f.tenant : f \in Findings}
    BY <1>1 DEF Tenants
  <2> HIDE DEF w
  <2>4. UNCHANGED <<SeenEvidence, SeenPromised>>
    BY <1>1 DEF SeenEvidence, SeenPromised
  <2> QED BY <2>1, <2>2, <2>3, <2>4 DEF Audited!Do, SeenKept, SeenEvidence, SeenPromised
<1>5. ASSUME NEW type, NEW kind, NEW f, rows' = Saved(<<req[t].n, type>>, Tenant(t), kind, f)
      PROVE  \/ Cores(rows') = Cores(rows)
             \/ /\ <<req[t].n, type>> \notin Ids(rows)
                /\ Cores(rows') = Cores(rows) \cup
                     {[id |-> <<req[t].n, type>>, tenant |-> Tenant(t), type |-> kind]}
  <2> DEFINE id == <<req[t].n, type>>
  <2>1. rows' = Saved(id, Tenant(t), kind, f)
    BY <1>5
  <2> HIDE DEF id
  <2> HIDE StoreAssumption
  <2>2. \/ Cores(rows') = Cores(rows)
        \/ /\ id \notin Ids(rows)
           /\ Cores(rows') = Cores(rows) \cup {[id |-> id, tenant |-> Tenant(t), type |-> kind]}
    BY <1>1, <2>1, SavedCores
  <2> QED BY <2>2 DEF id
<1>6. ASSUME NEW type, NEW kind, NEW f, rows' = Saved(<<req[t].n, type>>, Tenant(t), kind, f)
      PROVE  Audited!Do("database") \/ UNCHANGED <<SeenKept, SeenEvidence, SeenPromised>>
  BY <1>3, <1>4, <1>5, <1>6
<1> QED BY <1>2, <1>6

\* The event and the answer are about a row that is there.
LEMMA AuditIsAcknowledgement ==
    ASSUME Typed, Ledger, NEW t \in Threads, AppendAudit(t)
    PROVE  Audited!Acknowledge("database")
<1>1. /\ pc[t] = "audit" /\ rows' = rows
      /\ trail' = trail \cup {req[t]} /\ acked' = acked \cup {req[t]}
  BY DEF AppendAudit, Commit
<1>2. IdOf(req[t]) \in Ids(rows)
  BY <1>1, StoredHasId DEF Ledger, Progress
<1>3. IdOf(req[t]) \in Audited!IdsAt("database")
  <2>1. PICK r \in rows : r.id = IdOf(req[t])
    BY <1>2 DEF Ids
  <2>2. Core(r) \in SeenKept["database"] /\ Core(r).id = IdOf(req[t])
    BY <2>1 DEF SeenKept, Core
  <2> QED BY <2>2 DEF Audited!IdsAt, SeenKept
<1>4. /\ SeenEvidence' = SeenEvidence \cup {IdOf(req[t])}
      /\ SeenPromised' = [SeenPromised EXCEPT !["database"] = @ \cup {IdOf(req[t])}]
      /\ SeenKept' = SeenKept
  <2>1. SeenEvidence' = SeenEvidence \cup {IdOf(req[t])}
    BY <1>1 DEF SeenEvidence, IdOf
  <2>2. SeenPromised' = [SeenPromised EXCEPT !["database"] = @ \cup {IdOf(req[t])}]
    BY <1>1 DEF SeenPromised, IdOf
  <2> QED BY <1>1, <2>1, <2>2 DEF SeenKept
<1> QED BY <1>3, <1>4 DEF Audited!Acknowledge, SeenKept, SeenEvidence, SeenPromised

\* Seen from outside, any number of processes, threads and connections over one
\* database do audited work that is never lost: every step of a handler, a start-up
\* or a stop is new work, an acknowledgement of work that is there, or nothing.
THEOREM AuditedWorkIsImplemented == Spec => ImplementsAuditedWork
<1>1. Init => Audited!Init
  BY DEF Init, Audited!Init
<1>2. Typed /\ Ledger /\ [Next]_vars => [Audited!Next]_(Audited!vars)
  <2> SUFFICES ASSUME Typed, Ledger, [Next]_vars PROVE [Audited!Next]_(Audited!vars)
    OBVIOUS
  <2>1. ASSUME UNCHANGED <<SeenKept, SeenEvidence, SeenPromised>>
        PROVE  UNCHANGED Audited!vars
    BY <2>1 DEF Audited!vars, SeenKept, SeenEvidence, SeenPromised
  <2>2. ASSUME UNCHANGED <<rows, trail, acked>>
        PROVE  UNCHANGED Audited!vars
    BY <2>2 DEF Audited!vars
  <2>3. ASSUME NEW t \in Threads, Serve(t) PROVE [Audited!Next]_(Audited!vars)
    <3>1. CASE SaveRemediation(t) \/ SaveKnowledge(t) \/ SaveRecord(t)
      BY <2>1, <3>1, SaveIsWork DEF Audited!Next
    <3>2. CASE AppendAudit(t)
      BY <3>2, AuditIsAcknowledgement DEF Audited!Next
    <3> QED BY <2>2, <2>3, <3>1, <3>2, DatabaseStep
  <2>4. ASSUME Migrate \/ \E p \in Processes : StartUp(p) \/ Stop(p)
        PROVE  UNCHANGED <<rows, trail, acked>>
    BY <2>4 DEF Migrate, StartUp, LookForSchema, RejectFirstScript, RunScripts, ScriptsFail, ServeUnlooked,
                Stop, database
  <2>5. CASE UNCHANGED vars
    BY <2>2, <2>5 DEF vars, database
  <2> QED BY <2>2, <2>3, <2>4, <2>5 DEF Next
<1> QED BY TypedAlways, LedgerAlways, <1>1, <1>2, PTL DEF Spec, ImplementsAuditedWork, Audited!Spec
=============================================================================
