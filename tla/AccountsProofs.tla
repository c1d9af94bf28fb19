--------------------------- MODULE AccountsProofs ---------------------------
(***************************************************************************)
(* Proofs about demo accounts.  An account is numbered 4 plus the size of  *)
(* the registry.  The registry never loses the three built-in accounts, so *)
(* a registered id is at least 7, overlap or not.  As long as no two       *)
(* registrations overlap, the ids in use are distinct and below 4 plus the *)
(* size, and the number a thread holds is exactly that.                    *)
(***************************************************************************)
EXTENDS Accounts, FiniteSetTheorems, TLAPS

Steps == {"idle", "check", "number", "insert"}

\* The registry keeps the built-in accounts; every other is numbered from 7 and
\* has no administrator's role.
Registry ==
    /\ IsFiniteSet(DOMAIN users)
    /\ Cardinality(DOMAIN users) \in Nat /\ Cardinality(DOMAIN users) >= 3
    /\ \A e \in DOMAIN Seeded : e \in DOMAIN users /\ users[e] = Seeded[e]
    /\ \A e \in DOMAIN users \ DOMAIN Seeded :
          /\ e \in {Lower[x] : x \in Emails}
          /\ users[e].id \in Nat /\ users[e].id >= 7
          /\ users[e].password \in Passwords
          /\ users[e].role \in Role \ {"PLATFORM_ADMIN"}

\* What a thread holds at each step.
Held ==
    /\ pc \in [Threads -> Steps] /\ DOMAIN req = Threads /\ DOMAIN number = Threads
    /\ overlapped \in BOOLEAN
    /\ \A t \in Threads :
          /\ IF pc[t] = "idle" THEN req[t] = None ELSE req[t] \in Registrations
          /\ pc[t] \in {"number", "insert"} => EmailOf(t) \notin DOMAIN Seeded
          /\ IF pc[t] = "insert" THEN number[t] \in Nat /\ number[t] >= 7 ELSE number[t] = None

\* What was answered.
Answered ==
    /\ \A a \in accepted : a.account.id \in Nat /\ a.account.id >= 7
    /\ principal # None /\ "PLATFORM_ADMIN" \in principal.roles => principal.id = 3

\* Without overlap only one thread is at work; its e-mail is still free and its
\* number still the next.
Alone ==
    ~overlapped =>
        /\ \A s, t \in Threads : pc[s] # "idle" /\ pc[t] # "idle" => s = t
        /\ \A t \in Threads :
              /\ pc[t] \in {"number", "insert"} => EmailOf(t) \notin DOMAIN users
              /\ pc[t] = "insert" => number[t] = 4 + Cardinality(DOMAIN users)

\* Without overlap ids are distinct and accepted accounts stored as answered.
Distinct ==
    ~overlapped =>
        /\ \A e \in DOMAIN users : users[e].id \in Nat /\ users[e].id < 4 + Cardinality(DOMAIN users)
        /\ \A d, e \in DOMAIN users : users[d].id = users[e].id => d = e
        /\ \A a \in accepted : /\ Lower[a.email] \in DOMAIN users
                               /\ users[Lower[a.email]] = a.account

Inv == Registry /\ Held /\ Answered /\ Alone /\ Distinct

-----------------------------------------------------------------------------
\* The registry and the threads as the process is started.
LEMMA Start == Init => Inv
<1> SUFFICES ASSUME Init PROVE Inv
  OBVIOUS
<1> USE DEF Init
<1>1. Registry
  BY AccountsAssumption DEF Registry
<1>2. Held
  BY DEF Held, Steps
<1>3. Answered
  BY DEF Answered
<1>4. Alone
  BY DEF Alone
<1>5. Distinct
  <2>1. Cardinality(DOMAIN users) = 3
    BY AccountsAssumption
  <2>2. \A e \in DOMAIN users : users[e].id \in 1..3
    BY AccountsAssumption
  <2>3. \A d, e \in DOMAIN users : users[d].id = users[e].id => d = e
    BY AccountsAssumption
  <2> QED BY <2>1, <2>2, <2>3 DEF Distinct
<1> QED BY <1>1, <1>2, <1>3, <1>4, <1>5 DEF Inv

\* One account more: the registry after an insertion.
LEMMA Insertion ==
    ASSUME Inv, NEW t \in Threads, InsertAccount(t)
    PROVE  /\ DOMAIN users' = DOMAIN users \cup {EmailOf(t)}
           /\ users'[EmailOf(t)] = Account(t)
           /\ \A e \in DOMAIN users : e # EmailOf(t) => users'[e] = users[e]
           /\ EmailOf(t) \in {Lower[x] : x \in Emails}
           /\ EmailOf(t) \notin DOMAIN Seeded
           /\ number[t] \in Nat /\ number[t] >= 7
           /\ req[t] \in Registrations
           /\ IsFiniteSet(DOMAIN users')
           /\ Cardinality(DOMAIN users') =
                 IF EmailOf(t) \in DOMAIN users THEN Cardinality(DOMAIN users)
                                                ELSE Cardinality(DOMAIN users) + 1
<1>1. pc[t] = "insert"
  BY DEF InsertAccount
<1>2. req[t] \in Registrations /\ number[t] \in Nat /\ number[t] >= 7
      /\ EmailOf(t) \notin DOMAIN Seeded
  BY <1>1 DEF Inv, Held
<1>3. EmailOf(t) \in {Lower[x] : x \in Emails}
  BY <1>2, AccountsAssumption DEF EmailOf, Registrations
<1>4. /\ DOMAIN users' = DOMAIN users \cup {EmailOf(t)}
      /\ users'[EmailOf(t)] = Account(t)
      /\ \A e \in DOMAIN users : e # EmailOf(t) => users'[e] = users[e]
  BY DEF InsertAccount
<1>5. IsFiniteSet(DOMAIN users)
  BY DEF Inv, Registry
<1> QED BY <1>2, <1>3, <1>4, <1>5, FS_AddElement

LEMMA GrantedIsNoAdmin ==
    ASSUME NEW asked
    PROVE  GrantedRole(asked) \in Role \ {"PLATFORM_ADMIN"}
BY DEF GrantedRole, Role

-----------------------------------------------------------------------------
\* What changes none of the variables an invariant speaks of.
Serves(t) == ReceiveRegister(t) \/ RejectKnown(t) \/ CheckEmail(t) \/ ChooseId(t)

LEMMA ServingKeepsAccounts ==
    ASSUME NEW t \in Threads, Serves(t)
    PROVE  UNCHANGED <<users, accepted, walk, principal>>
BY DEF Serves, ReceiveRegister, RejectKnown, CheckEmail, ChooseId

LEMMA ResolvingKeepsAccounts ==
    ASSUME BeginResolve \/ FinishResolve \/ BreakResolve
    PROVE  UNCHANGED <<users, pc, req, number, accepted, overlapped>>
BY DEF BeginResolve, FinishResolve, BreakResolve

LEMMA RegistryStep ==
    ASSUME Inv, Next
    PROVE  Registry'
<1>1. ASSUME UNCHANGED users PROVE Registry'
  BY <1>1 DEF Inv, Registry
<1>2. ASSUME NEW t \in Threads, InsertAccount(t) PROVE Registry'
  <2>1. Account(t).id = number[t] /\ Account(t).password \in Passwords
        /\ Account(t).role \in Role \ {"PLATFORM_ADMIN"}
    BY <1>2, Insertion, GrantedIsNoAdmin DEF Account, Registrations
  <2>2. \A e \in DOMAIN Seeded : e \in DOMAIN users' /\ users'[e] = Seeded[e]
    BY <1>2, Insertion DEF Inv, Registry
  <2>3. ASSUME NEW e \in DOMAIN users' \ DOMAIN Seeded
        PROVE  /\ e \in {Lower[x] : x \in Emails}
               /\ users'[e].id \in Nat /\ users'[e].id >= 7
               /\ users'[e].password \in Passwords
               /\ users'[e].role \in Role \ {"PLATFORM_ADMIN"}
    <3>1. CASE e = EmailOf(t)
      BY <3>1, <1>2, <2>1, Insertion
    <3>2. CASE e # EmailOf(t)
      BY <3>2, <1>2, Insertion DEF Inv, Registry
    <3> QED BY <3>1, <3>2
  <2>4. Cardinality(DOMAIN users) \in Nat /\ Cardinality(DOMAIN users) >= 3
    BY DEF Inv, Registry
  <2>5. \/ Cardinality(DOMAIN users') = Cardinality(DOMAIN users)
        \/ Cardinality(DOMAIN users') = Cardinality(DOMAIN users) + 1
    BY <1>2, Insertion
  <2>6. Cardinality(DOMAIN users') \in Nat /\ Cardinality(DOMAIN users') >= 3
    BY <2>4, <2>5
  <2>7. IsFiniteSet(DOMAIN users')
    BY <1>2, Insertion
  <2> QED BY <2>2, <2>3, <2>6, <2>7 DEF Registry
<1>3. CASE Restart
  <2>1. Init'
    BY <1>3 DEF Restart, Init
  <2>2. Inv'
    BY <2>1, Start, PTL
  <2> QED BY <2>2 DEF Inv
<1> QED BY <1>1, <1>2, <1>3, ServingKeepsAccounts, ResolvingKeepsAccounts DEF Next, Serves

LEMMA HeldStep ==
    ASSUME Inv, Next
    PROVE  Held'
<1> USE DEF Inv, Held, GoTo, EmailOf, Steps
<1>1. ASSUME NEW t \in Threads, ReceiveRegister(t) PROVE Held'
  BY <1>1, AccountsAssumption DEF ReceiveRegister
<1>2. ASSUME NEW t \in Threads, RejectKnown(t) PROVE Held'
  BY <1>2 DEF RejectKnown
<1>3. ASSUME NEW t \in Threads, CheckEmail(t) PROVE Held'
  BY <1>3 DEF CheckEmail, Registry
<1>4. ASSUME NEW t \in Threads, ChooseId(t) PROVE Held'
  <2>1. Cardinality(DOMAIN users) \in Nat /\ Cardinality(DOMAIN users) >= 3
    BY DEF Registry
  <2>2. 4 + Cardinality(DOMAIN users) \in Nat /\ 4 + Cardinality(DOMAIN users) >= 7
    BY <2>1
  <2> QED BY <1>4, <2>2 DEF ChooseId
<1>5. ASSUME NEW t \in Threads, InsertAccount(t) PROVE Held'
  BY <1>5 DEF InsertAccount
<1>6. CASE Restart
  <2>1. Init'
    BY <1>6 DEF Restart, Init
  <2>2. Inv'
    BY <2>1, Start, PTL
  <2> QED BY <2>2
<1>7. CASE BeginResolve \/ FinishResolve \/ BreakResolve
  BY <1>7, ResolvingKeepsAccounts
<1> QED BY <1>1, <1>2, <1>3, <1>4, <1>5, <1>6, <1>7 DEF Next

LEMMA AnsweredStep ==
    ASSUME Inv, Next
    PROVE  Answered'
<1>1. ASSUME UNCHANGED <<accepted, principal>> PROVE Answered'
  BY <1>1 DEF Inv, Answered
<1>2. ASSUME NEW t \in Threads, InsertAccount(t) PROVE Answered'
  <2>1. accepted' = accepted \cup {[email |-> req[t].email, account |-> Account(t)]}
        /\ UNCHANGED principal
    BY <1>2 DEF InsertAccount
  <2>2. Account(t).id \in Nat /\ Account(t).id >= 7
    BY <1>2, Insertion DEF Account
  <2> QED BY <2>1, <2>2 DEF Inv, Answered
<1>3. CASE FinishResolve
  <2> DEFINE id == walk.id
  <2>1. "PLATFORM_ADMIN" \in RolesOf(id) => id = 3
    <3> SUFFICES ASSUME "PLATFORM_ADMIN" \in RolesOf(id) PROVE id = 3
      OBVIOUS
    <3>1. PICK e \in DOMAIN users : users[e].id = id /\ users[e].role = "PLATFORM_ADMIN"
      BY DEF RolesOf
    <3>2. e \in DOMAIN Seeded /\ users[e] = Seeded[e]
      BY <3>1 DEF Inv, Registry
    <3> QED BY <3>1, <3>2, AccountsAssumption
  <2>2. principal' = [id |-> id, roles |-> RolesOf(id)] /\ UNCHANGED accepted
    BY <1>3 DEF FinishResolve
  <2> HIDE DEF id
  <2> QED BY <2>1, <2>2 DEF Inv, Answered
<1>4. CASE Restart
  BY <1>4 DEF Restart, Answered
<1> QED BY <1>1, <1>2, <1>3, <1>4, ServingKeepsAccounts
        DEF Next, Serves, BeginResolve, BreakResolve

\* A registration that does not overlap another is the only one at work.
LEMMA OnlyOne ==
    ASSUME Inv, NEW t \in Threads, Serves(t) \/ InsertAccount(t), ~overlapped'
    PROVE  ~overlapped /\ \A u \in Threads \ {t} : pc'[u] = "idle"
<1>1. CASE ReceiveRegister(t)
  <2>1. ~overlapped /\ Busy = {} /\ pc' = [pc EXCEPT ![t] = "check"]
    BY <1>1 DEF ReceiveRegister, GoTo, Inv, Held
  <2> QED BY <2>1 DEF Busy, Inv, Held
<1>2. CASE RejectKnown(t) \/ CheckEmail(t) \/ ChooseId(t) \/ InsertAccount(t)
  <2>1. PICK step : pc' = [pc EXCEPT ![t] = step]
    BY <1>2 DEF RejectKnown, CheckEmail, ChooseId, InsertAccount, GoTo
  <2>2. ~overlapped /\ pc[t] # "idle"
    BY <1>2 DEF RejectKnown, CheckEmail, ChooseId, InsertAccount
  <2>3. \A u \in Threads \ {t} : pc[u] = "idle"
    BY <2>2 DEF Inv, Alone
  <2> QED BY <2>1, <2>2, <2>3 DEF Inv, Held
<1> QED BY <1>1, <1>2 DEF Serves

LEMMA AloneStep ==
    ASSUME Inv, Next
    PROVE  Alone'
<1> SUFFICES ASSUME ~overlapped'
             PROVE  /\ \A s, t \in Threads : pc'[s] # "idle" /\ pc'[t] # "idle" => s = t
                    /\ \A t \in Threads :
                          /\ pc'[t] \in {"number", "insert"} => EmailOf(t)' \notin DOMAIN users'
                          /\ pc'[t] = "insert" => number'[t] = 4 + Cardinality(DOMAIN users')
  BY DEF Alone
<1> DEFINE Fine(t) == /\ pc'[t] \in {"number", "insert"} => EmailOf(t)' \notin DOMAIN users'
                      /\ pc'[t] = "insert" => number'[t] = 4 + Cardinality(DOMAIN users')
<1>1. ASSUME NEW t \in Threads, Serves(t) \/ InsertAccount(t), Fine(t)
      PROVE  /\ \A s, u \in Threads : pc'[s] # "idle" /\ pc'[u] # "idle" => s = u
             /\ \A u \in Threads : Fine(u)
  BY <1>1, OnlyOne
<1>2. ASSUME NEW t \in Threads, Serves(t) \/ InsertAccount(t)
      PROVE  Fine(t)
  <2>1. ~overlapped
    BY <1>2, OnlyOne
  <2>2. CASE ReceiveRegister(t)
    <3>1. pc'[t] = "check"
      BY <2>2 DEF ReceiveRegister, GoTo, Inv, Held
    <3> QED BY <3>1
  <2>3. CASE RejectKnown(t) \/ InsertAccount(t)
    <3>1. pc'[t] = "idle"
      BY <2>3 DEF RejectKnown, InsertAccount, GoTo, Inv, Held
    <3> QED BY <3>1
  <2>4. CASE CheckEmail(t)
    <3>1. pc'[t] = "number" /\ req' = req /\ users' = users /\ EmailOf(t) \notin DOMAIN users
      BY <2>4 DEF CheckEmail, GoTo, Inv, Held
    <3> QED BY <3>1 DEF EmailOf
  <2>5. CASE ChooseId(t)
    <3>1. /\ pc[t] = "number" /\ req' = req /\ users' = users
          /\ number'[t] = 4 + Cardinality(DOMAIN users)
      BY <2>5 DEF ChooseId, Inv, Held
    <3>2. EmailOf(t) \notin DOMAIN users
      BY <2>1, <3>1 DEF Inv, Alone
    <3> QED BY <3>1, <3>2 DEF EmailOf
  <2> QED BY <1>2, <2>2, <2>3, <2>4, <2>5 DEF Serves
<1>3. CASE \E t \in Threads : Serves(t) \/ InsertAccount(t)
  BY <1>1, <1>2, <1>3
<1>4. CASE Restart
  <2>1. \A t \in Threads : pc'[t] = "idle"
    BY <1>4 DEF Restart
  <2> QED BY <2>1
<1>5. CASE BeginResolve \/ FinishResolve \/ BreakResolve
  BY <1>5, ResolvingKeepsAccounts DEF Inv, Alone, EmailOf
<1> QED BY <1>3, <1>4, <1>5 DEF Next, Serves

LEMMA DistinctStep ==
    ASSUME Inv, Next
    PROVE  Distinct'
<1>1. ASSUME UNCHANGED <<users, accepted>>, overlapped' = FALSE => overlapped = FALSE
      PROVE  Distinct'
  BY <1>1 DEF Inv, Held, Distinct
<1>2. ASSUME NEW t \in Threads, Serves(t) PROVE Distinct'
  <2>1. overlapped' = FALSE => overlapped = FALSE
    BY <1>2 DEF Serves, ReceiveRegister, RejectKnown, CheckEmail, ChooseId, Inv, Held
  <2> QED BY <1>1, <1>2, <2>1, ServingKeepsAccounts
<1>3. ASSUME NEW t \in Threads, InsertAccount(t) PROVE Distinct'
  <2> SUFFICES ASSUME overlapped = FALSE PROVE Distinct'
    BY <1>3 DEF InsertAccount, Distinct, Inv, Held
  <2> DEFINE e0 == EmailOf(t)
             n  == Cardinality(DOMAIN users)
  <2>1. pc[t] = "insert"
    BY <1>3 DEF InsertAccount
  <2>2. e0 \notin DOMAIN users /\ number[t] = 4 + n /\ n \in Nat
    BY <2>1 DEF Inv, Alone, Registry
  <2>3. Cardinality(DOMAIN users') = n + 1
    BY <1>3, <2>2, Insertion
  <2>4. /\ DOMAIN users' = DOMAIN users \cup {e0}
        /\ users'[e0] = Account(t)
        /\ \A e \in DOMAIN users : users'[e] = users[e]
    BY <1>3, <2>2, Insertion
  <2>5. accepted' = accepted \cup {[email |-> req[t].email, account |-> Account(t)]}
    BY <1>3 DEF InsertAccount
  <2>6. Account(t).id = 4 + n
    BY <2>2 DEF Account
  <2>7. \A e \in DOMAIN users : users[e].id \in Nat /\ users[e].id < 4 + n
    BY DEF Inv, Distinct
  <2>8. \A e \in DOMAIN users' : users'[e].id \in Nat /\ users'[e].id < 4 + (n + 1)
    BY <2>2, <2>4, <2>6, <2>7
  <2>9. \A d, e \in DOMAIN users' : users'[d].id = users'[e].id => d = e
    BY <2>2, <2>4, <2>6, <2>7 DEF Inv, Distinct
  <2>10. \A a \in accepted' : /\ Lower[a.email] \in DOMAIN users'
                              /\ users'[Lower[a.email]] = a.account
    BY <2>4, <2>5 DEF Inv, Distinct, EmailOf
  <2> QED BY <2>3, <2>8, <2>9, <2>10 DEF Distinct
<1>4. CASE Restart
  <2>1. Init'
    BY <1>4 DEF Restart, Init
  <2>2. Inv'
    BY <2>1, Start, PTL
  <2> QED BY <2>2 DEF Inv
<1>5. CASE BeginResolve \/ FinishResolve \/ BreakResolve
  BY <1>1, <1>5, ResolvingKeepsAccounts
<1> QED BY <1>2, <1>3, <1>4, <1>5 DEF Next, Serves

-----------------------------------------------------------------------------
\* The inductive invariant.
THEOREM Invariance == Spec => []Inv
<1>1. Inv /\ [Next]_vars => Inv'
  <2> SUFFICES ASSUME Inv, [Next]_vars PROVE Inv'
    OBVIOUS
  <2>1. CASE Next
    BY <2>1, RegistryStep, HeldStep, AnsweredStep, AloneStep, DistinctStep DEF Inv
  <2>2. CASE UNCHANGED vars
    BY <2>2 DEF vars, Inv, Registry, Held, Answered, Alone, Distinct, EmailOf
  <2> QED BY <2>1, <2>2
<1> QED BY <1>1, Start, PTL DEF Spec

\* The registry and the threads always have the shape register gives them.
THEOREM TypeCorrect == Spec => []TypeOK
<1>1. Inv => TypeOK
  <2> SUFFICES ASSUME Inv PROVE TypeOK
    OBVIOUS
  <2>1. DOMAIN users \subseteq {Lower[e] : e \in Emails} \cup DOMAIN Seeded
    BY DEF Inv, Registry
  <2>2. ASSUME NEW e \in DOMAIN users PROVE IsAccount(users[e])
    BY AccountsAssumption DEF Inv, Registry, IsAccount
  <2>3. ASSUME NEW t \in Threads
        PROVE  /\ pc[t] \in {"idle", "check", "number", "insert"}
               /\ req[t] = None <=> pc[t] = "idle"
               /\ number[t] = None <=> pc[t] # "insert"
    BY AccountsAssumption DEF Inv, Held, Steps
  <2>4. overlapped \in BOOLEAN
    BY DEF Inv, Held
  <2> QED BY <2>1, <2>2, <2>3, <2>4 DEF TypeOK
<1> QED BY <1>1, Invariance, PTL

\* However many registrations overlap, the built-in accounts stand and no
\* registered id resolves to the administrator's role.
THEOREM BuiltInAccountsAlwaysStand == Spec => []BuiltInAccountsStand
<1>1. Inv => BuiltInAccountsStand
  <2> SUFFICES ASSUME Inv PROVE BuiltInAccountsStand
    OBVIOUS
  <2>1. \A a \in accepted : \A e \in DOMAIN Seeded : a.account.id # Seeded[e].id
    BY AccountsAssumption DEF Inv, Answered
  <2> QED BY <2>1 DEF BuiltInAccountsStand, Inv, Registry, Answered
<1> QED BY <1>1, Invariance, PTL

\* Without overlap, whoever was accepted logs in with the answered id and role,
\* and the header with that id resolves to that role alone.
THEOREM AcceptedAlwaysKeepsIdentity == Spec => []AcceptedKeepsIdentity
<1>1. Inv => AcceptedKeepsIdentity
  <2> SUFFICES ASSUME Inv, ~overlapped, NEW a \in accepted
               PROVE  /\ Authenticate(a.email, a.account.password) = {a.account}
                      /\ RolesOf(a.account.id) = {a.account.role}
    BY DEF AcceptedKeepsIdentity
  <2>1. Lower[a.email] \in DOMAIN users /\ users[Lower[a.email]] = a.account
    BY DEF Inv, Distinct
  <2>2. \A d, e \in DOMAIN users : users[d].id = users[e].id => d = e
    BY DEF Inv, Distinct
  <2>3. Authenticate(a.email, a.account.password) = {a.account}
    BY <2>1 DEF Authenticate
  <2>4. {d \in DOMAIN users : users[d].id = a.account.id} = {Lower[a.email]}
    BY <2>1, <2>2
  <2>5. RolesOf(a.account.id) = {a.account.role}
    BY <2>1, <2>4 DEF RolesOf
  <2> QED BY <2>3, <2>5
<1> QED BY <1>1, Invariance, PTL

\* An account is never removed while the process runs, and only replaced after an
\* overlap.
THEOREM AccountsAlwaysStay == Spec => AccountsStay
<1> DEFINE Stays == users' = Seeded \/ \A e \in DOMAIN users :
                        e \in DOMAIN users' /\ (users'[e] # users[e] => overlapped)
<1>1. Inv /\ [Next]_vars => [Stays]_vars
  <2> SUFFICES ASSUME Inv, Next PROVE Stays
    OBVIOUS
  <2>1. ASSUME UNCHANGED users PROVE Stays
    BY <2>1
  <2>2. ASSUME NEW t \in Threads, InsertAccount(t) PROVE Stays
    <3>1. pc[t] = "insert"
      BY <2>2 DEF InsertAccount
    <3>2. EmailOf(t) \in DOMAIN users => overlapped
      BY <3>1 DEF Inv, Alone, Held
    <3> QED BY <2>2, <3>2, Insertion
  <2>3. CASE Restart
    BY <2>3 DEF Restart
  <2> QED BY <2>1, <2>2, <2>3, ServingKeepsAccounts, ResolvingKeepsAccounts DEF Next, Serves
<1> QED BY <1>1, Invariance, PTL DEF Spec, AccountsStay

(***************************************************************************)
(* Where accounts and roles come from, overlap or not.                     *)
(***************************************************************************)
\* An account that is not built in is one that was answered, to a registration of
\* its e-mail; whoever was accepted is still in the registry, perhaps with the
\* account of a registration that overlapped; and every role a request was ever
\* given is the default, a built-in account's of that id or one answered with it.
RolesAreGranted ==
    /\ \A e \in DOMAIN users \ DOMAIN Seeded :
          \E a \in accepted : Lower[a.email] = e /\ users[e] = a.account
    /\ \A a \in accepted : Lower[a.email] \in DOMAIN users
    /\ principal # None => \A role \in principal.roles :
          \/ role = "SECURITY_ANALYST"
          \/ \E e \in DOMAIN Seeded : Seeded[e].id = principal.id /\ Seeded[e].role = role
          \/ \E a \in accepted : a.account.id = principal.id /\ a.account.role = role

LEMMA ResolvedIsGranted ==
    ASSUME Inv, RolesAreGranted, NEW id, NEW role \in RolesOf(id)
    PROVE  \/ role = "SECURITY_ANALYST"
           \/ \E e \in DOMAIN Seeded : Seeded[e].id = id /\ Seeded[e].role = role
           \/ \E a \in accepted : a.account.id = id /\ a.account.role = role
<1>1. CASE role = "SECURITY_ANALYST"
  BY <1>1
<1>2. CASE role # "SECURITY_ANALYST"
  <2>1. PICK e \in DOMAIN users : users[e].id = id /\ users[e].role = role
    BY <1>2 DEF RolesOf
  <2>2. CASE e \in DOMAIN Seeded
    BY <2>1, <2>2 DEF Inv, Registry
  <2>3. CASE e \notin DOMAIN Seeded
    <3>1. PICK a \in accepted : users[e] = a.account
      BY <2>3 DEF RolesAreGranted
    <3> QED BY <2>1, <3>1
  <2> QED BY <2>2, <2>3
<1> QED BY <1>1, <1>2

LEMMA GrantedStep ==
    ASSUME Inv, RolesAreGranted, Next
    PROVE  RolesAreGranted'
<1>1. ASSUME UNCHANGED <<users, accepted, principal>> PROVE RolesAreGranted'
  BY <1>1 DEF RolesAreGranted
<1>2. ASSUME NEW t \in Threads, InsertAccount(t) PROVE RolesAreGranted'
  <2> DEFINE a0 == [email |-> req[t].email, account |-> Account(t)]
  <2>1. accepted' = accepted \cup {a0} /\ principal' = principal
    BY <1>2 DEF InsertAccount
  <2>2. Lower[a0.email] = EmailOf(t) /\ a0.account = Account(t)
    BY DEF EmailOf
  <2> HIDE DEF a0
  <2> DEFINE e0 == EmailOf(t)
  <2>3. /\ DOMAIN users' = DOMAIN users \cup {e0} /\ users'[e0] = Account(t)
        /\ \A e \in DOMAIN users : e # e0 => users'[e] = users[e]
    BY <1>2, Insertion
  <2>4. Lower[a0.email] = e0
    BY <2>2
  <2> HIDE DEF e0
  <2>5. ASSUME NEW e \in DOMAIN users' \ DOMAIN Seeded
        PROVE  \E a \in accepted' : Lower[a.email] = e /\ users'[e] = a.account
    <3>1. CASE e = e0
      BY <2>1, <2>2, <2>3, <2>4, <3>1
    <3>2. CASE e # e0
      <4>1. e \in DOMAIN users /\ users'[e] = users[e]
        BY <2>3, <3>2
      <4> QED BY <2>1, <4>1 DEF RolesAreGranted
    <3> QED BY <3>1, <3>2
  <2>6. \A a \in accepted' : Lower[a.email] \in DOMAIN users'
    BY <2>1, <2>3, <2>4 DEF RolesAreGranted
  <2> QED BY <2>1, <2>5, <2>6 DEF RolesAreGranted
<1>3. CASE FinishResolve
  <2>1. /\ principal' = [id |-> walk.id, roles |-> RolesOf(walk.id)]
        /\ UNCHANGED <<users, accepted>>
    BY <1>3 DEF FinishResolve
  <2>2. principal'.id = walk.id /\ principal'.roles = RolesOf(walk.id)
    BY <2>1
  <2>3. \A role \in principal'.roles :
           \/ role = "SECURITY_ANALYST"
           \/ \E e \in DOMAIN Seeded : Seeded[e].id = principal'.id /\ Seeded[e].role = role
           \/ \E a \in accepted : a.account.id = principal'.id /\ a.account.role = role
    BY <2>2, ResolvedIsGranted
  <2> QED BY <2>1, <2>3 DEF RolesAreGranted
<1>4. CASE Restart
  BY <1>4 DEF Restart, RolesAreGranted
<1> QED BY <1>1, <1>2, <1>3, <1>4, ServingKeepsAccounts
        DEF Next, Serves, BeginResolve, BreakResolve

\* However registrations overlap, with each other and with a request that resolves
\* its header: no account appears or disappears unanswered, and no request is given
\* a role that was not granted to the id it names.
THEOREM RolesAreAlwaysGranted == Spec => []RolesAreGranted
<1>1. Init => RolesAreGranted
  BY DEF Init, RolesAreGranted
<1>2. Inv /\ RolesAreGranted /\ [Next]_vars => RolesAreGranted'
  <2>1. ASSUME RolesAreGranted, UNCHANGED vars PROVE RolesAreGranted'
    BY <2>1 DEF vars, RolesAreGranted
  <2> QED BY <2>1, GrantedStep
<1> QED BY <1>1, <1>2, Invariance, PTL DEF Spec
=============================================================================
