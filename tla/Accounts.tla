------------------------------ MODULE Accounts ------------------------------
(***************************************************************************)
(* Demo accounts (auth.py) and the identity a request header resolves to   *)
(* (security.py) in one process of the local or demo environment.  register*)
(* is a plain function run on worker threads without a lock; it checks the *)
(* e-mail, numbers the account by the size of the dict and inserts it.     *)
(* require_principal is a coroutine: it walks the dict on the event loop.  *)
(***************************************************************************)
EXTENDS Integers, FiniteSets

CONSTANTS
    Threads,     \* worker threads
    Emails,      \* e-mails
    Typed,       \* the e-mails registrations may name
    HeaderIds,   \* the ids requests may name in X-User-Id
    Lower,       \* Lower[e]: the e-mail in lower case
    Passwords,
    AskedRoles,  \* roles registrations may ask for
    Seeded,      \* DEMO_USERS as the module defines it
    None,
    MaxAccepted  \* bound on registrations answered with 201

Role == {"SECURITY_ANALYST", "SECURITY_REVIEWER", "PLATFORM_ADMIN"}

Registrations == [email : Typed, password : Passwords, role : AskedRoles]

ASSUME AccountsAssumption ==
    /\ Lower \in [Emails -> Emails] /\ Typed \subseteq Emails
    /\ HeaderIds \subseteq Nat
    /\ DOMAIN Seeded \subseteq Emails /\ Cardinality(DOMAIN Seeded) = 3
    /\ IsFiniteSet(DOMAIN Seeded)
    /\ \A e \in DOMAIN Seeded : /\ Seeded[e].id \in 1..3
                                /\ Seeded[e].password \in Passwords
                                /\ Seeded[e].role \in Role
                                /\ Seeded[e].role = "PLATFORM_ADMIN" => Seeded[e].id = 3
    /\ \A d, e \in DOMAIN Seeded : Seeded[d].id = Seeded[e].id => d = e
    /\ None \notin Int /\ \A r \in Registrations : r # None

VARIABLES
    users,       \* DEMO_USERS: lower-case e-mail to password, id and role
    pc,          \* pc[t]: what thread t does next
    req,         \* req[t]: the registration it serves
    number,      \* number[t]: the id it has chosen
    accepted,    \* registrations answered with 201, with the answered id and role
    walk,        \* the walk of the dict on the event loop, or None
    principal,   \* the identity the last request was given, or None
    overlapped   \* whether two registrations have been served at the same time

vars == <<users, pc, req, number, accepted, walk, principal, overlapped>>

Busy == {t \in Threads : pc[t] # "idle"}

GoTo(t, step) == pc' = [pc EXCEPT ![t] = step]

EmailOf(t) == Lower[req[t].email]

(***************************************************************************)
(* POST /auth/register                                                     *)
(***************************************************************************)
GrantedRole(asked) ==
    IF asked \in {"SECURITY_ANALYST", "SECURITY_REVIEWER"} THEN asked ELSE "SECURITY_ANALYST"

ReceiveRegister(t) ==
    /\ pc[t] = "idle"
    /\ Cardinality(accepted) + Cardinality(Busy) < MaxAccepted
    /\ \E r \in Registrations : req' = [req EXCEPT ![t] = r]
    /\ GoTo(t, "check")
    /\ overlapped' = (overlapped \/ Busy # {})
    /\ UNCHANGED <<users, number, accepted, walk, principal>>

\* ValueError, answered with 409.
RejectKnown(t) ==
    /\ pc[t] = "check"
    /\ EmailOf(t) \in DOMAIN users
    /\ GoTo(t, "idle")
    /\ req' = [req EXCEPT ![t] = None]
    /\ UNCHANGED <<users, number, accepted, walk, principal, overlapped>>

\* Mutant: e-mails are compared as they were typed.
CheckTypedEmail(t) ==
    /\ pc[t] = "check"
    /\ req[t].email \notin DOMAIN users
    /\ GoTo(t, "number")
    /\ UNCHANGED <<users, req, number, accepted, walk, principal, overlapped>>

CheckEmail(t) ==
    /\ pc[t] = "check"
    /\ EmailOf(t) \notin DOMAIN users
    /\ GoTo(t, "number")
    /\ UNCHANGED <<users, req, number, accepted, walk, principal, overlapped>>

\* Mutant: the size of the dict itself is the next id.
ChooseSize(t) ==
    /\ pc[t] = "number"
    /\ number' = [number EXCEPT ![t] = Cardinality(DOMAIN users)]
    /\ GoTo(t, "insert")
    /\ UNCHANGED <<users, req, accepted, walk, principal, overlapped>>

ChooseId(t) ==
    /\ pc[t] = "number"
    /\ number' = [number EXCEPT ![t] = 4 + Cardinality(DOMAIN users)]
    /\ GoTo(t, "insert")
    /\ UNCHANGED <<users, req, accepted, walk, principal, overlapped>>

Account(t) ==
    [password |-> req[t].password, id |-> number[t], role |-> GrantedRole(req[t].role)]

\* Mutant: the account is stored under the e-mail as it was typed.
InsertTyped(t) ==
    /\ pc[t] = "insert"
    /\ users' = [e \in DOMAIN users \cup {req[t].email} |->
                    IF e = req[t].email THEN Account(t) ELSE users[e]]
    /\ accepted' = accepted \cup {[email |-> req[t].email, account |-> Account(t)]}
    /\ GoTo(t, "idle")
    /\ req' = [req EXCEPT ![t] = None]
    /\ number' = [number EXCEPT ![t] = None]
    /\ UNCHANGED <<walk, principal, overlapped>>

InsertAccount(t) ==
    /\ pc[t] = "insert"
    /\ users' = [e \in DOMAIN users \cup {EmailOf(t)} |->
                    IF e = EmailOf(t) THEN Account(t) ELSE users[e]]
    /\ accepted' = accepted \cup {[email |-> req[t].email, account |-> Account(t)]}
    /\ GoTo(t, "idle")
    /\ req' = [req EXCEPT ![t] = None]
    /\ number' = [number EXCEPT ![t] = None]
    /\ UNCHANGED <<walk, principal, overlapped>>

(***************************************************************************)
(* POST /auth/login changes nothing: Authenticate is its answer, empty for *)
(* a 401.                                                                  *)
(***************************************************************************)
\* Mutant: the e-mail is looked up as it was typed.
AuthenticateTyped(email, password) ==
    {a \in {users[e] : e \in DOMAIN users \cap {email}} : a.password = password}

Authenticate(email, password) ==
    {a \in {users[e] : e \in DOMAIN users \cap {Lower[email]}} : a.password = password}

(***************************************************************************)
(* Every other request: the roles of the X-User-Id header                  *)
(***************************************************************************)
RolesOf(id) ==
    LET named == {users[e].role : e \in {d \in DOMAIN users : users[d].id = id}}
    IN  IF named = {} THEN {"SECURITY_ANALYST"} ELSE named

BeginResolve ==
    /\ walk = None
    /\ \E id \in HeaderIds : walk' = [id |-> id, known |-> DOMAIN users]
    /\ UNCHANGED <<users, pc, req, number, accepted, principal, overlapped>>

FinishResolve ==
    /\ walk # None
    /\ walk.known = DOMAIN users
    /\ principal' = [id |-> walk.id, roles |-> RolesOf(walk.id)]
    /\ walk' = None
    /\ UNCHANGED <<users, pc, req, number, accepted, overlapped>>

\* The dict grew during the walk: RuntimeError, a 500 from unhandled_error.
BreakResolve ==
    /\ walk # None
    /\ walk.known # DOMAIN users
    /\ walk' = None
    /\ UNCHANGED <<users, pc, req, number, accepted, principal, overlapped>>

\* The process is started again; accounts live in its memory only.
Restart ==
    /\ users' = Seeded
    /\ pc' = [t \in Threads |-> "idle"]
    /\ req' = [t \in Threads |-> None]
    /\ number' = [t \in Threads |-> None]
    /\ accepted' = {}
    /\ walk' = None
    /\ principal' = None
    /\ overlapped' = FALSE

Init ==
    /\ users = Seeded
    /\ pc = [t \in Threads |-> "idle"]
    /\ req = [t \in Threads |-> None]
    /\ number = [t \in Threads |-> None]
    /\ accepted = {}
    /\ walk = None
    /\ principal = None
    /\ overlapped = FALSE

Next ==
    \/ \E t \in Threads : \/ ReceiveRegister(t) \/ RejectKnown(t) \/ CheckEmail(t)
                          \/ ChooseId(t) \/ InsertAccount(t)
    \/ BeginResolve \/ FinishResolve \/ BreakResolve
    \/ Restart

Spec == Init /\ [][Next]_vars

-----------------------------------------------------------------------------
IsAccount(a) == a.id \in Nat /\ a.password \in Passwords /\ a.role \in Role

\* The registry holds accounts under lower-case e-mails; a thread has a request
\* exactly while it is busy and a number exactly before it inserts.
TypeOK ==
    /\ DOMAIN users \subseteq {Lower[e] : e \in Emails} \cup DOMAIN Seeded
    /\ \A e \in DOMAIN users : IsAccount(users[e])
    /\ \A t \in Threads :
          /\ pc[t] \in {"idle", "check", "number", "insert"}
          /\ req[t] = None <=> pc[t] = "idle"
          /\ number[t] = None <=> pc[t] # "insert"
    /\ overlapped \in BOOLEAN

\* However registrations overlap, none changes one of the three built-in
\* accounts or is numbered like one, so no registered id ever resolves to the
\* administrator's role (register, require_principal).
BuiltInAccountsStand ==
    /\ \A e \in DOMAIN Seeded : e \in DOMAIN users /\ users[e] = Seeded[e]
    /\ \A a \in accepted : \A e \in DOMAIN Seeded : a.account.id # Seeded[e].id
    /\ principal # None /\ "PLATFORM_ADMIN" \in principal.roles => principal.id = 3

\* As long as no two registrations have been served at the same time, everyone
\* whose registration was accepted can log in with the answered id and role, and
\* the header with that id resolves to exactly that role: ids are not shared,
\* although they are only the size of the registry (register, authenticate,
\* require_principal).
AcceptedKeepsIdentity ==
    ~overlapped =>
        \A a \in accepted : /\ Authenticate(a.email, a.account.password) = {a.account}
                            /\ RolesOf(a.account.id) = {a.account.role}

\* An account is never removed while the process runs, and one that was inserted
\* is only ever replaced by a registration that overlapped another.
AccountsStay ==
    [][users' = Seeded \/ \A e \in DOMAIN users :
            e \in DOMAIN users' /\ (users'[e] # users[e] => overlapped)]_vars
=============================================================================
