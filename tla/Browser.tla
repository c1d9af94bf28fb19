------------------------------- MODULE Browser -------------------------------
(***************************************************************************)
(* One browser tab: ApiService with its shared observables, the identity   *)
(* AuthService keeps in localStorage, and the pages whose calls may be     *)
(* answered in another order than they were sent.  A call is sent, served  *)
(* or lost, and its answer delivered, in separate steps; a component that  *)
(* is left behind no longer shows anything, but its subscriptions still    *)
(* run ApiService's taps.  Every account has DEMO_TENANT_ID, so the server *)
(* (main.py) is one tenant's findings: those in review.                    *)
(***************************************************************************)
EXTENDS Integers, Sequences, FiniteSets, Functions

CONSTANTS
    Findings,
    MaxCalls,  \* bound on calls sent
    None

ASSUME BrowserAssumption == MaxCalls \in Nat /\ None \notin Findings

VARIABLES
    review,    \* at the server: findings IN_REVIEW
    changes,   \* at the server: changes made so far
    calls,     \* the calls in the order they were sent
    answered,  \* numbers of the calls answered to the tab, in the order of the answers
    cached,    \* vulnerabilityCache: the call behind the observable, 0 without one
    workflows, \* workflowsCache: likewise
    role,      \* pnc.role in localStorage, None when logged out
    page,      \* the route
    opened,    \* how many calls had been sent when its component was made
    awaited,   \* calls the component subscribes to that have no answer yet
    shown,     \* the read whose answer the component shows, 0 before the first
    items      \* ApprovalsComponent.items

server == <<review, changes>>
client == <<cached, workflows, role, page, opened, awaited, shown, items>>
vars == <<server, calls, answered, client>>

Roles == {"SECURITY_ANALYST", "SECURITY_REVIEWER"}
Pages == {"login", "dashboard", "vulnerabilities", "approvals", "pull-requests", "execute", "remediation"}
Reads == {"vulnerabilities", "approvals", "workflows", "pulls", "fix"}
Writes == {"decide", "bulk", "scan"}

\* answer: the findings in review when the queue was served; at: the changes made
\* by the time a list or a change was; after: the answers before it was sent.
Call(op, finding) ==
    [op |-> op, finding |-> finding, state |-> "sent", answer |-> {}, at |-> 0, after |-> Len(answered)]

Settled(n) == n \in Range(answered)
Succeeded(n) == Settled(n) /\ calls[n].state = "served"

(***************************************************************************)
(* Loading a page.  shareReplay keeps an answer for ever and an error not  *)
(* at all: the next subscription sends the request again.                  *)
(***************************************************************************)
\* Mutant: a cache that is empty is read all the same.
UsableUnchecked(n) == Settled(n) => Succeeded(n)

Usable(n) == n # 0 /\ (Settled(n) => Succeeded(n))

Sent(p) ==
    CASE p = "vulnerabilities" -> IF Usable(cached) THEN <<>> ELSE <<"vulnerabilities">>
      [] p = "approvals" -> <<"approvals">>
      [] p = "pull-requests" -> IF Usable(workflows) THEN <<"pulls">> ELSE <<"workflows", "pulls">>
      [] OTHER -> <<>>

Shared(p) ==
    CASE p = "vulnerabilities" -> {cached}
      [] p = "pull-requests" -> {workflows}
      [] OTHER -> {}

Load(p, waiting, showing) ==
    LET new == Len(calls) + 1
        replayed == {n \in Shared(p) : Usable(n)}
    IN  /\ Len(calls) + Len(Sent(p)) <= MaxCalls
        /\ calls' = calls \o [k \in DOMAIN Sent(p) |-> Call(Sent(p)[k], None)]
        /\ cached' = IF "vulnerabilities" \in Range(Sent(p)) THEN new ELSE cached
        /\ workflows' = IF "workflows" \in Range(Sent(p)) THEN new ELSE workflows
        /\ awaited' = waiting \cup {n \in replayed : ~Settled(n)} \cup (new..Len(calls'))
        /\ shown' = IF \E n \in replayed : Settled(n)
                    THEN CHOOSE n \in replayed : Settled(n) ELSE showing

\* authGuard, and the component of the route, made anew.
Open(p) ==
    /\ role # None /\ p # "login"
    /\ page' = IF p = "approvals" /\ role # "SECURITY_REVIEWER" THEN "dashboard" ELSE p
    /\ opened' = Len(calls)
    /\ items' = {}
    /\ Load(page', {}, 0)
    /\ UNCHANGED <<server, answered, role>>

Refresh ==
    /\ page \in {"vulnerabilities", "approvals", "pull-requests"}
    /\ Load(page, awaited, IF page = "pull-requests" THEN 0 ELSE shown)
    /\ UNCHANGED <<server, answered, role, page, opened, items>>

Leave(p) ==
    /\ page' = p /\ opened' = Len(calls)
    /\ awaited' = {} /\ shown' = 0 /\ items' = {}

\* AuthService.login, or register; the caches of the previous session are kept.
LogIn ==
    /\ page = "login"
    /\ role' \in Roles
    /\ Leave("dashboard")
    /\ UNCHANGED <<server, calls, answered, cached, workflows>>

LogOut ==
    /\ page # "login"
    /\ role' = None
    /\ Leave("login")
    /\ UNCHANGED <<server, calls, answered, cached, workflows>>

(***************************************************************************)
(* What a user asks for on a page: a decision on an item, a bulk request,  *)
(* a scan, the fix of a finding (its call's number stands for the finding, *)
(* whose title the page shows from the click on).                          *)
(***************************************************************************)
Ask(op, finding) ==
    /\ Len(calls) < MaxCalls
    /\ calls' = Append(calls, Call(op, finding))
    /\ awaited' = awaited \cup {Len(calls')}
    /\ UNCHANGED <<server, answered, cached, workflows, role, page, opened, shown, items>>

Act ==
    \/ page = "approvals" /\ \E f \in items : Ask("decide", f)
    \/ page = "remediation" /\ Ask("bulk", None)
    \/ page = "execute" /\ Ask("scan", None)
    \/ page = "execute" /\ Ask("fix", None)

(***************************************************************************)
(* The server and the network.                                             *)
(***************************************************************************)
Serve(n) ==
    /\ calls[n].state = "sent"
    /\ review' = CASE calls[n].op = "decide" -> review \ {calls[n].finding}
                   [] calls[n].op = "bulk" -> Findings
                   [] OTHER -> review
    /\ changes' = IF calls[n].op \in Writes THEN changes + 1 ELSE changes
    /\ calls' = [calls EXCEPT ![n].state = "served",
                               ![n].answer = IF calls[n].op = "approvals" THEN review ELSE @,
                               ![n].at = IF calls[n].op \in Writes \cup {"vulnerabilities"} THEN changes' ELSE @]
    /\ UNCHANGED <<answered, client>>

\* The call is refused, or its answer is lost after it has been served.
Lose(n) ==
    /\ calls[n].state # "lost" /\ ~Settled(n)
    /\ calls' = [calls EXCEPT ![n].state = "lost"]
    /\ UNCHANGED <<server, answered, client>>

\* Mutant: a decision does not invalidate the cached lists.
InvalidatedUnlessDecided(n) == calls[n].state = "served" /\ calls[n].op \in {"bulk", "scan"}

\* The taps of remediation, decideApproval and scanRepository.
Invalidates(n) == calls[n].state = "served" /\ calls[n].op \in Writes

\* Mutant: only the first answer is shown.
ShownFirst(n) ==
    IF calls[n].op \notin Reads \/ calls[n].state = "lost" \/ shown # 0 THEN shown ELSE n

\* An error leaves what the page shows, but for the queue, which it empties.
Shown(n) ==
    IF calls[n].op \notin Reads \/ calls[n].state = "lost" THEN shown ELSE n

\* Mutant: a decided item stays until the next refresh.
ItemsKept(n) == IF calls[n].op = "approvals" THEN calls[n].answer ELSE items

Items(n) ==
    CASE calls[n].op = "approvals" -> IF calls[n].state = "lost" THEN {} ELSE calls[n].answer
      [] calls[n].op = "decide" /\ calls[n].state = "served" -> items \ {calls[n].finding}
      [] OTHER -> items

Deliver(n) ==
    /\ calls[n].state # "sent" /\ ~Settled(n)
    /\ answered' = Append(answered, n)
    /\ cached' = IF Invalidates(n) THEN 0 ELSE cached
    /\ awaited' = awaited \ {n}
    /\ shown' = IF n \in awaited THEN Shown(n) ELSE shown
    /\ items' = IF n \in awaited THEN Items(n) ELSE items
    /\ UNCHANGED <<server, calls, workflows, role, page, opened>>

Init ==
    /\ review = Findings /\ changes = 0
    /\ calls = <<>> /\ answered = <<>>
    /\ cached = 0 /\ workflows = 0
    /\ role = None /\ page = "login" /\ opened = 0
    /\ awaited = {} /\ shown = 0 /\ items = {}

Next ==
    \/ LogIn \/ LogOut \/ Refresh \/ Act
    \/ \E p \in Pages : Open(p)
    \/ \E n \in DOMAIN calls : Serve(n) \/ Lose(n) \/ Deliver(n)

Spec == Init /\ [][Next]_vars

-----------------------------------------------------------------------------
CallRecords ==
    [op : Reads \cup Writes, finding : Findings \cup {None}, state : {"sent", "served", "lost"},
     answer : SUBSET Findings, at : Nat, after : Nat]

\* Every variable has its shape; no call is answered twice, and no subscription
\* waits for a call that has been answered.
TypeOK ==
    /\ review \in SUBSET Findings /\ changes \in Nat
    /\ calls \in Seq(CallRecords)
    /\ answered \in Seq(DOMAIN calls) /\ IsInjective(answered)
    /\ \A n \in DOMAIN calls : calls[n].after <= Len(answered)
    /\ cached \in 0..Len(calls) /\ workflows \in 0..Len(calls)
    /\ role \in Roles \cup {None} /\ page \in Pages /\ opened \in 0..Len(calls)
    /\ \A n \in awaited : n \in DOMAIN calls /\ ~Settled(n)
    /\ shown \in 0..Len(calls)
    /\ items \in SUBSET Findings

\* When call n was answered, counted in answers.
Place(n) == CHOOSE i \in DOMAIN answered : answered[i] = n

\* The cached list is never older than a change this tab has been told of, in
\* whichever order answers come, with errors, and across log-outs (the taps that
\* clear vulnerabilityCache, api.service.ts).
CacheIsFresh ==
    cached # 0 /\ calls[cached].state = "served" =>
        \A m \in DOMAIN calls :
            Succeeded(m) /\ calls[m].op \in Writes => calls[m].at <= calls[cached].at

\* A decided finding is in the queue again only if a bulk request put it back, or
\* if the list was asked for before the decision was answered and arrived after
\* it, or the decision was made on an earlier visit to the page
\* (ApprovalsComponent.decide and load).
DecidedLeavesQueue ==
    \A m \in DOMAIN calls :
        (page = "approvals" /\ Succeeded(m) /\ calls[m].op = "decide" /\ calls[m].finding \in items) =>
            \/ \E b \in DOMAIN calls : calls[b].op = "bulk" /\ calls[b].at > calls[m].at
            \/ /\ calls[shown].after < Place(m)
               /\ Place(shown) > Place(m) \/ m <= opened

\* What a page shows is the answer to its latest request, unless the answer to an
\* earlier one came later: the fix under a finding's title, the table that
\* workflows and pull requests share (ExecuteComponent.generate, OperationsComponent.load).
LastAskedIsShown ==
    \A n \in (opened + 1)..Len(calls) :
        (/\ Succeeded(n) /\ calls[n].op \in Reads
         /\ \A k \in (n + 1)..Len(calls) : calls[k].op \notin Reads) =>
            shown = n \/ (shown < n /\ shown # 0 /\ Place(shown) > Place(n))
=============================================================================
