--------------------------- MODULE MvpRemediation ---------------------------
(***************************************************************************)
(* The local remediation slice: mvp_fix, mvp_jira, mvp_branch and          *)
(* mvp_pull_request of main.py with LocalSecurityMvp without a store (the  *)
(* local mode), on worker threads, over one Git working tree.  Git is      *)
(* external: a branch is the content of the files at its tip.              *)
(*                                                                         *)
(* Of a file's content the model tells apart what the rewritings look for: *)
(* the literals of str.replace, in the code and in the file's first quoted *)
(* string, and that string itself with the number of times re.sub has      *)
(* replaced it.  It is whole unless a write was cut short.                 *)
(***************************************************************************)
EXTENDS Integers, FiniteSets

CONSTANTS
    Threads,       \* worker threads
    Tenants,
    Findings,      \* the repository's findings
    Files,
    Source,        \* Source[file]: the repository's content of a file
    Main,          \* the branch checked out at the start
    None,
    MaxRequests    \* bound on requests served

\* inTree: the repository path of a fix or branch request is the working tree, not
\* a directory without Git and without the finding's file.
\* mvp_finding serves the tenant's first row with the id asked for; another tenant's
\* finding is asked for when the tenant has none with its id.
Requests ==
    {r \in [op : {"fix", "jira", "branch", "pr"}, finding : Findings, tenant : Tenants, inTree : BOOLEAN] :
        r.finding.tenant = r.tenant \/ \A f \in Findings : f.id = r.finding.id => f.tenant # r.tenant}

\* The categories that str.replace rewrites, each with a literal of its own.
Literals == {"SQL_INJECTION", "XSS", "COMMAND_INJECTION"}

Content ==
    [code : SUBSET Literals, first : SUBSET Literals, quoted : BOOLEAN, nested : Nat, whole : BOOLEAN]

\* branch is "security/" followed by the CWE, or by the category without one.  Ids
\* come with imported findings: two tenants may have the same one.
ASSUME MvpAssumption ==
    /\ \A f \in Findings : f.tenant \in Tenants /\ f.file \in Files \cup {None} /\ f.branch # Main
    /\ \A f, g \in Findings : f.id = g.id /\ f.tenant = g.tenant => f = g
    /\ Source \in [Files -> {c \in Content : c.whole /\ c.nested = 0}] /\ None \notin Files
    /\ \A r \in Requests : r # None
    /\ MaxRequests \in Nat

VARIABLES
    remediations, \* data.remediations; knowledge has an entry with each id
    branches,     \* data.branches: at most one record for an id
    prs,          \* data.prs: likewise
    tickets,      \* data.jira: findings with a ticket, likewise
    trail,        \* the audit events: an operation and a finding
    tree,         \* tree[file]: content in the working tree
    torn,         \* threads that have had a file open for writing together
    index,        \* index[file]: content staged
    head,         \* the branch checked out
    tip,          \* tip[b]: content committed on branch b
    pc,           \* pc[t]: what thread t does next
    req,          \* req[t]: the request it serves
    fix,          \* fix[t]: the remediation it has read or made
    served,       \* requests received so far
    overlapped,   \* whether two requests have been served at the same time
    unread        \* findings whose branch request ended while looking their remediation up

git == <<tree, torn, index, head, tip>>
data == <<remediations, branches, prs, tickets, trail>>
local == <<pc, req, fix>>
vars == <<git, data, local, served, overlapped, unread>>

Busy == {t \in Threads : pc[t] # "idle"}

GoTo(t, step) == pc' = [pc EXCEPT ![t] = step]

\* The response is on its way; the thread is free.
Answer(t) ==
    /\ GoTo(t, "idle")
    /\ req' = [req EXCEPT ![t] = None]
    /\ fix' = [fix EXCEPT ![t] = None]

Refuse(t) == Answer(t) /\ UNCHANGED <<data, git, served, overlapped, unread>>

F(t) == req[t].finding

Receive(t) ==
    /\ pc[t] = "idle"
    /\ served < MaxRequests
    /\ \E r \in Requests :
          /\ r.op \in {"jira", "pr"} => r.inTree
          /\ req' = [req EXCEPT ![t] = r]
    /\ GoTo(t, "find")
    /\ served' = served + 1
    /\ overlapped' = (overlapped \/ Busy # {})
    /\ UNCHANGED <<data, git, fix, unread>>

\* mvp_finding
RejectForeign(t) ==
    /\ pc[t] = "find"
    /\ F(t).tenant # req[t].tenant
    /\ Refuse(t)  \* 404

FindFinding(t) ==
    /\ pc[t] = "find"
    /\ F(t).tenant = req[t].tenant
    /\ GoTo(t, CASE req[t].op = "fix" -> "read"
                 [] req[t].op = "jira" -> "ticket"
                 [] req[t].op = "branch" -> "lookup"
                 [] req[t].op = "pr" -> "open")
    /\ UNCHANGED <<data, git, req, fix, served, overlapped, unread>>

(***************************************************************************)
(* generate_fix, for mvp_fix and for mvp_branch                            *)
(***************************************************************************)
\* re.sub replaces the file's first quoted string (count=1).  What it puts there has
\* a quoted string, which is the first one from then on.
Nest(c) == IF c.quoted THEN [c EXCEPT !.first = {}, !.nested = @ + 1] ELSE c

Unliteral(c, category) == [c EXCEPT !.code = @ \ {category}, !.first = @ \ {category}]

\* Mutant: a category without a rewriting leaves a mark in the code.
FixedAnyway(f, c) ==
    CASE f.category \in Literals -> Unliteral(c, f.category)
      [] f.category = "SECRETS_EXPOSURE" -> Nest(c)
      [] OTHER -> [c EXCEPT !.code = @ \cup {f.category}]

\* str.replace rewrites its literal wherever it stands, and nothing without one.
Fixed(f, c) ==
    CASE f.category \in Literals -> Unliteral(c, f.category)
      [] f.category = "SECRETS_EXPOSURE" -> Nest(c)
      [] OTHER -> c

Remediation(f, original) == [finding |-> f, original |-> original, fixed |-> Fixed(f, original)]

\* Outside the tree, or without a file name, both codes are "Source unavailable".
NoSource(f) == [finding |-> f, original |-> None, fixed |-> None]

\* Mutant: the fix is made from what is committed on the first branch.
ReadFromMain(t) ==
    /\ pc[t] = "read"
    /\ fix' = [fix EXCEPT ![t] = IF req[t].inTree /\ F(t).file # None
                                 THEN Remediation(F(t), tip[Main][F(t).file])
                                 ELSE NoSource(F(t))]
    /\ GoTo(t, "record")
    /\ UNCHANGED <<data, git, req, served, overlapped, unread>>

ReadSource(t) ==
    /\ pc[t] = "read"
    /\ fix' = [fix EXCEPT ![t] = IF req[t].inTree /\ F(t).file # None
                                 THEN Remediation(F(t), tree[F(t).file])
                                 ELSE NoSource(F(t))]
    /\ GoTo(t, "record")
    /\ UNCHANGED <<data, git, req, served, overlapped, unread>>

\* The file cannot be read (OSError): 400 from mvp_fix, 500 from mvp_branch.
ReadFails(t) ==
    /\ pc[t] = "read"
    /\ Refuse(t)

\* Mutant: only a fix request keeps the record.
RecordForFixOnly(t) ==
    /\ pc[t] = "record"
    /\ remediations' = IF req[t].op = "fix" THEN remediations \cup {fix[t]} ELSE remediations
    /\ GoTo(t, IF req[t].op = "fix" THEN "audit" ELSE "switch")
    /\ UNCHANGED <<branches, prs, tickets, trail, git, req, fix, served, overlapped, unread>>

RecordFix(t) ==
    /\ pc[t] = "record"
    /\ remediations' = remediations \cup {fix[t]}
    /\ GoTo(t, IF req[t].op = "fix" THEN "audit" ELSE "switch")
    /\ UNCHANGED <<branches, prs, tickets, trail, git, req, fix, served, overlapped, unread>>

(***************************************************************************)
(* mvp_branch                                                              *)
(***************************************************************************)
Recorded(t) == \E r \in remediations : r.finding = F(t)

\* remediation_for_finding passes id, finding_id, tenant_id and created_at twice
\* to RemediationRecord when there is a record: TypeError, a 500.  Or another
\* thread inserts a record while records() walks the dict: RuntimeError.
LookUpFails(t) ==
    /\ pc[t] = "lookup"
    /\ Recorded(t) \/ \E u \in Threads \ {t} : pc[u] = "record"
    /\ Answer(t)
    /\ unread' = unread \cup {F(t)}
    /\ UNCHANGED <<data, git, served, overlapped>>

LookUpNothing(t) ==
    /\ pc[t] = "lookup"
    /\ ~Recorded(t)
    /\ GoTo(t, "walk")
    /\ UNCHANGED <<data, git, req, fix, served, overlapped, unread>>

\* The second walk, over the records themselves: nothing again,
WalkNothing(t) ==
    /\ pc[t] = "walk"
    /\ ~Recorded(t)
    /\ GoTo(t, "read")
    /\ UNCHANGED <<data, git, req, fix, served, overlapped, unread>>

\* or a record that another thread has inserted since, whose fix is used,
WalkFinds(t) ==
    /\ pc[t] = "walk"
    /\ \E r \in remediations :
          /\ r.finding = F(t)
          /\ fix' = [fix EXCEPT ![t] = r]
    /\ GoTo(t, "switch")
    /\ UNCHANGED <<data, git, req, served, overlapped, unread>>

\* or an insertion during the walk: RuntimeError.
WalkBreaks(t) ==
    /\ pc[t] = "walk"
    /\ \E u \in Threads \ {t} : pc[u] = "record"
    /\ Answer(t)
    /\ unread' = unread \cup {F(t)}
    /\ UNCHANGED <<data, git, served, overlapped>>

\* No working tree (ValueError), or git switch fails for another reason.
SwitchFails(t) ==
    /\ pc[t] = "switch"
    /\ Refuse(t)  \* 400

Changes(t) == F(t).file # None /\ fix[t].fixed # fix[t].original

\* Mutant: the result of git switch is not looked at.
SwitchUnchecked(t) ==
    /\ pc[t] = "switch"
    /\ req[t].inTree
    /\ GoTo(t, IF Changes(t) THEN "write" ELSE "save")
    /\ UNCHANGED <<data, git, req, fix, served, overlapped, unread>>

\* git switch -c: a new branch at the tip of the one checked out.  When the
\* branch "already exists" the code goes on, on the branch that is checked out.
SwitchBranch(t) ==
    /\ pc[t] = "switch"
    /\ req[t].inTree
    /\ IF F(t).branch \in DOMAIN tip
       THEN UNCHANGED <<head, tip>>
       ELSE /\ head' = F(t).branch
            /\ tip' = [b \in DOMAIN tip \cup {head'} |-> IF b = head' THEN tip[head] ELSE tip[b]]
    /\ GoTo(t, IF Changes(t) THEN "write" ELSE "save")
    /\ UNCHANGED <<data, tree, torn, index, req, fix, served, overlapped, unread>>

\* What may be on disk of two contents while, or after, one is written over the other.
Pieces(c, d) ==
    [code : SUBSET (c.code \cup d.code), first : SUBSET (c.first \cup d.first),
     quoted : {FALSE, c.quoted, d.quoted}, nested : {c.nested, d.nested}, whole : {FALSE}]

\* Threads with t's file open for writing.
Writing(t) == {u \in Threads \ {t} : pc[u] = "fill" /\ F(u).file = F(t).file}

\* write_text opens the file, which empties it, and writes: until it is done, others
\* find a part of the text.
TruncateFile(t) ==
    /\ pc[t] = "write"
    /\ \E c \in Pieces(fix[t].fixed, fix[t].fixed) : tree' = [tree EXCEPT ![F(t).file] = c]
    /\ torn' = IF Writing(t) = {} THEN torn ELSE torn \cup Writing(t) \cup {t}
    /\ GoTo(t, "fill")
    /\ UNCHANGED <<data, index, head, tip, req, fix, served, overlapped, unread>>

\* Two threads that have had the file open together write over each other's text.
WriteFile(t) ==
    /\ pc[t] = "fill"
    /\ \E c \in {fix[t].fixed} \cup (IF t \in torn THEN Pieces(fix[t].fixed, tree[F(t).file]) ELSE {}) :
          tree' = [tree EXCEPT ![F(t).file] = c]
    /\ torn' = torn \ {t}
    /\ GoTo(t, "add")
    /\ UNCHANGED <<data, index, head, tip, req, fix, served, overlapped, unread>>

\* OSError, from opening the file or, when it is cut short already, from writing it.
WriteFails(t) ==
    /\ pc[t] \in {"write", "fill"}
    /\ Answer(t)  \* 500
    /\ torn' = torn \ {t}
    /\ UNCHANGED <<data, tree, index, head, tip, served, overlapped, unread>>

\* The outcomes of git add and git commit are not looked at (check=False).
AddFile(t) ==
    /\ pc[t] = "add"
    /\ \/ index' = [index EXCEPT ![F(t).file] = tree[F(t).file]]
       \/ UNCHANGED index
    /\ GoTo(t, "commit")
    /\ UNCHANGED <<data, tree, torn, head, tip, req, fix, served, overlapped, unread>>

CommitIndex(t) ==
    /\ pc[t] = "commit"
    /\ \/ tip' = [tip EXCEPT ![head] = index]
       \/ UNCHANGED tip
    /\ GoTo(t, "save")
    /\ UNCHANGED <<data, tree, torn, index, head, req, fix, served, overlapped, unread>>

\* Mutant: a branch without changes is answered without an audit event.
SaveUnchanged(t) ==
    /\ pc[t] = "save"
    /\ branches' = {b \in branches : b.finding.id # F(t).id} \cup {[finding |-> F(t), name |-> F(t).branch]}
    /\ IF Changes(t) THEN GoTo(t, "audit") /\ UNCHANGED <<req, fix>> ELSE Answer(t)
    /\ UNCHANGED <<remediations, prs, tickets, trail, git, served, overlapped, unread>>

SaveBranch(t) ==
    /\ pc[t] = "save"
    /\ branches' = {b \in branches : b.finding.id # F(t).id} \cup {[finding |-> F(t), name |-> F(t).branch]}
    /\ GoTo(t, "audit")
    /\ UNCHANGED <<remediations, prs, tickets, trail, git, req, fix, served, overlapped, unread>>

(***************************************************************************)
(* mvp_pull_request, mvp_jira, and the audit event that ends all four      *)
(***************************************************************************)
RejectWithoutBranch(t) ==
    /\ pc[t] = "open"
    /\ \A b \in branches : b.finding.id # F(t).id
    /\ Refuse(t)  \* 409

\* Another thread inserts a branch record during the walk: RuntimeError, a 500.
OpenFails(t) ==
    /\ pc[t] = "open"
    /\ \A b \in branches : b.finding.id # F(t).id
    /\ \E u \in Threads \ {t} : pc[u] = "save"
    /\ Refuse(t)

\* data.branches and data.prs have one entry for an id, whichever tenant made it.
OpenPullRequest(t) ==
    /\ pc[t] = "open"
    /\ \E b \in branches :
          /\ b.finding.id = F(t).id
          /\ prs' = {p \in prs : p.finding.id # F(t).id} \cup {[finding |-> F(t), name |-> b.name]}
    /\ GoTo(t, "audit")
    /\ UNCHANGED <<remediations, branches, tickets, trail, git, req, fix, served, overlapped, unread>>

CreateTicket(t) ==
    /\ pc[t] = "ticket"
    /\ tickets' = {f \in tickets : f.id # F(t).id} \cup {F(t)}
    /\ GoTo(t, "audit")
    /\ UNCHANGED <<remediations, branches, prs, trail, git, req, fix, served, overlapped, unread>>

AppendAudit(t) ==
    /\ pc[t] = "audit"
    /\ trail' = trail \cup {[op |-> req[t].op, finding |-> F(t)]}
    /\ Answer(t)
    /\ UNCHANGED <<remediations, branches, prs, tickets, git, served, overlapped, unread>>

Init ==
    /\ remediations = {} /\ branches = {} /\ prs = {} /\ tickets = {} /\ trail = {}
    /\ tree = Source /\ index = Source /\ head = Main /\ tip = [b \in {Main} |-> Source]
    /\ torn = {}
    /\ pc = [t \in Threads |-> "idle"]
    /\ req = [t \in Threads |-> None]
    /\ fix = [t \in Threads |-> None]
    /\ served = 0
    /\ overlapped = FALSE
    /\ unread = {}

Next ==
    \E t \in Threads :
        \/ Receive(t) \/ RejectForeign(t) \/ FindFinding(t)
        \/ ReadSource(t) \/ ReadFails(t) \/ RecordFix(t)
        \/ LookUpFails(t) \/ LookUpNothing(t) \/ WalkNothing(t) \/ WalkFinds(t) \/ WalkBreaks(t)
        \/ SwitchFails(t) \/ SwitchBranch(t) \/ TruncateFile(t) \/ WriteFile(t) \/ WriteFails(t)
        \/ AddFile(t) \/ CommitIndex(t) \/ SaveBranch(t)
        \/ RejectWithoutBranch(t) \/ OpenFails(t) \/ OpenPullRequest(t) \/ CreateTicket(t) \/ AppendAudit(t)

Spec == Init /\ [][Next]_vars

-----------------------------------------------------------------------------
IsRemediation(r) ==
    /\ r.finding \in Findings
    /\ r.original \in Content \cup {None} /\ r.fixed \in Content \cup {None}

\* Every variable has its shape, and the branch checked out exists.
TypeOK ==
    /\ \A r \in remediations : IsRemediation(r)
    /\ tickets \subseteq Findings /\ unread \subseteq Findings
    /\ tree \in [Files -> Content] /\ index \in [Files -> Content]
    /\ torn \subseteq {t \in Threads : pc[t] = "fill"}
    /\ head \in DOMAIN tip
    /\ \A b \in DOMAIN tip : tip[b] \in [Files -> Content]
    /\ served \in 0..MaxRequests
    /\ \A t \in Threads : /\ req[t] = None <=> pc[t] = "idle"
                          /\ fix[t] # None => IsRemediation(fix[t])

\* What is in a file, staged or committed differs from what the repository held only
\* because of a remediation that is on record for a finding in that file.  Unless
\* writing was cut short or overlapped, it is a record's fixed code; a file cut short
\* may well be staged and committed (generate_fix before create_branch).
ChangesAreRecorded ==
    \A file \in Files :
        \A content \in {tree[file], index[file]} \cup {tip[b][file] : b \in DOMAIN tip} :
            content = Source[file] \/ \E r \in remediations :
                                          r.finding.file = file /\ (content.whole => r.fixed = content)

\* A branch record names a Git branch that exists, although the code goes on when
\* git switch fails because it "already exists", and a pull request the branch of a
\* finding with its id, for which there is a record (create_branch, mvp_pull_request).
PullRequestsHaveBranches ==
    /\ \A b \in branches \cup prs : b.name \in DOMAIN tip
    /\ \A p \in prs : /\ \E b \in branches : b.finding.id = p.finding.id
                      /\ \E f \in Findings : f.id = p.finding.id /\ f.branch = p.name

\* Every branch, pull request and ticket on record has its audit event or is still
\* owed it by the thread that is serving the request; an event is never appended
\* for a record that does not exist (main.py, each handler's last call).
RecordsAreAudited ==
    LET Owed(op, f) == [op |-> op, finding |-> f] \in trail
                       \/ \E t \in Threads : pc[t] = "audit" /\ req[t].op = op /\ F(t) = f
    IN  /\ \A b \in branches : Owed("branch", b.finding)
        /\ \A p \in prs : Owed("pr", p.finding)
        /\ \A f \in tickets : Owed("jira", f)
        /\ \A e \in trail : CASE e.op = "branch" -> \E b \in branches : b.finding.id = e.finding.id
                              [] e.op = "pr" -> \E p \in prs : p.finding.id = e.finding.id
                              [] e.op = "jira" -> \E f \in tickets : f.id = e.finding.id
                              [] e.op = "fix" -> \E r \in remediations : r.finding = e.finding

\* c has no literal that d has not, and its first string was replaced as often.
Keeps(c, d) == c.code \subseteq d.code /\ c.first \subseteq d.first /\ c.nested >= d.nested

\* As long as no two requests have been served at the same time, a rewriting that was
\* staged or committed is not undone by a later one: each fix starts from the file as
\* the one before has left it (generate_fix).
FixesAccumulate ==
    [][~overlapped' =>
          \A file \in Files :
              /\ Keeps(index'[file], index[file])
              /\ \A b \in DOMAIN tip : Keeps(tip'[b][file], tip[b][file])]_vars

\* "Branch ... created and committed locally." says the page on the answer of
\* mvp_branch: a fix that changed the code is on the branch that is named.
CommittedOnBranch ==
    \A t \in Threads :
        pc[t] = "audit" /\ req[t].op = "branch" /\ Changes(t) =>
            tip[F(t).branch][F(t).file] = fix[t].fixed

\* remediation_for_finding is declared to return the finding's record or None,
\* and mvp_branch generates a fix only for None: a branch request gets past it.
RecordedFixIsFound == unread = {}
=============================================================================
