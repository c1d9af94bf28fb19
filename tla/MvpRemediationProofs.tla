------------------------ MODULE MvpRemediationProofs ------------------------
(***************************************************************************)
(* Proofs about MvpRemediation for any number of threads, findings, files  *)
(* and requests.                                                           *)
(***************************************************************************)
EXTENDS MvpRemediation, TLAPS

Fixes == [finding : Findings, original : Content \cup {None}, fixed : Content \cup {None}]

Steps ==
    {"idle", "find", "read", "record", "lookup", "walk", "switch", "write", "fill", "add", "commit",
     "save", "open", "ticket", "audit"}

(***************************************************************************)
(* The inductive invariant.                                                *)
(***************************************************************************)
\* The requests that may be at a step.
OpsAt(step) ==
    CASE step \in {"read", "record"} -> {"fix", "branch"}
      [] step \in {"lookup", "walk", "switch", "write", "fill", "add", "commit", "save"} -> {"branch"}
      [] step = "open" -> {"pr"}
      [] step = "ticket" -> {"jira"}
      [] OTHER -> {"fix", "jira", "branch", "pr"}

\* A fix was made from some content of the finding's file, or is none for want of a source.
Sourced(r) ==
    \/ r = NoSource(r.finding)
    \/ r.finding.file \in Files /\ \E c \in Content : r = Remediation(r.finding, c)

\* Thread t has a fix of its finding, its own or another thread's.
Made(t) == fix[t] \in Fixes /\ fix[t].finding = F(t) /\ Sourced(fix[t])

\* What thread t has put on record when only its event is missing.
Done(t) ==
    /\ req[t].op = "fix" => \E r \in remediations : r.finding = F(t)
    /\ req[t].op = "jira" => \E f \in tickets : f.id = F(t).id
    /\ req[t].op = "branch" => \E b \in branches : b.finding.id = F(t).id
    /\ req[t].op = "pr" => \E p \in prs : p.finding.id = F(t).id

ThreadOK(t) ==
    /\ pc[t] = "idle" \/ (req[t] \in Requests /\ req[t].op \in OpsAt(pc[t]))
    /\ req[t] = None <=> pc[t] = "idle"
    /\ pc[t] \in {"record", "switch", "write", "fill", "add", "commit", "save"} => Made(t)
    /\ pc[t] \in {"switch", "write", "fill", "add", "commit", "save"} => fix[t] \in remediations
    /\ pc[t] \in {"write", "fill", "add", "commit"} => Changes(t)
    /\ pc[t] \in {"write", "fill", "add", "commit", "save"} => F(t).branch \in DOMAIN tip
    /\ pc[t] = "audit" => Done(t)

Shape ==
    /\ pc \in [Threads -> Steps] /\ req \in [Threads -> Requests \cup {None}]
    /\ fix \in [Threads -> Fixes \cup {None}]
    /\ remediations \subseteq {r \in Fixes : Sourced(r)} /\ tickets \subseteq Findings /\ unread \subseteq Findings
    /\ tree \in [Files -> Content] /\ index \in [Files -> Content]
    /\ head \in DOMAIN tip
    /\ \A b \in DOMAIN tip : tip[b] \in [Files -> Content]
    /\ served \in 0..MaxRequests

\* A branch record names its finding's branch, and a pull request that of a branch
\* record there has been under its finding's id.
Branched ==
    /\ \A b \in branches : /\ b.finding \in Findings /\ b.name = b.finding.branch
                           /\ b.name \in DOMAIN tip
    /\ \A p \in prs : /\ p.name \in DOMAIN tip
                      /\ \E b \in branches : b.finding.id = p.finding.id
                      /\ \E f \in Findings : f.id = p.finding.id /\ f.branch = p.name

Torn == torn \subseteq {t \in Threads : pc[t] = "fill"}

Inv == Shape /\ Branched /\ Torn /\ \A t \in Threads : ThreadOK(t)

LEMMA InvTyped ==
    ASSUME Inv
    PROVE  TypeOK
<1>1. \A r \in Fixes : IsRemediation(r)
  BY DEF Fixes, IsRemediation
<1>2. ASSUME NEW t \in Threads
      PROVE  /\ req[t] = None <=> pc[t] = "idle"
             /\ fix[t] # None => IsRemediation(fix[t])
  BY <1>1, <1>2 DEF Inv, Shape, ThreadOK
<1> QED BY <1>1, <1>2 DEF Inv, Shape, Torn, TypeOK

(***************************************************************************)
(* Contents.                                                               *)
(***************************************************************************)
LEMMA ContentFields ==
    ASSUME NEW c \in Content
    PROVE  /\ c.code \in SUBSET Literals /\ c.first \in SUBSET Literals /\ c.nested \in Nat
           /\ c.quoted \in BOOLEAN
BY DEF Content

\* A rewriting leaves a content, and only takes away.
LEMMA FixedContent ==
    ASSUME NEW f, NEW c \in Content
    PROVE  Fixed(f, c) \in Content /\ Keeps(Fixed(f, c), c)
<1>1. CASE f.category \in Literals
  <2>1. "SECRETS_EXPOSURE" \notin Literals
    BY DEF Literals
  <2>2. Fixed(f, c) = Unliteral(c, f.category)
    BY <1>1, <2>1 DEF Fixed
  <2> DEFINE d == Unliteral(c, f.category)
  <2>3. /\ d \in Content /\ d.nested = c.nested
        /\ d.code = c.code \ {f.category} /\ d.first = c.first \ {f.category}
    BY DEF Unliteral, Content
  <2> HIDE DEF d
  <2>4. c.nested >= c.nested
    BY ContentFields
  <2>5. Keeps(d, c)
    BY <2>3, <2>4 DEF Keeps
  <2> QED BY <2>2, <2>3, <2>5 DEF d
<1>2. CASE f.category \notin Literals /\ f.category = "SECRETS_EXPOSURE"
  <2>1. Fixed(f, c) = Nest(c)
    BY <1>2 DEF Fixed
  <2>2. CASE c.quoted
    <3>1. Nest(c) = [c EXCEPT !.first = {}, !.nested = @ + 1]
      BY <2>2 DEF Nest
    <3>2. c.nested \in Nat /\ c.nested + 1 \in Nat /\ c.nested + 1 >= c.nested
      BY ContentFields
    <3> QED BY <2>1, <3>1, <3>2 DEF Content, Keeps
  <2>3. CASE ~c.quoted
    BY <2>1, <2>3, ContentFields DEF Nest, Keeps
  <2> QED BY <2>2, <2>3
<1>3. CASE f.category \notin Literals /\ f.category # "SECRETS_EXPOSURE"
  BY <1>3, ContentFields DEF Fixed, Keeps
<1> QED BY <1>1, <1>2, <1>3

LEMMA PiecesContent ==
    ASSUME NEW c \in Content, NEW d \in Content, NEW e \in Pieces(c, d)
    PROVE  e \in Content /\ ~e.whole
<1>1. /\ e = [code |-> e.code, first |-> e.first, quoted |-> e.quoted, nested |-> e.nested, whole |-> e.whole]
      /\ e.code \in SUBSET (c.code \cup d.code) /\ e.first \in SUBSET (c.first \cup d.first)
      /\ e.quoted \in {FALSE, c.quoted, d.quoted} /\ e.nested \in {c.nested, d.nested} /\ e.whole \in {FALSE}
  BY DEF Pieces
<1>2. /\ e.code \in SUBSET Literals /\ e.first \in SUBSET Literals /\ e.nested \in Nat
      /\ e.quoted \in BOOLEAN /\ e.whole \in BOOLEAN
  BY <1>1, ContentFields
<1> QED BY <1>1, <1>2 DEF Content

LEMMA PiecesKeep ==
    ASSUME NEW c \in Content, NEW e \in Pieces(c, c)
    PROVE  Keeps(e, c)
BY ContentFields DEF Pieces, Keeps

LEMMA KeepsTransitive ==
    ASSUME NEW c \in Content, NEW d \in Content, NEW e \in Content, Keeps(c, d), Keeps(d, e)
    PROVE  Keeps(c, e)
BY ContentFields DEF Keeps

LEMMA KeepsReflexive ==
    ASSUME NEW c \in Content
    PROVE  Keeps(c, c)
BY ContentFields DEF Keeps

(***************************************************************************)
(* A step of thread t.                                                     *)
(***************************************************************************)
Step(t) ==
    \/ Receive(t) \/ RejectForeign(t) \/ FindFinding(t)
    \/ ReadSource(t) \/ ReadFails(t) \/ RecordFix(t)
    \/ LookUpFails(t) \/ LookUpNothing(t) \/ WalkNothing(t) \/ WalkFinds(t) \/ WalkBreaks(t)
    \/ SwitchFails(t) \/ SwitchBranch(t) \/ TruncateFile(t) \/ WriteFile(t) \/ WriteFails(t)
    \/ AddFile(t) \/ CommitIndex(t) \/ SaveBranch(t)
    \/ RejectWithoutBranch(t) \/ OpenFails(t) \/ OpenPullRequest(t) \/ CreateTicket(t) \/ AppendAudit(t)

\* An id that has a record keeps one, and the other threads stay where they are.
Grows ==
    /\ remediations \subseteq remediations' /\ trail \subseteq trail' /\ DOMAIN tip \subseteq DOMAIN tip'
    /\ \A b \in branches : \E c \in branches' : c.finding.id = b.finding.id
    /\ \A p \in prs : \E q \in prs' : q.finding.id = p.finding.id
    /\ \A f \in tickets : \E g \in tickets' : g.id = f.id

Others(t) ==
    \A u \in Threads \ {t} : pc'[u] = pc[u] /\ req'[u] = req[u] /\ fix'[u] = fix[u]

LEMMA OthersStay ==
    ASSUME Shape, NEW t \in Threads, Step(t)
    PROVE  Others(t)
<1> USE DEF Others, Shape
<1>1. CASE Receive(t) \/ RejectForeign(t) \/ FindFinding(t) \/ ReadSource(t) \/ ReadFails(t) \/ RecordFix(t)
  BY <1>1 DEF Receive, RejectForeign, FindFinding, ReadSource, ReadFails, RecordFix, Refuse, Answer, GoTo
<1>2. CASE LookUpFails(t) \/ LookUpNothing(t) \/ SwitchFails(t) \/ SwitchBranch(t) \/ WriteFile(t) \/ WriteFails(t)
  BY <1>2 DEF LookUpFails, LookUpNothing, SwitchFails, SwitchBranch, WriteFile, WriteFails, Refuse, Answer, GoTo
<1>5. CASE WalkNothing(t) \/ WalkFinds(t) \/ WalkBreaks(t) \/ TruncateFile(t)
  BY <1>5 DEF WalkNothing, WalkFinds, WalkBreaks, TruncateFile, Answer, GoTo
<1>3. CASE AddFile(t) \/ CommitIndex(t) \/ SaveBranch(t) \/ RejectWithoutBranch(t) \/ OpenFails(t)
  BY <1>3 DEF AddFile, CommitIndex, SaveBranch, RejectWithoutBranch, OpenFails, Refuse, Answer, GoTo
<1>4. CASE OpenPullRequest(t) \/ CreateTicket(t) \/ AppendAudit(t)
  BY <1>4 DEF OpenPullRequest, CreateTicket, AppendAudit, Answer, GoTo
<1> QED BY <1>1, <1>2, <1>3, <1>4, <1>5 DEF Step

\* A thread that is not between opening its file and writing it has it to itself.
LEMMA TornStep ==
    ASSUME Shape, Torn, NEW t \in Threads, Step(t)
    PROVE  Torn'
<1>1. Others(t)
  BY OthersStay
<1>2. CASE UNCHANGED torn /\ pc[t] # "fill"
  BY <1>1, <1>2 DEF Torn, Others
<1>3. CASE TruncateFile(t)
  <2>1. pc'[t] = "fill" /\ torn' \subseteq torn \cup Writing(t) \cup {t}
    BY <1>3 DEF TruncateFile, GoTo, Shape
  <2>2. \A u \in Writing(t) : u \in Threads /\ u # t /\ pc[u] = "fill"
    BY DEF Writing
  <2>3. \A u \in torn : u \in Threads /\ pc[u] = "fill"
    BY DEF Torn
  <2>4. \A u \in torn' : u \in Threads /\ pc'[u] = "fill"
    BY <1>1, <2>1, <2>2, <2>3 DEF Others
  <2> QED BY <2>4 DEF Torn
<1>4. CASE WriteFile(t) \/ WriteFails(t)
  <2>1. torn' = torn \ {t}
    BY <1>4 DEF WriteFile, WriteFails
  <2> QED BY <1>1, <2>1 DEF Torn, Others
<1>5. CASE Receive(t) \/ RejectForeign(t) \/ FindFinding(t) \/ ReadSource(t) \/ ReadFails(t) \/ RecordFix(t)
  BY <1>2, <1>5 DEF Receive, RejectForeign, FindFinding, ReadSource, ReadFails, RecordFix, Refuse, git
<1>6. CASE LookUpFails(t) \/ LookUpNothing(t) \/ WalkNothing(t) \/ WalkFinds(t) \/ WalkBreaks(t) \/ SwitchFails(t)
  BY <1>2, <1>6 DEF LookUpFails, LookUpNothing, WalkNothing, WalkFinds, WalkBreaks, SwitchFails, Refuse, git
<1>7. CASE SwitchBranch(t) \/ AddFile(t) \/ CommitIndex(t) \/ SaveBranch(t)
  BY <1>2, <1>7 DEF SwitchBranch, AddFile, CommitIndex, SaveBranch, git
<1>8. CASE RejectWithoutBranch(t) \/ OpenFails(t) \/ OpenPullRequest(t) \/ CreateTicket(t) \/ AppendAudit(t)
  BY <1>2, <1>8 DEF RejectWithoutBranch, OpenFails, OpenPullRequest, CreateTicket, AppendAudit, Refuse, git
<1> QED BY <1>3, <1>4, <1>5, <1>6, <1>7, <1>8 DEF Step

LEMMA OtherThread ==
    ASSUME Shape, NEW t \in Threads, Others(t), Grows, NEW u \in Threads \ {t}, ThreadOK(u)
    PROVE  ThreadOK(u)'
<1>1. pc'[u] = pc[u] /\ req'[u] = req[u] /\ fix'[u] = fix[u]
  BY DEF Others
<1>2. F(u)' = F(u) /\ (Changes(u)' <=> Changes(u)) /\ (Made(u)' <=> Made(u))
  BY <1>1 DEF F, Changes, Made
<1>3. Done(u) => Done(u)'
  <2> HIDE DEF F
  <2>1. (\E r \in remediations : r.finding = F(u)) => \E r \in remediations' : r.finding = F(u)'
    BY <1>2 DEF Grows
  <2>2. (\E f \in tickets : f.id = F(u).id) => \E f \in tickets' : f.id = F(u)'.id
    BY <1>2 DEF Grows
  <2>3. (\E b \in branches : b.finding.id = F(u).id) => \E b \in branches' : b.finding.id = F(u)'.id
    BY <1>2 DEF Grows
  <2>4. (\E p \in prs : p.finding.id = F(u).id) => \E p \in prs' : p.finding.id = F(u)'.id
    BY <1>2 DEF Grows
  <2> QED BY <1>1, <2>1, <2>2, <2>3, <2>4 DEF Done
<1>4. fix[u] \in remediations => fix'[u] \in remediations'
  BY <1>1 DEF Grows
<1>5. F(u).branch \in DOMAIN tip => F(u)'.branch \in DOMAIN tip'
  BY <1>2 DEF Grows
<1> HIDE DEF Changes, Made, Done, F
<1> QED BY <1>1, <1>2, <1>3, <1>4, <1>5 DEF ThreadOK

\* What a response leaves behind.
LEMMA AnswerStep ==
    ASSUME Shape, NEW t \in Threads, Answer(t)
    PROVE  /\ pc' \in [Threads -> Steps] /\ req' \in [Threads -> Requests \cup {None}]
           /\ fix' \in [Threads -> Fixes \cup {None}]
           /\ ThreadOK(t)' /\ pc'[t] = "idle"
<1>1. /\ pc' \in [Threads -> Steps] /\ pc'[t] = "idle"
      /\ req' \in [Threads -> Requests \cup {None}] /\ req'[t] = None
      /\ fix' \in [Threads -> Fixes \cup {None}]
  BY DEF Shape, Answer, GoTo, Steps
<1> QED BY <1>1 DEF ThreadOK

LEMMA RefuseStep ==
    ASSUME Inv, NEW t \in Threads, Answer(t), unread' \subseteq Findings,
           UNCHANGED <<data, tree, index, head, tip, served>>
    PROVE  /\ Shape' /\ Branched' /\ Grows /\ ThreadOK(t)'
<1>1. Shape'
  BY AnswerStep DEF Inv, Shape, data
<1>2. Branched' /\ Grows
  BY DEF Inv, Branched, Grows, data
<1> QED BY <1>1, <1>2, AnswerStep DEF Inv

\* A step to another pc on the same request.
LEMMA MoveStep ==
    ASSUME Shape, NEW t \in Threads, NEW step \in Steps, GoTo(t, step), UNCHANGED req
    PROVE  /\ pc' \in [Threads -> Steps] /\ pc'[t] = step /\ F(t)' = F(t)
           /\ req' \in [Threads -> Requests \cup {None}]
BY DEF Shape, GoTo, F

LEMMA RequestOf ==
    ASSUME Inv, NEW t \in Threads, pc[t] # "idle"
    PROVE  /\ req[t] \in Requests /\ req[t].op \in OpsAt(pc[t]) /\ req[t] # None
           /\ F(t) \in Findings /\ F(t).file \in Files \cup {None}
<1>1. req[t] \in Requests /\ req[t].op \in OpsAt(pc[t])
  BY DEF Inv, ThreadOK
<1> QED BY <1>1, MvpAssumption DEF F, Requests

LEMMA ReceiveStep ==
    ASSUME Inv, NEW t \in Threads, Receive(t) \/ FindFinding(t) \/ LookUpNothing(t) \/ WalkNothing(t)
    PROVE  Shape' /\ Branched' /\ Grows /\ ThreadOK(t)'
<1>1. UNCHANGED <<data, git, fix, unread>>
  BY DEF Receive, FindFinding, LookUpNothing, WalkNothing
<1>2. Branched' /\ Grows
  BY <1>1 DEF Inv, Branched, Grows, data, git
<1>3. CASE Receive(t)
  <2>1. PICK r \in Requests : req' = [req EXCEPT ![t] = r]
    BY <1>3 DEF Receive
  <2>2. pc' = [pc EXCEPT ![t] = "find"] /\ served' = served + 1 /\ served < MaxRequests
    BY <1>3 DEF Receive, GoTo
  <2>3. /\ pc' \in [Threads -> Steps] /\ pc'[t] = "find"
        /\ req' \in [Threads -> Requests \cup {None}] /\ req'[t] = r /\ served' \in 0..MaxRequests
    BY <2>1, <2>2, MvpAssumption DEF Inv, Shape, Steps
  <2>4. r.op \in OpsAt("find") /\ r # None
    BY MvpAssumption DEF Requests, OpsAt
  <2>5. ThreadOK(t)'
    BY <2>3, <2>4 DEF ThreadOK
  <2>6. Shape'
    BY <1>1, <2>3 DEF Inv, Shape, data, git
  <2> QED BY <1>2, <2>5, <2>6
<1>4. CASE FindFinding(t)
  <2>1. /\ req[t] \in Requests /\ req[t] # None
    BY <1>4, RequestOf DEF FindFinding
  <2>2. PICK step \in {"read", "ticket", "lookup", "open"} : GoTo(t, step) /\ req[t].op \in OpsAt(step)
    BY <1>4, <2>1 DEF FindFinding, Requests, OpsAt
  <2>3. UNCHANGED <<req, served>>
    BY <1>4 DEF FindFinding
  <2>4. /\ pc' \in [Threads -> Steps] /\ pc'[t] = step
        /\ req' \in [Threads -> Requests \cup {None}]
    BY <2>2, <2>3, MoveStep DEF Inv, Steps
  <2>5. ThreadOK(t)'
    BY <2>1, <2>2, <2>3, <2>4 DEF ThreadOK
  <2>6. Shape'
    BY <1>1, <2>3, <2>4 DEF Inv, Shape, data, git
  <2> QED BY <1>2, <2>5, <2>6
<1>5. CASE LookUpNothing(t) \/ WalkNothing(t)
  <2>1. req[t] \in Requests /\ req[t].op = "branch" /\ req[t] # None
    BY <1>5, RequestOf DEF LookUpNothing, WalkNothing, OpsAt
  <2>2. PICK step \in {"walk", "read"} : GoTo(t, step) /\ UNCHANGED <<req, served>>
    BY <1>5 DEF LookUpNothing, WalkNothing
  <2>3. /\ pc' \in [Threads -> Steps] /\ pc'[t] = step
        /\ req' \in [Threads -> Requests \cup {None}]
    BY <2>2, MoveStep DEF Inv, Steps
  <2>4. req[t].op \in OpsAt(step)
    BY <2>1 DEF OpsAt
  <2>5. ThreadOK(t)'
    BY <2>1, <2>2, <2>3, <2>4 DEF ThreadOK
  <2>6. Shape'
    BY <1>1, <2>2, <2>3 DEF Inv, Shape, data, git
  <2> QED BY <1>2, <2>5, <2>6
<1> QED BY <1>3, <1>4, <1>5

\* The fix is made, and put on record; or another thread's is taken.
LEMMA FixStep ==
    ASSUME Inv, NEW t \in Threads, ReadSource(t) \/ RecordFix(t) \/ WalkFinds(t)
    PROVE  Shape' /\ Branched' /\ Grows /\ ThreadOK(t)'
<1>1. /\ req[t] \in Requests /\ req[t].op \in {"fix", "branch"} /\ req[t] # None
      /\ F(t) \in Findings /\ F(t).file \in Files \cup {None}
  BY RequestOf DEF ReadSource, RecordFix, WalkFinds, OpsAt
<1>2. CASE ReadSource(t)
  <2> DEFINE r == IF req[t].inTree /\ F(t).file # None THEN Remediation(F(t), tree[F(t).file]) ELSE NoSource(F(t))
  <2>1. /\ GoTo(t, "record") /\ fix' = [fix EXCEPT ![t] = r]
        /\ UNCHANGED <<data, git, req, served, unread>>
    BY <1>2 DEF ReadSource
  <2>2. r \in Fixes /\ r.finding = F(t) /\ Sourced(r)
    <3>1. CASE req[t].inTree /\ F(t).file # None
      <4>1. tree[F(t).file] \in Content /\ F(t).file \in Files
        BY <1>1, <3>1 DEF Inv, Shape
      <4>2. Fixed(F(t), tree[F(t).file]) \in Content
        BY <4>1, FixedContent
      <4>3. r = Remediation(F(t), tree[F(t).file]) /\ r \in Fixes /\ r.finding = F(t)
        BY <1>1, <3>1, <4>1, <4>2 DEF Remediation, Fixes
      <4> QED BY <4>1, <4>3 DEF Sourced
    <3>2. CASE ~(req[t].inTree /\ F(t).file # None)
      BY <1>1, <3>2 DEF NoSource, Fixes, Sourced
    <3> QED BY <3>1, <3>2
  <2> HIDE DEF r
  <2>3. /\ pc' \in [Threads -> Steps] /\ pc'[t] = "record" /\ F(t)' = F(t)
        /\ req' \in [Threads -> Requests \cup {None}]
    BY <2>1, MoveStep DEF Inv, Steps
  <2>4. fix' \in [Threads -> Fixes \cup {None}] /\ fix'[t] = r
    BY <2>1, <2>2 DEF Inv, Shape
  <2>5. Shape'
    BY <2>1, <2>3, <2>4 DEF Inv, Shape, data, git
  <2>6. Branched' /\ Grows
    BY <2>1 DEF Inv, Branched, Grows, data, git
  <2>7. Made(t)'
    BY <2>2, <2>3, <2>4 DEF Made
  <2>8. ThreadOK(t)'
    BY <1>1, <2>1, <2>3, <2>7 DEF ThreadOK, OpsAt
  <2> QED BY <2>5, <2>6, <2>8
<1>3. CASE RecordFix(t)
  <2>1. /\ remediations' = remediations \cup {fix[t]}
        /\ GoTo(t, IF req[t].op = "fix" THEN "audit" ELSE "switch")
        /\ UNCHANGED <<branches, prs, tickets, trail, git, req, fix, served, unread>>
    BY <1>3 DEF RecordFix
  <2>2. Made(t) /\ fix[t] \in Fixes /\ fix[t].finding = F(t) /\ Sourced(fix[t])
    BY <1>3 DEF RecordFix, Inv, ThreadOK, Made
  <2>3. PICK step \in {"audit", "switch"} : GoTo(t, step) /\ req[t].op \in OpsAt(step) /\ (step = "audit" => req[t].op = "fix")
    BY <1>1, <2>1 DEF OpsAt
  <2>4. /\ pc' \in [Threads -> Steps] /\ pc'[t] = step /\ F(t)' = F(t)
        /\ req' \in [Threads -> Requests \cup {None}]
    BY <2>1, <2>3, MoveStep DEF Inv, Steps
  <2>5. Shape'
    BY <2>1, <2>2, <2>4 DEF Inv, Shape, git
  <2>6. Branched' /\ Grows
    BY <2>1 DEF Inv, Branched, Grows, git
  <2>7. Made(t)' /\ fix'[t] \in remediations'
    BY <2>1, <2>2, <2>4 DEF Made
  <2>8. step = "audit" => Done(t)'
    BY <2>1, <2>2, <2>3, <2>4 DEF Done
  <2>9. ThreadOK(t)'
    BY <1>1, <2>1, <2>3, <2>4, <2>7, <2>8 DEF ThreadOK
  <2> QED BY <2>5, <2>6, <2>9
<1>4. CASE WalkFinds(t)
  <2>1. PICK r \in remediations : r.finding = F(t) /\ fix' = [fix EXCEPT ![t] = r]
    BY <1>4 DEF WalkFinds
  <2>2. /\ GoTo(t, "switch") /\ UNCHANGED <<data, git, req, served, unread>> /\ req[t].op = "branch"
    BY <1>4, RequestOf DEF WalkFinds, OpsAt
  <2>3. r \in Fixes /\ Sourced(r)
    BY DEF Inv, Shape
  <2>4. /\ pc' \in [Threads -> Steps] /\ pc'[t] = "switch" /\ F(t)' = F(t)
        /\ req' \in [Threads -> Requests \cup {None}]
    BY <2>2, MoveStep DEF Inv, Steps
  <2>5. fix' \in [Threads -> Fixes \cup {None}] /\ fix'[t] = r
    BY <2>1, <2>3 DEF Inv, Shape
  <2>6. Shape'
    BY <2>2, <2>4, <2>5 DEF Inv, Shape, data, git
  <2>7. Branched' /\ Grows
    BY <2>2 DEF Inv, Branched, Grows, data, git
  <2>8. Made(t)' /\ fix'[t] \in remediations'
    BY <2>1, <2>2, <2>3, <2>4, <2>5 DEF Made, data
  <2>9. ThreadOK(t)'
    BY <1>1, <2>2, <2>4, <2>8 DEF ThreadOK, OpsAt
  <2> QED BY <2>6, <2>7, <2>9
<1> QED BY <1>2, <1>3, <1>4

(***************************************************************************)
(* create_branch                                                           *)
(***************************************************************************)
LEMMA BranchRequest ==
    ASSUME Inv, NEW t \in Threads, pc[t] \in {"switch", "write", "fill", "add", "commit", "save"}
    PROVE  /\ req[t] \in Requests /\ req[t].op = "branch" /\ req[t] # None
           /\ F(t) \in Findings /\ F(t).file \in Files \cup {None}
           /\ Made(t) /\ fix[t] \in remediations
           /\ Changes(t) => F(t).file \in Files /\ fix[t].fixed \in Content
<1>1. /\ req[t] \in Requests /\ req[t].op = "branch" /\ req[t] # None
      /\ F(t) \in Findings /\ F(t).file \in Files \cup {None}
  BY RequestOf DEF OpsAt
<1>2. Made(t) /\ fix[t] \in remediations
  BY DEF Inv, ThreadOK
<1>3. ASSUME Changes(t)
      PROVE  F(t).file \in Files /\ fix[t].fixed \in Content
  <2>1. fix[t] # NoSource(F(t))
    BY <1>3 DEF Changes, NoSource
  <2>2. PICK c \in Content : fix[t] = Remediation(F(t), c) /\ F(t).file \in Files
    BY <1>2, <2>1 DEF Made, Sourced
  <2>3. Fixed(F(t), c) \in Content
    BY <2>2, FixedContent
  <2> QED BY <2>2, <2>3 DEF Remediation
<1> QED BY <1>1, <1>2, <1>3

LEMMA SwitchStep ==
    ASSUME Inv, NEW t \in Threads, SwitchBranch(t)
    PROVE  Shape' /\ Branched' /\ Grows /\ ThreadOK(t)'
<1>1. /\ req[t] \in Requests /\ req[t].op = "branch" /\ req[t] # None
      /\ Made(t) /\ fix[t] \in remediations
  BY BranchRequest DEF SwitchBranch
<1>2. /\ GoTo(t, IF Changes(t) THEN "write" ELSE "save")
      /\ UNCHANGED <<data, tree, index, req, fix, served, unread>>
  BY DEF SwitchBranch
<1>3. PICK step \in {"write", "save"} : GoTo(t, step) /\ (step = "write" => Changes(t))
  BY <1>2
<1>4. /\ pc' \in [Threads -> Steps] /\ pc'[t] = step /\ F(t)' = F(t)
      /\ req' \in [Threads -> Requests \cup {None}]
  BY <1>2, <1>3, MoveStep DEF Inv, Steps
<1>5. /\ head' \in DOMAIN tip' /\ DOMAIN tip \subseteq DOMAIN tip' /\ F(t).branch \in DOMAIN tip'
      /\ \A b \in DOMAIN tip' : tip'[b] \in [Files -> Content]
  BY DEF Inv, Shape, SwitchBranch
<1>6. Shape'
  BY <1>2, <1>4, <1>5 DEF Inv, Shape, data
<1>7. Branched' /\ Grows
  BY <1>2, <1>5 DEF Inv, Branched, Grows, data
<1>8. /\ Made(t)' /\ fix'[t] \in remediations' /\ (Changes(t) => Changes(t)')
      /\ F(t)'.branch \in DOMAIN tip'
  BY <1>1, <1>2, <1>4, <1>5 DEF Made, Changes, data
<1>9. ThreadOK(t)'
  BY <1>1, <1>2, <1>3, <1>4, <1>8 DEF ThreadOK, OpsAt
<1> QED BY <1>6, <1>7, <1>9

\* Writing, staging and committing: the same request, the next step.
LEMMA GitStep ==
    ASSUME Inv, NEW t \in Threads, TruncateFile(t) \/ WriteFile(t) \/ AddFile(t) \/ CommitIndex(t)
    PROVE  Shape' /\ Branched' /\ Grows /\ ThreadOK(t)'
<1>1. pc[t] \in {"write", "fill", "add", "commit"}
  BY DEF TruncateFile, WriteFile, AddFile, CommitIndex
<1>2. /\ req[t] \in Requests /\ req[t].op = "branch" /\ req[t] # None
      /\ Made(t) /\ fix[t] \in remediations
      /\ Changes(t) /\ F(t).file \in Files /\ fix[t].fixed \in Content
      /\ F(t).branch \in DOMAIN tip
  BY <1>1, BranchRequest DEF Inv, ThreadOK
<1>3. UNCHANGED <<data, head, req, fix, served, unread>>
  BY DEF TruncateFile, WriteFile, AddFile, CommitIndex
<1>4. PICK step \in {"fill", "add", "commit", "save"} : GoTo(t, step)
  BY DEF TruncateFile, WriteFile, AddFile, CommitIndex
<1>5. /\ pc' \in [Threads -> Steps] /\ pc'[t] = step /\ F(t)' = F(t)
      /\ req' \in [Threads -> Requests \cup {None}]
  BY <1>3, <1>4, MoveStep DEF Inv, Steps
<1>6. tree' \in [Files -> Content] /\ index' \in [Files -> Content]
  <2>1. tree \in [Files -> Content] /\ index \in [Files -> Content]
    BY DEF Inv, Shape
  <2>2. tree' = tree \/ \E c \in Content : tree' = [tree EXCEPT ![F(t).file] = c]
    <3>1. tree[F(t).file] \in Content
      BY <1>2, <2>1
    <3>2. CASE TruncateFile(t)
      BY <1>2, <3>2, PiecesContent DEF TruncateFile
    <3>3. CASE WriteFile(t)
      <4>1. PICK c \in {fix[t].fixed} \cup Pieces(fix[t].fixed, tree[F(t).file]) : tree' = [tree EXCEPT ![F(t).file] = c]
        BY <3>3 DEF WriteFile
      <4>2. c \in Content
        BY <1>2, <3>1, <4>1, PiecesContent
      <4> QED BY <4>1, <4>2
    <3>4. CASE AddFile(t) \/ CommitIndex(t)
      BY <3>4 DEF AddFile, CommitIndex
    <3> QED BY <3>2, <3>3, <3>4
  <2>3. index' = index \/ index' = [index EXCEPT ![F(t).file] = tree[F(t).file]]
    BY DEF TruncateFile, WriteFile, AddFile, CommitIndex
  <2> QED BY <1>2, <2>1, <2>2, <2>3
<1>7. DOMAIN tip' = DOMAIN tip /\ \A b \in DOMAIN tip' : tip'[b] \in [Files -> Content]
  <2>1. tip' = tip \/ tip' = [tip EXCEPT ![head] = index]
    BY DEF TruncateFile, WriteFile, AddFile, CommitIndex
  <2> QED BY <2>1 DEF Inv, Shape
<1>8. Shape'
  BY <1>3, <1>5, <1>6, <1>7 DEF Inv, Shape, data
<1>9. Branched' /\ Grows
  BY <1>3, <1>7 DEF Inv, Branched, Grows, data
<1>10. Made(t)' /\ fix'[t] \in remediations' /\ Changes(t)' /\ F(t)'.branch \in DOMAIN tip'
  BY <1>2, <1>3, <1>5, <1>7 DEF Made, Changes, data
<1>11. ThreadOK(t)'
  BY <1>2, <1>3, <1>4, <1>5, <1>10 DEF ThreadOK, OpsAt
<1> QED BY <1>8, <1>9, <1>11

LEMMA SaveStep ==
    ASSUME Inv, NEW t \in Threads, SaveBranch(t)
    PROVE  Shape' /\ Branched' /\ Grows /\ ThreadOK(t)'
<1> DEFINE new == [finding |-> F(t), name |-> F(t).branch]
<1>1. /\ req[t] \in Requests /\ req[t].op = "branch" /\ req[t] # None
      /\ F(t).branch \in DOMAIN tip /\ F(t) \in Findings
  BY BranchRequest DEF SaveBranch, Inv, ThreadOK
<1>2. /\ branches' = {b \in branches : b.finding.id # F(t).id} \cup {new}
      /\ GoTo(t, "audit")
      /\ UNCHANGED <<remediations, prs, tickets, trail, git, req, fix, served, unread>>
  BY DEF SaveBranch
<1>3. /\ pc' \in [Threads -> Steps] /\ pc'[t] = "audit" /\ F(t)' = F(t)
      /\ req' \in [Threads -> Requests \cup {None}]
  BY <1>2, MoveStep DEF Inv, Steps
<1>4. new.finding = F(t) /\ new.finding \in Findings /\ new.name = new.finding.branch /\ new.name \in DOMAIN tip
  BY <1>1
<1> HIDE DEF new
<1>5. \A b \in branches : \E c \in branches' : c.finding.id = b.finding.id
  BY <1>2, <1>4
<1>6. Shape'
  BY <1>2, <1>3 DEF Inv, Shape, git
<1>7. Branched'
  <2>1. \A b \in branches' : b.finding \in Findings /\ b.name = b.finding.branch /\ b.name \in DOMAIN tip
    BY <1>2, <1>4 DEF Inv, Branched
  <2>2. \A p \in prs : /\ p.name \in DOMAIN tip
                       /\ \E b \in branches' : b.finding.id = p.finding.id
                       /\ \E f \in Findings : f.id = p.finding.id /\ f.branch = p.name
    BY <1>5 DEF Inv, Branched
  <2> QED BY <1>2, <2>1, <2>2 DEF Branched, git
<1>8. Grows
  BY <1>2, <1>5 DEF Grows, git
<1>9. Done(t)'
  <2> HIDE DEF F
  <2> QED BY <1>1, <1>2, <1>3, <1>4 DEF Done
<1>10. ThreadOK(t)'
  BY <1>1, <1>2, <1>3, <1>9 DEF ThreadOK, OpsAt
<1> QED BY <1>6, <1>7, <1>8, <1>10

(***************************************************************************)
(* Pull requests, tickets and events.                                      *)
(***************************************************************************)
LEMMA RecordStep ==
    ASSUME Inv, NEW t \in Threads, OpenPullRequest(t) \/ CreateTicket(t)
    PROVE  Shape' /\ Branched' /\ Grows /\ ThreadOK(t)'
<1>1. /\ req[t] \in Requests /\ req[t] # None /\ F(t) \in Findings
      /\ OpenPullRequest(t) => req[t].op = "pr"
      /\ CreateTicket(t) => req[t].op = "jira"
  BY RequestOf DEF OpenPullRequest, CreateTicket, OpsAt
<1>2. /\ GoTo(t, "audit")
      /\ UNCHANGED <<remediations, branches, trail, git, req, fix, served, unread>>
  BY DEF OpenPullRequest, CreateTicket
<1>3. /\ pc' \in [Threads -> Steps] /\ pc'[t] = "audit" /\ F(t)' = F(t)
      /\ req' \in [Threads -> Requests \cup {None}]
  BY <1>2, MoveStep DEF Inv, Steps
<1>4. CASE OpenPullRequest(t)
  <2>1. PICK b \in branches : /\ b.finding.id = F(t).id
                              /\ prs' = {p \in prs : p.finding.id # F(t).id} \cup {[finding |-> F(t), name |-> b.name]}
    BY <1>4 DEF OpenPullRequest
  <2>2. PICK new : new = [finding |-> F(t), name |-> b.name]
    OBVIOUS
  <2>3. /\ new.finding = F(t) /\ new.name = b.name /\ UNCHANGED tickets
        /\ prs' = {p \in prs : p.finding.id # F(t).id} \cup {new}
    BY <1>4, <2>1, <2>2 DEF OpenPullRequest
  <2>4. /\ b.finding \in Findings /\ b.finding.branch = b.name /\ b.name \in DOMAIN tip
    BY DEF Inv, Branched
  <2>5. Shape'
    BY <1>2, <1>3, <2>3 DEF Inv, Shape, git
  <2>6. Branched'
    <3>1. \A p \in prs' : /\ p.name \in DOMAIN tip
                          /\ \E c \in branches : c.finding.id = p.finding.id
                          /\ \E f \in Findings : f.id = p.finding.id /\ f.branch = p.name
      BY <2>1, <2>3, <2>4 DEF Inv, Branched
    <3> QED BY <1>2, <3>1 DEF Inv, Branched, git
  <2>7. \A p \in prs : \E q \in prs' : q.finding.id = p.finding.id
    BY <2>3
  <2>8. Grows
    BY <1>2, <2>3, <2>7 DEF Grows, git
  <2>9. Done(t)'
    <3> HIDE DEF F
    <3> QED BY <1>1, <1>2, <1>3, <1>4, <2>3 DEF Done
  <2>10. ThreadOK(t)'
    BY <1>1, <1>2, <1>3, <1>4, <2>9 DEF ThreadOK, OpsAt
  <2> QED BY <2>5, <2>6, <2>8, <2>10
<1>5. CASE CreateTicket(t)
  <2>1. tickets' = {f \in tickets : f.id # F(t).id} \cup {F(t)} /\ UNCHANGED prs
    BY <1>5 DEF CreateTicket
  <2>2. Shape'
    BY <1>1, <1>2, <1>3, <2>1 DEF Inv, Shape, git
  <2>3. \A f \in tickets : \E g \in tickets' : g.id = f.id
    BY <2>1
  <2>4. Branched' /\ Grows
    BY <1>2, <2>1, <2>3 DEF Inv, Branched, Grows, git
  <2>5. Done(t)'
    <3> HIDE DEF F
    <3> QED BY <1>1, <1>2, <1>3, <1>5, <2>1 DEF Done
  <2>6. ThreadOK(t)'
    BY <1>1, <1>2, <1>3, <1>5, <2>5 DEF ThreadOK, OpsAt
  <2> QED BY <2>2, <2>4, <2>6
<1> QED BY <1>4, <1>5

LEMMA AuditStep ==
    ASSUME Inv, NEW t \in Threads, AppendAudit(t)
    PROVE  Shape' /\ Branched' /\ Grows /\ ThreadOK(t)'
<1>1. /\ trail \subseteq trail'
      /\ UNCHANGED <<remediations, branches, prs, tickets, git, served, unread>>
  BY DEF AppendAudit
<1>2. Answer(t)
  BY DEF AppendAudit
<1>3. Shape'
  BY <1>1, <1>2, AnswerStep DEF Inv, Shape, git
<1>4. Branched' /\ Grows
  BY <1>1 DEF Inv, Branched, Grows, git
<1> QED BY <1>2, <1>3, <1>4, AnswerStep DEF Inv

LEMMA InvStep ==
    ASSUME Inv, NEW t \in Threads, Step(t)
    PROVE  Inv' /\ Grows
<1>1. Shape' /\ Branched' /\ Grows /\ ThreadOK(t)'
  <2>1. CASE Receive(t) \/ FindFinding(t) \/ LookUpNothing(t) \/ WalkNothing(t)
    BY <2>1, ReceiveStep
  <2>2. CASE ReadSource(t) \/ RecordFix(t) \/ WalkFinds(t)
    BY <2>2, FixStep
  <2>3. CASE RejectForeign(t) \/ ReadFails(t) \/ SwitchFails(t) \/ WriteFails(t) \/ RejectWithoutBranch(t) \/ OpenFails(t)
    <3>1. Answer(t) /\ UNCHANGED <<data, tree, index, head, tip, served, unread>>
      BY <2>3 DEF RejectForeign, ReadFails, SwitchFails, WriteFails, RejectWithoutBranch, OpenFails, Refuse, git
    <3>2. unread' \subseteq Findings
      BY <3>1 DEF Inv, Shape
    <3> QED BY <3>1, <3>2, RefuseStep
  <2>4. CASE LookUpFails(t) \/ WalkBreaks(t)
    <3>1. Answer(t) /\ UNCHANGED <<data, tree, index, head, tip, served>> /\ unread' = unread \cup {F(t)}
      BY <2>4 DEF LookUpFails, WalkBreaks, git
    <3>2. F(t) \in Findings
      BY <2>4, RequestOf DEF LookUpFails, WalkBreaks
    <3>3. unread' \subseteq Findings
      BY <3>1, <3>2 DEF Inv, Shape
    <3> QED BY <3>1, <3>3, RefuseStep
  <2>5. CASE SwitchBranch(t)
    BY <2>5, SwitchStep
  <2>6. CASE TruncateFile(t) \/ WriteFile(t) \/ AddFile(t) \/ CommitIndex(t)
    BY <2>6, GitStep
  <2>7. CASE SaveBranch(t)
    BY <2>7, SaveStep
  <2>8. CASE OpenPullRequest(t) \/ CreateTicket(t)
    BY <2>8, RecordStep
  <2>9. CASE AppendAudit(t)
    BY <2>9, AuditStep
  <2> QED BY <2>1, <2>2, <2>3, <2>4, <2>5, <2>6, <2>7, <2>8, <2>9 DEF Step
<1>2. Others(t)
  BY OthersStay DEF Inv
<1>3. \A u \in Threads \ {t} : ThreadOK(u)'
  BY <1>1, <1>2, OtherThread DEF Inv
<1>4. Torn'
  BY TornStep DEF Inv
<1> QED BY <1>1, <1>3, <1>4 DEF Inv

LEMMA InvNext ==
    ASSUME Inv, [Next]_vars
    PROVE  Inv'
<1>1. CASE UNCHANGED vars
  BY <1>1 DEF Inv, Shape, Branched, Torn, ThreadOK, Made, Done, Changes, F, vars, data, git, local
<1>2. CASE Next
  BY <1>2, InvStep DEF Next, Step
<1> QED BY <1>1, <1>2

LEMMA InvInit ==
    ASSUME Init
    PROVE  Inv
<1>1. Shape
  BY MvpAssumption DEF Init, Shape, Steps
<1>2. \A t \in Threads : ThreadOK(t)
  BY DEF Init, ThreadOK
<1> QED BY <1>1, <1>2 DEF Init, Inv, Branched, Torn

\* Every variable has its shape and the branch checked out exists, for any number
\* of threads and requests.
THEOREM TypeCorrect == Spec => []TypeOK
<1>1. Init => Inv
  BY InvInit
<1>2. Inv /\ [Next]_vars => Inv'
  BY InvNext
<1>3. Inv => TypeOK
  BY InvTyped
<1> QED BY <1>1, <1>2, <1>3, PTL DEF Spec

\* A branch record names a Git branch that exists, and a pull request that of a finding
\* with its id, although a branch may exist before, each record is written again and
\* two tenants may share an id.
THEOREM PullRequestsAlwaysHaveBranches == Spec => []PullRequestsHaveBranches
<1>1. Init => Inv
  BY InvInit
<1>2. Inv /\ [Next]_vars => Inv'
  BY InvNext
<1>3. Inv => PullRequestsHaveBranches
  BY DEF Inv, Branched, PullRequestsHaveBranches
<1> QED BY <1>1, <1>2, <1>3, PTL DEF Spec

(***************************************************************************)
(* What is written is on record.                                           *)
(***************************************************************************)
\* What may be in a file, as ChangesAreRecorded says.
FixedCode(file) ==
    {Source[file]} \cup {c \in Content : \E r \in remediations : r.finding.file = file /\ (c.whole => r.fixed = c)}

ContentsKnown ==
    \A file \in Files : /\ tree[file] \in FixedCode(file) /\ index[file] \in FixedCode(file)
                       /\ \A b \in DOMAIN tip : tip[b][file] \in FixedCode(file)

LEMMA KnownStays ==
    ASSUME Grows, NEW file
    PROVE  \A content \in FixedCode(file) : content \in FixedCode(file)'
BY DEF FixedCode, Grows

LEMMA ContentsStep ==
    ASSUME Inv, ContentsKnown, NEW t \in Threads, Step(t)
    PROVE  ContentsKnown'
<1>1. Grows
  BY InvStep
<1>2. tree \in [Files -> Content] /\ index \in [Files -> Content] /\ head \in DOMAIN tip
  BY DEF Inv, Shape
<1>3. CASE UNCHANGED git
  BY <1>1, <1>3, KnownStays DEF ContentsKnown, git
<1>4. CASE SwitchBranch(t)
  <2>1. UNCHANGED <<tree, index>>
    BY <1>4 DEF SwitchBranch
  <2>2. ASSUME NEW b \in DOMAIN tip', NEW file \in Files
        PROVE  tip'[b][file] \in FixedCode(file)'
    <3>1. \E a \in DOMAIN tip : tip'[b] = tip[a]
      BY <1>2, <1>4 DEF SwitchBranch
    <3> QED BY <1>1, <3>1, KnownStays DEF ContentsKnown
  <2> QED BY <1>1, <2>1, <2>2, KnownStays DEF ContentsKnown
<1>5. CASE TruncateFile(t) \/ WriteFile(t)
  <2>1. /\ fix[t] \in remediations /\ fix[t].finding = F(t) /\ F(t).file \in Files /\ fix[t].fixed \in Content
    BY <1>5, BranchRequest DEF TruncateFile, WriteFile, Inv, ThreadOK, Made
  <2>2. PICK c \in {fix[t].fixed} \cup Pieces(fix[t].fixed, fix[t].fixed) \cup Pieces(fix[t].fixed, tree[F(t).file]) :
           tree' = [tree EXCEPT ![F(t).file] = c] /\ UNCHANGED <<index, tip>>
    BY <1>5 DEF TruncateFile, WriteFile
  <2>3. c \in FixedCode(F(t).file)
    <3>1. c = fix[t].fixed \/ (c \in Content /\ ~c.whole)
      BY <1>2, <2>1, PiecesContent
    <3> QED BY <2>1, <3>1 DEF FixedCode
  <2>4. \A file \in Files : tree'[file] \in FixedCode(file)
    BY <1>2, <2>1, <2>2, <2>3 DEF ContentsKnown
  <2> QED BY <1>1, <2>2, <2>4, KnownStays DEF ContentsKnown
<1>6. CASE AddFile(t)
  <2>1. UNCHANGED <<tree, tip>>
    BY <1>6 DEF AddFile
  <2>2. \A file \in Files : index'[file] \in FixedCode(file)
    BY <1>2, <1>6 DEF AddFile, ContentsKnown
  <2> QED BY <1>1, <2>1, <2>2, KnownStays DEF ContentsKnown
<1>7. CASE CommitIndex(t)
  <2>1. UNCHANGED <<tree, index>>
    BY <1>7 DEF CommitIndex
  <2>2. ASSUME NEW b \in DOMAIN tip', NEW file \in Files
        PROVE  tip'[b][file] \in FixedCode(file)'
    <3>1. b \in DOMAIN tip /\ tip'[b] \in {tip[b], index}
      BY <1>2, <1>7 DEF CommitIndex
    <3> QED BY <1>1, <3>1, KnownStays DEF ContentsKnown
  <2> QED BY <1>1, <2>1, <2>2, KnownStays DEF ContentsKnown
<1>8. CASE Receive(t) \/ RejectForeign(t) \/ FindFinding(t) \/ ReadSource(t) \/ ReadFails(t) \/ RecordFix(t)
  BY <1>3, <1>8 DEF Receive, RejectForeign, FindFinding, ReadSource, ReadFails, RecordFix, Refuse
<1>9. CASE LookUpFails(t) \/ LookUpNothing(t) \/ WalkNothing(t) \/ WalkFinds(t) \/ WalkBreaks(t) \/ SwitchFails(t)
  BY <1>3, <1>9 DEF LookUpFails, LookUpNothing, WalkNothing, WalkFinds, WalkBreaks, SwitchFails, Refuse
<1>11. CASE SaveBranch(t) \/ WriteFails(t)
  <2>1. UNCHANGED <<tree, index, tip>>
    BY <1>11 DEF SaveBranch, WriteFails, git
  <2> QED BY <1>1, <2>1, KnownStays DEF ContentsKnown
<1>10. CASE RejectWithoutBranch(t) \/ OpenFails(t) \/ OpenPullRequest(t) \/ CreateTicket(t) \/ AppendAudit(t)
  BY <1>3, <1>10 DEF RejectWithoutBranch, OpenFails, OpenPullRequest, CreateTicket, AppendAudit, Refuse
<1> QED BY <1>4, <1>5, <1>6, <1>7, <1>8, <1>9, <1>10, <1>11 DEF Step

\* What is written, staged or committed in a file is the repository's content, the
\* fixed code of a record of a finding in that file or, for such a record, what is
\* left when writing was cut short or overlapped, for any overlap and failure.
THEOREM ChangesAreAlwaysRecorded == Spec => []ChangesAreRecorded
<1>1. Init => Inv /\ ContentsKnown
  <2> SUFFICES ASSUME Init, NEW file \in Files
               PROVE  /\ tree[file] \in FixedCode(file) /\ index[file] \in FixedCode(file)
                      /\ \A b \in DOMAIN tip : tip[b][file] \in FixedCode(file)
    BY InvInit DEF ContentsKnown
  <2>1. /\ tree[file] = Source[file] /\ index[file] = Source[file]
        /\ \A b \in DOMAIN tip : tip[b][file] = Source[file]
    BY DEF Init
  <2>2. Source[file] \in FixedCode(file)
    BY DEF FixedCode
  <2> QED BY <2>1, <2>2
<1>2. Inv /\ ContentsKnown /\ [Next]_vars => (Inv /\ ContentsKnown)'
  <2> SUFFICES ASSUME Inv, ContentsKnown, [Next]_vars PROVE ContentsKnown'
    BY InvNext
  <2>1. CASE UNCHANGED vars
    BY <2>1 DEF ContentsKnown, FixedCode, vars, git, data
  <2>2. CASE Next
    BY <2>2, ContentsStep DEF Next, Step
  <2> QED BY <2>1, <2>2
<1>3. Inv /\ ContentsKnown => ChangesAreRecorded
  BY DEF ContentsKnown, FixedCode, ChangesAreRecorded
<1> QED BY <1>1, <1>2, <1>3, PTL DEF Spec

(***************************************************************************)
(* What is on record has its event.                                        *)
(***************************************************************************)
OwedTo(op, f) ==
    \/ [op |-> op, finding |-> f] \in trail
    \/ \E t \in Threads : pc[t] = "audit" /\ req[t].op = op /\ F(t) = f

DoneFor(e) ==
    /\ e.op \in {"fix", "jira", "branch", "pr"}
    /\ e.op = "fix" => \E r \in remediations : r.finding = e.finding
    /\ e.op = "jira" => \E f \in tickets : f.id = e.finding.id
    /\ e.op = "branch" => \E b \in branches : b.finding.id = e.finding.id
    /\ e.op = "pr" => \E p \in prs : p.finding.id = e.finding.id

Audited ==
    /\ \A b \in branches : OwedTo("branch", b.finding)
    /\ \A p \in prs : OwedTo("pr", p.finding)
    /\ \A f \in tickets : OwedTo("jira", f)
    /\ \A e \in trail : DoneFor(e)

LEMMA OwedStays ==
    ASSUME Inv, NEW t \in Threads, Step(t), NEW op, NEW f, OwedTo(op, f)
    PROVE  OwedTo(op, f)'
<1>1. Grows /\ Others(t)
  BY InvStep, OthersStay DEF Inv
<1>2. CASE [op |-> op, finding |-> f] \in trail
  BY <1>1, <1>2 DEF Grows, OwedTo
<1>3. ASSUME NEW u \in Threads, pc[u] = "audit", req[u].op = op, F(u) = f
      PROVE  OwedTo(op, f)'
  <2>1. CASE u # t
    <3>1. pc'[u] = "audit" /\ req'[u].op = op /\ F(u)' = f
      BY <1>1, <1>3, <2>1 DEF Others, F
    <3> QED BY <3>1 DEF OwedTo
  <2>2. CASE u = t
    <3>1. AppendAudit(t)
      BY <1>3, <2>2 DEF Step, Receive, RejectForeign, FindFinding, ReadSource, ReadFails, RecordFix,
                        LookUpFails, LookUpNothing, WalkNothing, WalkFinds, WalkBreaks,
                        SwitchFails, SwitchBranch, TruncateFile, WriteFile, WriteFails,
                        AddFile, CommitIndex, SaveBranch, RejectWithoutBranch, OpenFails,
                        OpenPullRequest, CreateTicket
    <3> QED BY <1>3, <2>2, <3>1 DEF AppendAudit, OwedTo
  <2> QED BY <2>1, <2>2
<1> QED BY <1>2, <1>3 DEF OwedTo

LEMMA AuditedStep ==
    ASSUME Inv, Audited, NEW t \in Threads, Step(t)
    PROVE  Audited'
<1>1. Grows /\ Shape
  BY InvStep DEF Inv
<1>2. \A op, f : OwedTo(op, f) => OwedTo(op, f)'
  BY OwedStays
<1>3. \A e \in trail : DoneFor(e)'
  <2> SUFFICES ASSUME NEW e \in trail PROVE DoneFor(e)'
    OBVIOUS
  <2>1. DoneFor(e)
    BY DEF Audited
  <2>2. e.op = "fix" => \E r \in remediations' : r.finding = e.finding
    BY <1>1, <2>1 DEF DoneFor, Grows
  <2>3. e.op = "jira" => \E f \in tickets' : f.id = e.finding.id
    BY <1>1, <2>1 DEF DoneFor, Grows
  <2>4. e.op = "branch" => \E b \in branches' : b.finding.id = e.finding.id
    BY <1>1, <2>1 DEF DoneFor, Grows
  <2>5. e.op = "pr" => \E p \in prs' : p.finding.id = e.finding.id
    BY <1>1, <2>1 DEF DoneFor, Grows
  <2> QED BY <2>1, <2>2, <2>3, <2>4, <2>5 DEF DoneFor
<1>4. CASE UNCHANGED <<branches, prs, tickets, trail>>
  BY <1>2, <1>3, <1>4 DEF Audited
<1>5. CASE SaveBranch(t)
  <2>1. /\ UNCHANGED <<prs, tickets, trail, req>> /\ pc'[t] = "audit"
        /\ \A b \in branches' : b \in branches \/ b.finding = F(t)
    BY <1>1, <1>5 DEF SaveBranch, GoTo, Shape
  <2>2. req[t].op = "branch"
    BY <1>5, BranchRequest DEF SaveBranch
  <2>3. \A f : f = F(t) => OwedTo("branch", f)'
    BY <2>1, <2>2 DEF OwedTo, F
  <2> QED BY <1>2, <1>3, <2>1, <2>3 DEF Audited
<1>6. CASE OpenPullRequest(t)
  <2>1. /\ UNCHANGED <<branches, tickets, trail, req>> /\ pc'[t] = "audit"
        /\ \A p \in prs' : p \in prs \/ p.finding = F(t)
    BY <1>1, <1>6 DEF OpenPullRequest, GoTo, Shape
  <2>2. req[t].op = "pr"
    BY <1>6, RequestOf DEF OpenPullRequest, OpsAt
  <2>3. \A f : f = F(t) => OwedTo("pr", f)'
    BY <2>1, <2>2 DEF OwedTo, F
  <2> QED BY <1>2, <1>3, <2>1, <2>3 DEF Audited
<1>7. CASE CreateTicket(t)
  <2>1. /\ UNCHANGED <<branches, prs, trail, req>> /\ pc'[t] = "audit"
        /\ \A f \in tickets' : f \in tickets \/ f = F(t)
    BY <1>1, <1>7 DEF CreateTicket, GoTo, Shape
  <2>2. req[t].op = "jira"
    BY <1>7, RequestOf DEF CreateTicket, OpsAt
  <2>3. \A f : f = F(t) => OwedTo("jira", f)'
    BY <2>1, <2>2 DEF OwedTo, F
  <2> QED BY <1>2, <1>3, <2>1, <2>3 DEF Audited
<1>8. CASE AppendAudit(t)
  <2> PICK e : e = [op |-> req[t].op, finding |-> F(t)]
    OBVIOUS
  <2>1. /\ UNCHANGED <<remediations, branches, prs, tickets>> /\ trail' = trail \cup {e}
    BY <1>8 DEF AppendAudit
  <2>2. Done(t) /\ req[t] \in Requests
    BY <1>8, RequestOf DEF AppendAudit, Inv, ThreadOK
  <2>3. DoneFor(e)'
    BY <2>1, <2>2 DEF DoneFor, Done, Requests
  <2> QED BY <1>2, <1>3, <2>1, <2>3 DEF Audited
<1>9. CASE Receive(t) \/ RejectForeign(t) \/ FindFinding(t) \/ ReadSource(t) \/ ReadFails(t) \/ RecordFix(t)
  BY <1>4, <1>9 DEF Receive, RejectForeign, FindFinding, ReadSource, ReadFails, RecordFix, Refuse, data
<1>10. CASE LookUpFails(t) \/ LookUpNothing(t) \/ WalkNothing(t) \/ WalkFinds(t) \/ WalkBreaks(t)
  BY <1>4, <1>10 DEF LookUpFails, LookUpNothing, WalkNothing, WalkFinds, WalkBreaks, data
<1>12. CASE SwitchFails(t) \/ SwitchBranch(t) \/ TruncateFile(t) \/ WriteFile(t) \/ WriteFails(t)
  BY <1>4, <1>12 DEF SwitchFails, SwitchBranch, TruncateFile, WriteFile, WriteFails, Refuse, data
<1>11. CASE AddFile(t) \/ CommitIndex(t) \/ RejectWithoutBranch(t) \/ OpenFails(t)
  BY <1>4, <1>11 DEF AddFile, CommitIndex, RejectWithoutBranch, OpenFails, Refuse, data
<1> QED BY <1>5, <1>6, <1>7, <1>8, <1>9, <1>10, <1>11, <1>12 DEF Step

\* Every branch, pull request and ticket has its event or is owed it, and every
\* event its record.
THEOREM RecordsAreAlwaysAudited == Spec => []RecordsAreAudited
<1>1. Init => Inv /\ Audited
  BY InvInit DEF Init, Audited
<1>2. Inv /\ Audited /\ [Next]_vars => (Inv /\ Audited)'
  <2> SUFFICES ASSUME Inv, Audited, [Next]_vars PROVE Audited'
    BY InvNext
  <2>1. CASE UNCHANGED vars
    BY <2>1 DEF Audited, OwedTo, DoneFor, F, vars, data, local
  <2>2. CASE Next
    BY <2>2, AuditedStep DEF Next, Step
  <2> QED BY <2>1, <2>2
<1>3. Inv /\ Audited => RecordsAreAudited
  BY DEF Audited, OwedTo, DoneFor, RecordsAreAudited
<1> QED BY <1>1, <1>2, <1>3, PTL DEF Spec

(***************************************************************************)
(* Requests that never overlap.                                            *)
(***************************************************************************)
\* A file keeps no literal that is not staged, the index none that is not on every
\* branch, a fix that is still to be written none that is not staged; strings have been
\* replaced at least as often.
Ordered ==
    /\ torn = {}
    /\ \A file \in Files : /\ Keeps(tree[file], index[file])
                          /\ \A b \in DOMAIN tip : Keeps(index[file], tip[b][file])
    /\ \A t \in Threads : pc[t] \in {"record", "switch", "write", "fill"} /\ Changes(t) =>
           Keeps(fix[t].fixed, index[F(t).file])
    /\ \A t \in Threads : pc[t] = "walk" => ~Recorded(t)

Alone == \A t, u \in Threads : pc[t] # "idle" /\ pc[u] # "idle" => t = u

Serial == ~overlapped => Alone /\ Ordered

Accumulates ==
    \A file \in Files :
        /\ Keeps(index'[file], index[file])
        /\ \A b \in DOMAIN tip : Keeps(tip'[b][file], tip[b][file])

LEMMA StepTurn ==
    ASSUME Inv, NEW t \in Threads, Step(t), ~overlapped', Serial
    PROVE  /\ ~overlapped /\ Ordered
           /\ \A u \in Threads \ {t} : pc[u] = "idle" /\ pc'[u] = "idle"
<1>1. ~overlapped
  <2>1. CASE Receive(t)
    BY <2>1 DEF Receive
  <2>2. CASE ~Receive(t)
    <3>1. overlapped' = overlapped
      BY <2>2 DEF Step, RejectForeign, FindFinding, ReadSource, ReadFails, RecordFix,
                  LookUpFails, LookUpNothing, WalkNothing, WalkFinds, WalkBreaks,
                  SwitchFails, SwitchBranch, TruncateFile, WriteFile, WriteFails,
                  AddFile, CommitIndex, SaveBranch, RejectWithoutBranch, OpenFails,
                  OpenPullRequest, CreateTicket, AppendAudit, Refuse
    <3> QED BY <3>1
  <2> QED BY <2>1, <2>2
<1>2. Alone /\ Ordered
  BY <1>1 DEF Serial
<1>3. \A u \in Threads \ {t} : pc[u] = "idle"
  <2>1. CASE Receive(t)
    BY <2>1 DEF Receive, Busy
  <2>2. CASE ~Receive(t)
    <3>1. pc[t] # "idle"
      BY <2>2 DEF Step, RejectForeign, FindFinding, ReadSource, ReadFails, RecordFix,
                  LookUpFails, LookUpNothing, WalkNothing, WalkFinds, WalkBreaks,
                  SwitchFails, SwitchBranch, TruncateFile, WriteFile, WriteFails,
                  AddFile, CommitIndex, SaveBranch, RejectWithoutBranch, OpenFails,
                  OpenPullRequest, CreateTicket, AppendAudit
    <3> QED BY <1>2, <3>1 DEF Alone
  <2> QED BY <2>1, <2>2
<1>4. Others(t)
  BY OthersStay DEF Inv
<1> QED BY <1>1, <1>2, <1>3, <1>4 DEF Others

LEMMA SerialStep ==
    ASSUME Inv, NEW t \in Threads, Step(t), ~overlapped', Serial
    PROVE  Alone' /\ Ordered' /\ Accumulates
<1>1. /\ Ordered /\ \A u \in Threads \ {t} : pc[u] = "idle" /\ pc'[u] = "idle"
  BY StepTurn
<1>2. Alone'
  BY <1>1 DEF Alone
<1> SUFFICES Ordered' /\ Accumulates
  BY <1>2
<1>3. /\ Shape /\ tree \in [Files -> Content] /\ index \in [Files -> Content] /\ head \in DOMAIN tip
      /\ \A b \in DOMAIN tip : tip[b] \in [Files -> Content]
  BY DEF Inv, Shape
<1>4. ASSUME NEW file \in Files
      PROVE  /\ tree[file] \in Content /\ index[file] \in Content
             /\ \A b \in DOMAIN tip : tip[b][file] \in Content
             /\ Keeps(tree[file], index[file]) /\ \A b \in DOMAIN tip : Keeps(index[file], tip[b][file])
  BY <1>1, <1>3 DEF Ordered
\* Steps that keep what is staged and committed as it is, and the fix or drop it.
<1>5. ASSUME UNCHANGED <<torn, index, tip>>,
             \A file \in Files : Keeps(tree'[file], index[file]),
             pc'[t] \in {"record", "switch", "write", "fill"} /\ Changes(t)' => Keeps(fix'[t].fixed, index[F(t)'.file]),
             pc'[t] = "walk" => ~Recorded(t)'
      PROVE  Ordered' /\ Accumulates
  <2>1. Accumulates
    BY <1>4, <1>5, KeepsReflexive DEF Accumulates
  <2>2. \A file \in Files : /\ Keeps(tree'[file], index'[file])
                           /\ \A b \in DOMAIN tip' : Keeps(index'[file], tip'[b][file])
    BY <1>4, <1>5
  <2>3. ASSUME NEW u \in Threads, pc'[u] \in {"record", "switch", "write", "fill"}, Changes(u)'
        PROVE  Keeps(fix'[u].fixed, index'[F(u)'.file])
    <3>1. u = t
      BY <1>1, <2>3
    <3> HIDE DEF F, Changes
    <3> QED BY <1>5, <2>3, <3>1
  <2>4. \A u \in Threads : pc'[u] = "walk" => ~Recorded(u)'
    <3> HIDE DEF Recorded
    <3> QED BY <1>1, <1>5
  <2>5. torn' = {}
    BY <1>1, <1>5 DEF Ordered
  <2> HIDE DEF F, Changes, Recorded, Keeps
  <2> QED BY <2>1, <2>2, <2>3, <2>4, <2>5 DEF Ordered
\* Steps that leave Git alone, and have no fix to write afterwards.
<1>6. CASE pc'[t] \notin {"record", "switch", "write", "fill", "walk"} /\ UNCHANGED <<tree, torn, index, tip>>
  BY <1>4, <1>5, <1>6
<1>7. CASE ReadSource(t)
  <2>1. UNCHANGED <<git, req>> /\ pc'[t] = "record"
    BY <1>3, <1>7 DEF ReadSource, GoTo, Shape
  <2>2. fix'[t] = IF req[t].inTree /\ F(t).file # None THEN Remediation(F(t), tree[F(t).file]) ELSE NoSource(F(t))
    BY <1>3, <1>7 DEF ReadSource, Shape
  <2>3. F(t)' = F(t) /\ F(t).file \in Files \cup {None}
    BY <1>7, <2>1, RequestOf DEF F, ReadSource
  <2>4. Changes(t)' => Keeps(fix'[t].fixed, index[F(t)'.file])
    <3>1. CASE req[t].inTree /\ F(t).file # None
      <4>1. tree[F(t).file] \in Content /\ index[F(t).file] \in Content /\ Keeps(tree[F(t).file], index[F(t).file])
        BY <1>4, <2>3, <3>1
      <4>2. fix'[t].fixed = Fixed(F(t), tree[F(t).file])
        BY <2>2, <3>1 DEF Remediation
      <4> QED BY <2>3, <4>1, <4>2, FixedContent, KeepsTransitive
    <3>2. CASE ~(req[t].inTree /\ F(t).file # None)
      BY <2>2, <3>2 DEF NoSource, Changes
    <3> QED BY <3>1, <3>2
  <2> HIDE DEF F, Changes
  <2> QED BY <1>4, <1>5, <2>1, <2>4 DEF git
<1>8. CASE RecordFix(t)
  <2>1. UNCHANGED <<git, req, fix>> /\ pc[t] = "record" /\ pc'[t] \in {"audit", "switch"}
    BY <1>3, <1>8 DEF RecordFix, GoTo, Shape
  <2>2. F(t)' = F(t) /\ (Changes(t)' <=> Changes(t))
    BY <2>1 DEF F, Changes
  <2>3. Changes(t)' => Keeps(fix'[t].fixed, index[F(t)'.file])
    BY <1>1, <2>1, <2>2 DEF Ordered
  <2> HIDE DEF F, Changes
  <2> QED BY <1>4, <1>5, <2>1, <2>3 DEF git
<1>9. CASE SwitchBranch(t)
  <2>1. UNCHANGED <<tree, torn, index, req, fix>> /\ pc[t] = "switch" /\ pc'[t] \in {"write", "save"}
    BY <1>3, <1>9 DEF SwitchBranch, GoTo, Shape
  <2>2. F(t)' = F(t) /\ (Changes(t)' <=> Changes(t))
    BY <2>1 DEF F, Changes
  <2>3. /\ DOMAIN tip \subseteq DOMAIN tip' /\ \A b \in DOMAIN tip : tip'[b] = tip[b]
        /\ \A b \in DOMAIN tip' : \E a \in DOMAIN tip : tip'[b] = tip[a]
    BY <1>3, <1>9 DEF SwitchBranch
  <2>4. Accumulates
    BY <1>4, <2>1, <2>3, KeepsReflexive DEF Accumulates
  <2>5. \A file \in Files : /\ Keeps(tree'[file], index'[file])
                           /\ \A b \in DOMAIN tip' : Keeps(index'[file], tip'[b][file])
    BY <1>4, <2>1, <2>3
  <2>6. ASSUME NEW u \in Threads, pc'[u] \in {"record", "switch", "write", "fill"}, Changes(u)'
        PROVE  Keeps(fix'[u].fixed, index'[F(u)'.file])
    <3>1. u = t
      BY <1>1, <2>6
    <3> QED BY <1>1, <2>1, <2>2, <2>6, <3>1 DEF Ordered
  <2>7. torn' = {} /\ \A u \in Threads : pc'[u] # "walk"
    BY <1>1, <2>1 DEF Ordered
  <2> HIDE DEF F, Changes, Keeps
  <2> QED BY <2>4, <2>5, <2>6, <2>7 DEF Ordered
<1>10. CASE TruncateFile(t) \/ WriteFile(t)
  <2>1. F(t).file \in Files /\ Changes(t) /\ fix[t].fixed \in Content
    BY <1>10, BranchRequest DEF TruncateFile, WriteFile, Inv, ThreadOK
  <2>2. /\ UNCHANGED <<index, tip, req, fix>> /\ pc[t] \in {"write", "fill"} /\ pc'[t] \in {"fill", "add"}
    BY <1>3, <1>10 DEF TruncateFile, WriteFile, GoTo, Shape
  <2>3. torn = {} /\ Writing(t) = {}
    BY <1>1 DEF Ordered, Writing
  <2>4. UNCHANGED torn
    BY <1>10, <2>3 DEF TruncateFile, WriteFile
  <2>5. PICK c \in {fix[t].fixed} \cup Pieces(fix[t].fixed, fix[t].fixed) : tree' = [tree EXCEPT ![F(t).file] = c]
    BY <1>10, <2>3 DEF TruncateFile, WriteFile
  <2>6. Keeps(fix[t].fixed, index[F(t).file]) /\ index[F(t).file] \in Content
    BY <1>1, <1>4, <2>1, <2>2 DEF Ordered
  <2>7. c \in Content /\ Keeps(c, fix[t].fixed)
    BY <2>1, <2>5, PiecesContent, PiecesKeep, KeepsReflexive
  <2>8. Keeps(c, index[F(t).file])
    BY <2>1, <2>6, <2>7, KeepsTransitive
  <2>9. \A file \in Files : Keeps(tree'[file], index[file])
    BY <1>3, <1>4, <2>1, <2>5, <2>8
  <2>10. F(t)' = F(t) /\ fix'[t] = fix[t]
    BY <2>2 DEF F
  <2> HIDE DEF F, Changes, Keeps
  <2> QED BY <1>5, <2>2, <2>4, <2>6, <2>9, <2>10
<1>11. CASE AddFile(t)
  <2>1. UNCHANGED <<tree, torn, tip>> /\ pc'[t] = "commit"
    BY <1>3, <1>11 DEF AddFile, GoTo, Shape
  <2>2. \A file \in Files : index'[file] \in {index[file], tree[file]}
    BY <1>3, <1>11 DEF AddFile
  <2>3. \A u \in Threads : pc'[u] \notin {"record", "switch", "write", "fill", "walk"}
    BY <1>1, <2>1
  <2>4. ASSUME NEW file \in Files
        PROVE  /\ Keeps(index'[file], index[file]) /\ Keeps(tree'[file], index'[file])
               /\ \A b \in DOMAIN tip : /\ Keeps(index'[file], tip[b][file])
                                       /\ Keeps(tip'[b][file], tip[b][file])
    <3>1. Keeps(index[file], index[file]) /\ Keeps(tree[file], tree[file])
      BY <1>4, KeepsReflexive
    <3>2. \A b \in DOMAIN tip : Keeps(tree[file], tip[b][file]) /\ Keeps(tip[b][file], tip[b][file])
      BY <1>4, KeepsTransitive, KeepsReflexive
    <3> QED BY <1>4, <2>1, <2>2, <3>1, <3>2
  <2>5. torn' = {}
    BY <1>1, <2>1 DEF Ordered
  <2> HIDE DEF F, Changes, Keeps
  <2> QED BY <2>1, <2>3, <2>4, <2>5 DEF Ordered, Accumulates
<1>12. CASE CommitIndex(t)
  <2>1. UNCHANGED <<tree, torn, index>> /\ pc'[t] = "save"
    BY <1>3, <1>12 DEF CommitIndex, GoTo, Shape
  <2>2. DOMAIN tip' = DOMAIN tip /\ \A b \in DOMAIN tip : tip'[b] \in {tip[b], index}
    BY <1>3, <1>12 DEF CommitIndex
  <2>3. \A u \in Threads : pc'[u] \notin {"record", "switch", "write", "fill", "walk"}
    BY <1>1, <2>1
  <2>4. ASSUME NEW file \in Files
        PROVE  /\ Keeps(index'[file], index[file]) /\ Keeps(tree'[file], index'[file])
               /\ \A b \in DOMAIN tip : /\ Keeps(index[file], tip'[b][file])
                                       /\ Keeps(tip'[b][file], tip[b][file])
    <3>1. Keeps(index[file], index[file]) /\ \A b \in DOMAIN tip : Keeps(tip[b][file], tip[b][file])
      BY <1>4, KeepsReflexive
    <3> QED BY <1>4, <2>1, <2>2, <3>1
  <2>5. torn' = {}
    BY <1>1, <2>1 DEF Ordered
  <2> HIDE DEF F, Changes, Keeps
  <2> QED BY <2>1, <2>2, <2>3, <2>4, <2>5 DEF Ordered, Accumulates
<1>13. CASE RejectForeign(t) \/ ReadFails(t) \/ SwitchFails(t) \/ RejectWithoutBranch(t)
            \/ OpenFails(t) \/ LookUpFails(t) \/ WalkBreaks(t) \/ AppendAudit(t)
  <2>1. Answer(t) /\ UNCHANGED git
    BY <1>13 DEF RejectForeign, ReadFails, SwitchFails, RejectWithoutBranch, OpenFails,
                 LookUpFails, WalkBreaks, AppendAudit, Refuse
  <2> QED BY <1>3, <1>6, <2>1, AnswerStep DEF git
<1>14. CASE WriteFails(t)
  <2>1. torn = {} /\ Answer(t) /\ UNCHANGED <<tree, index, tip>> /\ torn' = torn \ {t}
    BY <1>1, <1>14 DEF WriteFails, Ordered
  <2> QED BY <1>3, <1>6, <2>1, AnswerStep
<1>15. CASE LookUpNothing(t)
  <2>1. UNCHANGED <<git, req, remediations>> /\ pc'[t] = "walk" /\ ~Recorded(t)
    BY <1>3, <1>15 DEF LookUpNothing, GoTo, Shape, data
  <2>2. ~Recorded(t)'
    BY <2>1 DEF Recorded, F
  <2> HIDE DEF Recorded
  <2> QED BY <1>4, <1>5, <2>1, <2>2 DEF git
\* Alone, a thread that walks the records again finds what it found before.
<1>16. CASE WalkFinds(t)
  BY <1>1, <1>16 DEF WalkFinds, Ordered, Recorded
<1>17. CASE Receive(t) \/ FindFinding(t) \/ WalkNothing(t)
  <2>1. UNCHANGED git /\ \E step \in {"find", "read", "ticket", "lookup", "open"} : GoTo(t, step)
    <3>1. FindFinding(t) => req[t].op \in {"fix", "jira", "branch", "pr"}
      BY RequestOf DEF FindFinding, Requests
    <3> QED BY <1>17, <3>1 DEF Receive, FindFinding, WalkNothing
  <2> QED BY <1>3, <1>6, <2>1 DEF GoTo, Shape, git
<1>18. CASE SaveBranch(t) \/ OpenPullRequest(t) \/ CreateTicket(t)
  BY <1>3, <1>6, <1>18 DEF SaveBranch, OpenPullRequest, CreateTicket, GoTo, Shape, git
<1> QED BY <1>7, <1>8, <1>9, <1>10, <1>11, <1>12, <1>13, <1>14, <1>15, <1>16, <1>17, <1>18 DEF Step

\* The state before the first request.
LEMMA SerialInit ==
    ASSUME Init
    PROVE  Serial
<1>1. Alone
  BY DEF Init, Alone
<1>2. \A file \in Files : Keeps(Source[file], Source[file])
  BY MvpAssumption, KeepsReflexive
<1>3. torn = {} /\ tree = Source /\ index = Source /\ \A b \in DOMAIN tip : tip[b] = Source
  BY DEF Init
<1>4. \A t \in Threads : pc[t] = "idle"
  BY DEF Init
<1> HIDE DEF Keeps, Changes, Recorded, F
<1> QED BY <1>1, <1>2, <1>3, <1>4 DEF Serial, Ordered

\* As long as no two requests overlap, no rewriting that was staged or committed is
\* undone, whichever write or Git command fails.
THEOREM FixesAlwaysAccumulate == Spec => FixesAccumulate
<1>1. Init => Inv /\ Serial
  BY InvInit, SerialInit
<1>2. Inv /\ Serial /\ [Next]_vars => (Inv /\ Serial)' /\ [~overlapped' => Accumulates]_vars
  <2> SUFFICES ASSUME Inv, Serial, [Next]_vars
               PROVE  Serial' /\ [~overlapped' => Accumulates]_vars
    BY InvNext
  <2>1. CASE UNCHANGED vars
    BY <2>1 DEF Serial, Alone, Ordered, Recorded, Changes, F, vars, git, data, local
  <2>2. CASE Next
    <3>1. PICK t \in Threads : Step(t)
      BY <2>2 DEF Next, Step
    <3>2. ~overlapped' => Alone' /\ Ordered' /\ Accumulates
      BY <3>1, SerialStep
    <3> QED BY <3>2 DEF Serial
  <2> QED BY <2>1, <2>2
<1>3. [~overlapped' => Accumulates]_vars <=>
         [~overlapped' =>
          \A file \in Files :
              /\ Keeps(index'[file], index[file])
              /\ \A b \in DOMAIN tip : Keeps(tip'[b][file], tip[b][file])]_vars
  BY DEF Accumulates
<1> QED BY <1>1, <1>2, <1>3, PTL DEF Spec, FixesAccumulate

(***************************************************************************)
(* Requests that never overlap, over a disk that keeps what is written and *)
(* a Git that does what it is asked: the two calls whose outcome           *)
(* create_branch ignores succeed.                                          *)
(***************************************************************************)
GitObeys ==
    \A t \in Threads :
        /\ WriteFails(t) => pc[t] = "write"
        /\ AddFile(t) => index' = [index EXCEPT ![F(t).file] = tree[F(t).file]]
        /\ CommitIndex(t) => tip' = [tip EXCEPT ![head] = index]

\* Thread t has written its fix, and its branch request is not answered yet.
Written(t) ==
    /\ pc[t] \in {"add", "commit", "save", "audit"}
    /\ req[t].op = "branch"
    /\ Changes(t)

\* What is written is staged once git add has run and committed once git commit
\* has, and a file that was written holds the fix.
Settled ==
    /\ \A file \in Files : \/ index[file] = tree[file]
                          \/ \E t \in Threads : pc[t] \in {"fill", "add"} /\ F(t).file = file
    /\ tip[head] = tree \/ \E t \in Threads : pc[t] \in {"fill", "add", "commit"}
    /\ \A t \in Threads : Written(t) => fix[t].fixed = tree[F(t).file]

SerialSettled == ~overlapped => Settled

LEMMA SettledStep ==
    ASSUME Inv, NEW t \in Threads, Step(t), ~overlapped', Serial, SerialSettled, GitObeys
    PROVE  Settled'
<1>1. /\ \A u \in Threads \ {t} : pc[u] = "idle" /\ pc'[u] = "idle"
      /\ Settled /\ Ordered
  BY StepTurn DEF SerialSettled
<1>2. /\ Shape /\ tree \in [Files -> Content] /\ index \in [Files -> Content] /\ head \in DOMAIN tip
      /\ \A b \in DOMAIN tip : tip[b] \in [Files -> Content]
  BY DEF Inv, Shape
\* Steps that leave Git alone, between two requests to it.
<1>3. ASSUME UNCHANGED <<tree, index, head, tip>>, pc[t] \notin {"fill", "add", "commit"},
             Written(t)' => Written(t) /\ F(t)' = F(t) /\ fix' = fix
      PROVE  Settled'
  <2>1. /\ \A file \in Files : index'[file] = tree'[file]
        /\ tip'[head'] = tree'
    BY <1>1, <1>3 DEF Settled
  <2>2. ASSUME NEW u \in Threads, Written(u)'
        PROVE  fix'[u].fixed = tree'[F(u)'.file]
    <3>1. u = t
      BY <1>1, <2>2 DEF Written
    <3>2. fix[t].fixed = tree[F(t).file]
      BY <1>1, <1>3, <2>2, <3>1 DEF Settled
    <3> QED BY <1>3, <2>2, <3>1, <3>2
  <2> HIDE DEF F, Written
  <2> QED BY <2>1, <2>2 DEF Settled
<1>4. CASE pc'[t] \notin {"add", "commit", "save", "audit"} /\ UNCHANGED <<tree, index, head, tip>> /\ pc[t] \notin {"fill", "add", "commit"}
  BY <1>3, <1>4 DEF Written
<1>5. CASE RecordFix(t)
  <2>1. /\ UNCHANGED <<git, req>> /\ pc[t] = "record"
        /\ pc'[t] = IF req[t].op = "fix" THEN "audit" ELSE "switch"
    BY <1>2, <1>5 DEF RecordFix, GoTo, Shape
  <2> QED BY <1>3, <2>1 DEF Written, git
<1>6. CASE SwitchBranch(t)
  <2>1. /\ UNCHANGED <<tree, index, req, fix>> /\ pc[t] = "switch"
        /\ pc'[t] = IF Changes(t) THEN "write" ELSE "save"
    BY <1>2, <1>6 DEF SwitchBranch, GoTo, Shape
  <2>2. tip'[head'] = tip[head]
    BY <1>2, <1>6 DEF SwitchBranch
  <2>3. /\ \A file \in Files : index'[file] = tree'[file]
        /\ tip'[head'] = tree'
    BY <1>1, <2>1, <2>2 DEF Settled
  <2>4. Changes(t)' <=> Changes(t)
    BY <2>1 DEF Changes, F
  <2>5. \A u \in Threads : ~Written(u)'
    BY <1>1, <2>1, <2>4 DEF Written
  <2> HIDE DEF F, Written
  <2> QED BY <2>3, <2>5 DEF Settled
<1>7. CASE TruncateFile(t) \/ WriteFile(t)
  <2>1. F(t).file \in Files /\ fix[t].fixed \in Content /\ torn = {}
    BY <1>1, <1>7, BranchRequest DEF TruncateFile, WriteFile, Inv, ThreadOK, Ordered
  <2>2. PICK c : /\ tree' = [tree EXCEPT ![F(t).file] = c] /\ (WriteFile(t) => c = fix[t].fixed)
    BY <1>7, <2>1 DEF TruncateFile, WriteFile
  <2>3. /\ UNCHANGED <<index, req, fix>> /\ F(t)' = F(t) /\ pc[t] \in {"write", "fill"}
        /\ pc'[t] = IF WriteFile(t) THEN "add" ELSE "fill"
    <3>1. TruncateFile(t) => ~WriteFile(t)
      BY DEF TruncateFile, WriteFile
    <3> QED BY <1>2, <1>7, <3>1 DEF TruncateFile, WriteFile, GoTo, Shape, F
  <2>4. \A file \in Files : index'[file] = tree'[file] \/ file = F(t).file
    BY <1>1, <1>2, <2>1, <2>2, <2>3 DEF Settled
  <2>5. pc'[t] = "add" => fix'[t].fixed = tree'[F(t)'.file]
    BY <1>2, <2>1, <2>2, <2>3
  <2>6. \A u \in Threads : Written(u)' => u = t /\ pc'[t] = "add"
    BY <1>1, <2>3 DEF Written
  <2> HIDE DEF F, Written
  <2> QED BY <2>3, <2>4, <2>5, <2>6 DEF Settled
<1>8. CASE AddFile(t)
  <2>1. F(t).file \in Files /\ Changes(t) /\ req[t].op = "branch"
    BY <1>8, BranchRequest DEF AddFile, Inv, ThreadOK
  <2>2. /\ index' = [index EXCEPT ![F(t).file] = tree[F(t).file]] /\ UNCHANGED <<tree, req, fix>>
        /\ pc'[t] = "commit" /\ pc[t] = "add" /\ F(t)' = F(t)
    BY <1>2, <1>8 DEF AddFile, GoTo, Shape, F, GitObeys
  <2>3. \A file \in Files : index'[file] = tree'[file]
    BY <1>1, <1>2, <2>1, <2>2 DEF Settled
  <2>4. fix'[t].fixed = tree'[F(t)'.file]
    BY <1>1, <2>1, <2>2 DEF Settled, Written
  <2>5. \A u \in Threads : Written(u)' => u = t
    BY <1>1 DEF Written
  <2> HIDE DEF F, Written
  <2> QED BY <2>2, <2>3, <2>4, <2>5 DEF Settled
<1>9. CASE CommitIndex(t)
  <2>1. Changes(t) /\ req[t].op = "branch"
    BY <1>9, BranchRequest DEF CommitIndex, Inv, ThreadOK
  <2>2. /\ tip' = [tip EXCEPT ![head] = index] /\ UNCHANGED <<tree, index, head, req, fix>>
        /\ pc'[t] = "save" /\ pc[t] = "commit" /\ F(t)' = F(t)
    BY <1>2, <1>9 DEF CommitIndex, GoTo, Shape, F, GitObeys
  <2>3. \A file \in Files : index[file] = tree[file]
    BY <1>1, <2>2 DEF Settled
  <2>4. index = tree
    BY <1>2, <2>3
  <2>5. tip'[head'] = tree' /\ \A file \in Files : index'[file] = tree'[file]
    BY <1>2, <2>2, <2>4
  <2>6. fix'[t].fixed = tree'[F(t)'.file]
    BY <1>1, <2>1, <2>2 DEF Settled, Written
  <2>7. \A u \in Threads : Written(u)' => u = t
    BY <1>1 DEF Written
  <2> HIDE DEF F, Written
  <2> QED BY <2>5, <2>6, <2>7 DEF Settled
<1>10. CASE SaveBranch(t)
  <2>1. UNCHANGED <<git, req, fix>> /\ pc[t] = "save" /\ pc'[t] = "audit"
    BY <1>2, <1>10 DEF SaveBranch, GoTo, Shape
  <2>2. F(t)' = F(t) /\ (Changes(t)' <=> Changes(t))
    BY <2>1 DEF F, Changes
  <2>3. Written(t)' => Written(t)
    BY <2>1, <2>2 DEF Written
  <2> QED BY <1>3, <2>1, <2>2, <2>3 DEF git
<1>11. CASE OpenPullRequest(t) \/ CreateTicket(t)
  <2>1. UNCHANGED <<git, req>> /\ pc[t] \in {"open", "ticket"} /\ pc'[t] = "audit"
    BY <1>2, <1>11 DEF OpenPullRequest, CreateTicket, GoTo, Shape
  <2>2. req[t].op # "branch"
    BY <2>1, RequestOf DEF OpsAt
  <2> QED BY <1>3, <2>1, <2>2 DEF Written, git
<1>12. CASE RejectForeign(t) \/ ReadFails(t) \/ SwitchFails(t) \/ WriteFails(t) \/ RejectWithoutBranch(t)
            \/ OpenFails(t) \/ LookUpFails(t) \/ WalkBreaks(t) \/ AppendAudit(t)
  <2>1. Answer(t) /\ UNCHANGED <<tree, index, head, tip>> /\ pc[t] \notin {"fill", "add", "commit"}
    BY <1>12 DEF RejectForeign, ReadFails, SwitchFails, WriteFails, RejectWithoutBranch, OpenFails,
                 LookUpFails, WalkBreaks, AppendAudit, Refuse, git, GitObeys
  <2>2. pc'[t] = "idle"
    BY <1>2, <2>1, AnswerStep
  <2> QED BY <1>4, <2>1, <2>2
<1>13. CASE Receive(t) \/ FindFinding(t) \/ LookUpNothing(t) \/ WalkNothing(t) \/ WalkFinds(t)
  <2>1. UNCHANGED <<tree, index, head, tip>> /\ pc[t] \notin {"fill", "add", "commit"}
        /\ \E step \in {"find", "read", "ticket", "lookup", "walk", "switch", "open"} : GoTo(t, step)
    <3>1. FindFinding(t) => req[t].op \in {"fix", "jira", "branch", "pr"}
      BY RequestOf DEF FindFinding, Requests
    <3> QED BY <1>13, <3>1 DEF Receive, FindFinding, LookUpNothing, WalkNothing, WalkFinds, git
  <2> QED BY <1>2, <1>4, <2>1 DEF GoTo, Shape
<1>14. CASE ReadSource(t)
  BY <1>2, <1>4, <1>14 DEF ReadSource, GoTo, Shape, git
<1> QED BY <1>5, <1>6, <1>7, <1>8, <1>9, <1>10, <1>11, <1>12, <1>13, <1>14 DEF Step

\* What is on disk when no request is between writing its file and committing it, and
\* what is on the branch checked out when a branch request is about to be answered.
FixesAreCommitted ==
    ~overlapped =>
        /\ (\A t \in Threads : pc[t] \notin {"fill", "add", "commit"}) =>
               tip[head] = tree /\ \A file \in Files : index[file] = tree[file]
        /\ \A t \in Threads : pc[t] = "audit" /\ req[t].op = "branch" /\ Changes(t) =>
               fix[t].fixed = tip[head][F(t).file]

LEMMA SettledCommitted ==
    ASSUME Inv, Serial, SerialSettled
    PROVE  FixesAreCommitted
<1> SUFFICES ASSUME ~overlapped
             PROVE  /\ (\A t \in Threads : pc[t] \notin {"fill", "add", "commit"}) =>
                           tip[head] = tree /\ \A file \in Files : index[file] = tree[file]
                    /\ \A t \in Threads : pc[t] = "audit" /\ req[t].op = "branch" /\ Changes(t) =>
                           fix[t].fixed = tip[head][F(t).file]
  BY DEF FixesAreCommitted
<1>1. Settled /\ Alone
  BY DEF Serial, SerialSettled
<1>2. (\A t \in Threads : pc[t] \notin {"fill", "add", "commit"}) =>
           tip[head] = tree /\ \A file \in Files : index[file] = tree[file]
  BY <1>1 DEF Settled
<1>3. ASSUME NEW t \in Threads, pc[t] = "audit", req[t].op = "branch", Changes(t)
      PROVE  fix[t].fixed = tip[head][F(t).file]
  <2>1. \A u \in Threads : pc[u] \notin {"fill", "add", "commit"}
    BY <1>1, <1>3 DEF Alone
  <2>2. fix[t].fixed = tree[F(t).file]
    BY <1>1, <1>3 DEF Settled, Written
  <2> QED BY <1>2, <2>1, <2>2
<1> QED BY <1>2, <1>3

\* As long as no two requests overlap, a write that has begun is finished and git add
\* and git commit do what they are asked, the working tree is clean between a request's
\* commit and the next one's writing, and a branch request is answered with its fix committed on the branch that is
\* checked out.  CommittedOnBranch asks for the branch that is named: it fails
\* because that need not be the one checked out, and because of these two conditions.
THEOREM FixesAreAlwaysCommitted == Spec /\ [][GitObeys]_vars => []FixesAreCommitted
<1>1. Init => Inv /\ Serial /\ SerialSettled
  <2> SUFFICES ASSUME Init PROVE SerialSettled
    BY InvInit, SerialInit
  <2>1. Settled
    BY DEF Init, Settled, Written
  <2> QED BY <2>1 DEF SerialSettled
<1>2. Inv /\ Serial /\ SerialSettled /\ [Next]_vars /\ [GitObeys]_vars => (Inv /\ Serial /\ SerialSettled)'
  <2> SUFFICES ASSUME Inv, Serial, SerialSettled, [Next]_vars, [GitObeys]_vars
               PROVE  Serial' /\ SerialSettled'
    BY InvNext
  <2>1. CASE UNCHANGED vars
    BY <2>1 DEF Serial, Alone, Ordered, Recorded, SerialSettled, Settled, Written, Changes, F, vars, git, data, local
  <2>2. CASE Next /\ GitObeys
    <3>1. PICK t \in Threads : Step(t)
      BY <2>2 DEF Next, Step
    <3>2. ~overlapped' => Alone' /\ Ordered' /\ Settled'
      BY <2>2, <3>1, SerialStep, SettledStep
    <3> QED BY <3>2 DEF Serial, SerialSettled
  <2> QED BY <2>1, <2>2
<1> QED BY <1>1, <1>2, SettledCommitted, PTL DEF Spec

(***************************************************************************)
(* Looking a remediation up.                                               *)
(***************************************************************************)
\* As long as no two requests overlap, a branch request that ends while it looks its
\* remediation up belongs to a finding that has one on record.
OnlyRecordedFail == ~overlapped => \A f \in unread : \E r \in remediations : r.finding = f

\* Without overlap RecordedFixIsFound has one cause, a record that exists: the
\* branch request of a finding that has no remediation always gets past the lookup.
THEOREM OnlyRecordedEverFail == Spec => []OnlyRecordedFail
<1>1. Init => Inv /\ Serial /\ OnlyRecordedFail
  BY InvInit, SerialInit DEF Init, OnlyRecordedFail
<1>2. Inv /\ Serial /\ OnlyRecordedFail /\ [Next]_vars => (Inv /\ Serial /\ OnlyRecordedFail)'
  <2> SUFFICES ASSUME Inv, Serial, OnlyRecordedFail, [Next]_vars
               PROVE  Serial' /\ OnlyRecordedFail'
    BY InvNext
  <2>1. CASE UNCHANGED vars
    BY <2>1 DEF Serial, Alone, Ordered, Recorded, OnlyRecordedFail, Changes, F, vars, git, data, local
  <2>2. CASE Next
    <3>1. PICK t \in Threads : Step(t)
      BY <2>2 DEF Next, Step
    <3>2. ~overlapped' => Alone' /\ Ordered'
      BY <3>1, SerialStep
    <3>3. ASSUME ~overlapped', NEW f \in unread'
          PROVE  \E r \in remediations' : r.finding = f
      <4>1. /\ \A u \in Threads \ {t} : pc[u] = "idle"
            /\ ~overlapped
        BY <3>1, <3>3, StepTurn
      <4>2. remediations \subseteq remediations'
        BY <3>1, InvStep DEF Grows
      <4>3. CASE LookUpFails(t)
        <5>1. Recorded(t) /\ (f \in unread \/ f = F(t))
          BY <3>3, <4>1, <4>3 DEF LookUpFails
        <5> QED BY <4>1, <4>2, <5>1 DEF Recorded, OnlyRecordedFail
      <4>4. CASE ~LookUpFails(t)
        <5>1. unread' = unread
          BY <3>1, <4>1, <4>4 DEF Step, Receive, RejectForeign, FindFinding, ReadSource, ReadFails, RecordFix,
                            LookUpNothing, WalkNothing, WalkFinds, WalkBreaks,
                            SwitchFails, SwitchBranch, TruncateFile, WriteFile, WriteFails,
                            AddFile, CommitIndex, SaveBranch, RejectWithoutBranch, OpenFails,
                            OpenPullRequest, CreateTicket, AppendAudit, Refuse
        <5> QED BY <3>3, <4>1, <4>2, <5>1 DEF OnlyRecordedFail
      <4> QED BY <4>3, <4>4
    <3> QED BY <3>2, <3>3 DEF Serial, OnlyRecordedFail
  <2> QED BY <2>1, <2>2
<1> QED BY <1>1, <1>2, PTL DEF Spec

(***************************************************************************)
(* The refinement of AuditedWork: the dicts of the process and its trail.  *)
(***************************************************************************)
\* One piece of work for an operation and a finding's id, however often it is done and
\* whichever tenants share the id.
Item(op, id) == [id |-> <<op, id>>, tenant |-> None]

Items ==
    {Item("fix", r.finding.id) : r \in remediations} \cup {Item("branch", b.finding.id) : b \in branches}
    \cup {Item("pr", p.finding.id) : p \in prs} \cup {Item("jira", f.id) : f \in tickets}

Events == {<<e.op, e.finding.id>> : e \in trail}

SeenKept == [p \in {"process"} |-> Items]
SeenPromised == [p \in {"process"} |-> Events]

Work == INSTANCE AuditedWork WITH
    Places <- {"process"},
    Volatile <- {},
    Tenants <- {None},
    kept <- SeenKept,
    evidence <- Events,
    promised <- SeenPromised

\* An event is about work that is there.
Evident == \A id \in Events : \E w \in Items : w.id = id

LEMMA EventsHaveItems == Audited => Evident
<1> SUFFICES ASSUME Audited, NEW e \in trail
             PROVE  \E w \in Items : w.id = <<e.op, e.finding.id>>
  BY DEF Evident, Events
<1>1. Item(e.op, e.finding.id).id = <<e.op, e.finding.id>>
  BY DEF Item
<1>2. Item(e.op, e.finding.id) \in Items
  <2>1. DoneFor(e)
    BY DEF Audited
  <2>2. CASE e.op = "fix"
    <3>1. PICK r \in remediations : r.finding = e.finding
      BY <2>1, <2>2 DEF DoneFor
    <3> QED BY <2>2, <3>1 DEF Items
  <2>3. CASE e.op = "branch"
    <3>1. PICK b \in branches : b.finding.id = e.finding.id
      BY <2>1, <2>3 DEF DoneFor
    <3> QED BY <2>3, <3>1 DEF Items
  <2>4. CASE e.op = "pr"
    <3>1. PICK p \in prs : p.finding.id = e.finding.id
      BY <2>1, <2>4 DEF DoneFor
    <3> QED BY <2>4, <3>1 DEF Items
  <2>5. CASE e.op = "jira"
    BY <2>1, <2>5 DEF DoneFor, Items
  <2> QED BY <2>1, <2>2, <2>3, <2>4, <2>5 DEF DoneFor
<1> QED BY <1>1, <1>2

\* What one more record shows: something new, or nothing.
LEMMA RecordIsWork ==
    ASSUME Audited, NEW op, NEW f,
           Items' = Items \cup {Item(op, f)}, UNCHANGED trail
    PROVE  Work!Do("process") \/ UNCHANGED <<SeenKept, Events, SeenPromised>>
<1>1. UNCHANGED <<Events, SeenPromised>>
  BY DEF Events, SeenPromised
<1>2. CASE Item(op, f) \in Items
  BY <1>1, <1>2 DEF SeenKept
<1>3. CASE Item(op, f) \notin Items
  <2> DEFINE w == Item(op, f)
  <2>1. w.id = <<op, f>> /\ w.tenant \in {None}
    BY DEF Item
  <2>2. \A v \in Items : v.id # w.id
    <3>1. \A v \in Items : \E o, g : v = Item(o, g)
      BY DEF Items
    <3>2. \A o, g : Item(o, g).id = <<o, g>> /\ (<<o, g>> = <<op, f>> => o = op /\ g = f)
      BY DEF Item
    <3> QED BY <1>3, <2>1, <3>1, <3>2
  <2> HIDE DEF w
  <2>3. w.id \notin Work!Used
    <3>1. Work!Used = Events \cup {v.id : v \in Items}
      BY DEF Work!Used, Work!IdsAt, SeenKept
    <3> QED BY <2>2, <3>1, EventsHaveItems DEF Evident
  <2>4. w \in SeenKept'["process"] /\ SeenKept' = [SeenKept EXCEPT !["process"] = @ \cup {w}]
    BY DEF SeenKept, w
  <2> QED BY <1>1, <2>1, <2>3, <2>4 DEF Work!Do
<1> QED BY <1>2, <1>3

LEMMA StepIsWork ==
    ASSUME Inv, Audited, NEW t \in Threads, Step(t)
    PROVE  Work!Next \/ UNCHANGED <<SeenKept, Events, SeenPromised>>
<1>1. CASE UNCHANGED data
  BY <1>1 DEF data, Items, Events, SeenKept, SeenPromised
<1>2. ASSUME NEW op, Items' = Items \cup {Item(op, F(t).id)}, UNCHANGED trail
      PROVE  Work!Next \/ UNCHANGED <<SeenKept, Events, SeenPromised>>
  BY <1>2, RecordIsWork DEF Work!Next
<1>3. CASE RecordFix(t)
  <2>1. /\ remediations' = remediations \cup {fix[t]} /\ UNCHANGED <<branches, prs, tickets, trail>>
        /\ fix[t].finding = F(t) /\ F(t) \in Findings
    BY <1>3, RequestOf DEF RecordFix, Inv, ThreadOK, Made
  <2>2. Items' = Items \cup {Item("fix", F(t).id)}
    BY <2>1 DEF Items
  <2> QED BY <1>2, <2>1, <2>2
<1>4. CASE SaveBranch(t)
  <2> DEFINE new == [finding |-> F(t), name |-> F(t).branch]
  <2>1. /\ branches' = {b \in branches : b.finding.id # F(t).id} \cup {new}
        /\ UNCHANGED <<remediations, prs, tickets, trail>> /\ F(t) \in Findings
    BY <1>4, RequestOf DEF SaveBranch
  <2>2. new.finding = F(t)
    OBVIOUS
  <2> HIDE DEF new
  <2>3. {Item("branch", b.finding.id) : b \in branches'} = {Item("branch", b.finding.id) : b \in branches} \cup {Item("branch", F(t).id)}
    BY <2>1, <2>2
  <2>4. Items' = Items \cup {Item("branch", F(t).id)}
    BY <2>1, <2>3 DEF Items
  <2> QED BY <1>2, <2>1, <2>4
<1>5. CASE OpenPullRequest(t)
  <2>1. PICK b \in branches : prs' = {p \in prs : p.finding.id # F(t).id} \cup {[finding |-> F(t), name |-> b.name]}
    BY <1>5 DEF OpenPullRequest
  <2> DEFINE new == [finding |-> F(t), name |-> b.name]
  <2>2. /\ prs' = {p \in prs : p.finding.id # F(t).id} \cup {new} /\ new.finding = F(t)
        /\ UNCHANGED <<remediations, branches, tickets, trail>> /\ F(t) \in Findings
    BY <1>5, <2>1, RequestOf DEF OpenPullRequest
  <2> HIDE DEF new
  <2>3. {Item("pr", p.finding.id) : p \in prs'} = {Item("pr", p.finding.id) : p \in prs} \cup {Item("pr", F(t).id)}
    BY <2>2
  <2>4. Items' = Items \cup {Item("pr", F(t).id)}
    BY <2>2, <2>3 DEF Items
  <2> QED BY <1>2, <2>2, <2>4
<1>6. CASE CreateTicket(t)
  <2>1. /\ tickets' = {f \in tickets : f.id # F(t).id} \cup {F(t)}
        /\ UNCHANGED <<remediations, branches, prs, trail>>
    BY <1>6 DEF CreateTicket
  <2>2. {Item("jira", f.id) : f \in tickets'} = {Item("jira", f.id) : f \in tickets} \cup {Item("jira", F(t).id)}
    BY <2>1
  <2>3. Items' = Items \cup {Item("jira", F(t).id)}
    BY <2>1, <2>2 DEF Items
  <2> QED BY <1>2, <2>1, <2>3
<1>7. CASE AppendAudit(t)
  <2> DEFINE id == <<req[t].op, F(t).id>>
  <2>1. Items' = Items /\ Events' = Events \cup {id}
    <3> PICK e : e = [op |-> req[t].op, finding |-> F(t)]
      OBVIOUS
    <3>1. trail' = trail \cup {e} /\ UNCHANGED <<remediations, branches, prs, tickets>>
      BY <1>7 DEF AppendAudit
    <3> QED BY <3>1 DEF Items, Events
  <2>2. \E w \in Items : w.id = id
    <3>1. Audited'
      BY AuditedStep
    <3>2. Evident'
      BY <3>1, EventsHaveItems, PTL
    <3> QED BY <2>1, <3>2 DEF Evident
  <2> HIDE DEF id
  <2>3. id \in Work!IdsAt("process")
    BY <2>2 DEF Work!IdsAt, SeenKept
  <2>4. SeenKept' = SeenKept /\ SeenPromised' = [SeenPromised EXCEPT !["process"] = @ \cup {id}]
    BY <2>1 DEF SeenKept, SeenPromised
  <2> QED BY <2>1, <2>3, <2>4 DEF Work!Acknowledge, Work!Next
<1>8. CASE Receive(t) \/ RejectForeign(t) \/ FindFinding(t) \/ ReadSource(t) \/ ReadFails(t)
  BY <1>1, <1>8 DEF Receive, RejectForeign, FindFinding, ReadSource, ReadFails, Refuse
<1>9. CASE LookUpFails(t) \/ LookUpNothing(t) \/ WalkNothing(t) \/ WalkFinds(t) \/ WalkBreaks(t)
  BY <1>1, <1>9 DEF LookUpFails, LookUpNothing, WalkNothing, WalkFinds, WalkBreaks
<1>11. CASE SwitchFails(t) \/ SwitchBranch(t) \/ TruncateFile(t) \/ WriteFile(t) \/ WriteFails(t)
  BY <1>1, <1>11 DEF SwitchFails, SwitchBranch, TruncateFile, WriteFile, WriteFails, Refuse
<1>10. CASE AddFile(t) \/ CommitIndex(t) \/ RejectWithoutBranch(t) \/ OpenFails(t)
  BY <1>1, <1>10 DEF AddFile, CommitIndex, RejectWithoutBranch, OpenFails, Refuse
<1> QED BY <1>3, <1>4, <1>5, <1>6, <1>7, <1>8, <1>9, <1>10, <1>11 DEF Step

\* Seen from outside, the threads of one process do audited work over its dicts as
\* they do over the database: an id that has a fix, branch, pull request or ticket
\* keeps one, and no event or answer is ahead of its record, although records are
\* replaced by later calls for the same id (LocalSecurityMvp).
THEOREM AuditedWorkIsImplemented == Spec => Work!Spec
<1>1. Init => Inv /\ Audited
  BY InvInit DEF Init, Audited
<1>2. Init => Work!Init
  BY DEF Init, Work!Init, SeenKept, SeenPromised, Events, Items
<1>3. Inv /\ Audited /\ [Next]_vars => (Inv /\ Audited)' /\ [Work!Next]_<<SeenKept, Events, SeenPromised>>
  <2> SUFFICES ASSUME Inv, Audited, [Next]_vars
               PROVE  Audited' /\ (Work!Next \/ UNCHANGED <<SeenKept, Events, SeenPromised>>)
    BY InvNext
  <2>1. CASE UNCHANGED vars
    BY <2>1 DEF Audited, OwedTo, DoneFor, F, Items, Events, SeenKept, SeenPromised, vars, data, local
  <2>2. CASE Next
    BY <2>2, AuditedStep, StepIsWork DEF Next, Step
  <2> QED BY <2>1, <2>2
<1> QED BY <1>1, <1>2, <1>3, PTL DEF Spec, Work!Spec, Work!vars
=============================================================================
