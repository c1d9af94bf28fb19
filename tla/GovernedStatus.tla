--------------------------- MODULE GovernedStatus ---------------------------
(***************************************************************************)
(* What the API promises about findings, without its rows, snapshots or    *)
(* steps.  A finding is known by its id and has one status, which the      *)
(* tenants that have submitted it share.  A worker changes statuses only   *)
(* under a request that was granted to it, only of findings the            *)
(* requester's tenant holds, and only as the request's kind allows; a      *)
(* granted review or decision is always entered in the log before the      *)
(* worker takes another request.  Only a submission may be cut short.      *)
(***************************************************************************)
EXTENDS Sequences

CONSTANTS
    Workers,    \* who serves requests
    Ids,        \* findings
    Tenants,
    Reviewers,  \* users who may decide
    Events,     \* log entries a request may owe: type, aggregate, actor, tenant
    Nothing     \* an empty desk

Status == {"OPEN", "IN_REVIEW", "REMEDIATED", "ACCEPTED_RISK"}
Submissions == {"SCAN_IMPORTED", "REPOSITORY_SCAN"}

VARIABLES
    status,  \* status[id], "ABSENT" before the finding is submitted
    holders, \* holders[id]: the tenants that have submitted it
    desk,    \* desk[w]: the entry w owes and whether its request is granted
    log      \* entries made

vars == <<status, holders, desk, log>>

Init ==
    /\ status \in [Ids -> Status \cup {"ABSENT"}]
    /\ holders \in [Ids -> SUBSET Tenants]
    /\ \A id \in Ids : status[id] = "ABSENT" <=> holders[id] = {}
    /\ desk = [w \in Workers |-> Nothing]
    /\ log = <<>>

Begin(w) ==
    /\ desk[w] = Nothing
    /\ \E e \in Events :
          /\ e.type \in {"APPROVE", "REJECT"} => e.actor \in Reviewers
          /\ desk' = [desk EXCEPT ![w] = [entry |-> e, granted |-> e.type \in Submissions]]
    /\ UNCHANGED <<status, holders, log>>

Grant(w) ==
    /\ desk[w] # Nothing
    /\ ~desk[w].granted
    /\ desk' = [desk EXCEPT ![w] = [entry |-> desk[w].entry, granted |-> TRUE]]
    /\ UNCHANGED <<status, holders, log>>

\* A request that was never granted, or a submission cut short.
Withdraw(w) ==
    /\ desk[w] # Nothing
    /\ ~desk[w].granted \/ desk[w].entry.type \in Submissions
    /\ desk' = [desk EXCEPT ![w] = Nothing]
    /\ UNCHANGED <<status, holders, log>>

\* A submission makes its tenant a holder; only the first one sets the status.
Submit(w) ==
    /\ desk[w] # Nothing
    /\ desk[w].granted
    /\ desk[w].entry.type \in Submissions
    /\ \E id \in Ids, s \in Status :
          /\ holders' = [holders EXCEPT ![id] = @ \cup {desk[w].entry.tenant}]
          /\ status' = [status EXCEPT ![id] = IF @ = "ABSENT" THEN s ELSE @]
    /\ UNCHANGED <<desk, log>>

\* The statuses a granted review or decision may give a finding.
Allowed(e, id) ==
    CASE e.type = "REMEDIATION_REQUESTED" -> {"IN_REVIEW"}
      [] e.type = "APPROVE" -> IF e.aggregate = id THEN {"REMEDIATED"} ELSE {}
      [] e.type = "REJECT" -> IF e.aggregate = id THEN {"ACCEPTED_RISK"} ELSE {}
      [] e.type \in Submissions -> {}

Change(w) ==
    /\ desk[w] # Nothing
    /\ desk[w].granted
    /\ \E id \in Ids :
          /\ desk[w].entry.tenant \in holders[id]
          /\ \E s \in Allowed(desk[w].entry, id) : status' = [status EXCEPT ![id] = s]
    /\ UNCHANGED <<holders, desk, log>>

Record(w) ==
    /\ desk[w] # Nothing
    /\ desk[w].granted
    /\ log' = Append(log, desk[w].entry)
    /\ desk' = [desk EXCEPT ![w] = Nothing]
    /\ UNCHANGED <<status, holders>>

Next == \E w \in Workers :
    Begin(w) \/ Grant(w) \/ Withdraw(w) \/ Submit(w) \/ Change(w) \/ Record(w)

Spec == Init /\ [][Next]_vars
=============================================================================
