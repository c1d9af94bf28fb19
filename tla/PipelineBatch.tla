--------------------------- MODULE PipelineBatch ---------------------------
(***************************************************************************)
(* What the pipeline promises of a batch of findings.  The state is the    *)
(* batch: it grows by one finding at a time, so its states are the inputs  *)
(* of create_batch, validate_batch, create_workflow and build_graph up to  *)
(* MaxBatch findings, with repeated ids where a report was imported twice. *)
(***************************************************************************)
EXTENDS Pipeline

CONSTANTS
    Findings,  \* findings a batch may hold
    MaxBatch   \* bound on its length

ASSUME BatchAssumption ==
    /\ \A f \in Findings : IsFinding(f)
    /\ NoCvss \notin Int
    /\ MaxBatch \in Nat

VARIABLE batch

Init == batch = <<>>

AddFinding ==
    /\ Len(batch) < MaxBatch
    /\ \E f \in Findings : batch' = Append(batch, f)

Next == AddFinding

Spec == Init /\ [][Next]_batch

Priorities == {"P0", "P1", "P2", "P3"}

\* A batch of findings, and every score the classifier gives one is on the
\* scale of risk_score (0 to 10) that Vulnerability validates.
TypeOK ==
    /\ batch \in Seq(Findings)
    /\ \A i \in DOMAIN batch : /\ RiskScore(batch[i]) \in 0..1000
                               /\ Priority(RiskScore(batch[i])) \in Priorities

\* "A known CVE is sufficient evidence for the deterministic local classifier to
\* create a reviewable plan" (the comment in vulnerability_classification.py): a
\* finding with a CVE, submitted alone, gets a plan that can enter approval.
CveSufficesForPlan ==
    \A i \in DOMAIN batch : batch[i].cve => AllValid(<<batch[i]>>)

\* At least as serious in everything the classifier reads.
AtLeast(f, g) ==
    /\ g.cve => f.cve
    /\ g.category \in HighImpact => f.category \in HighImpact
    /\ \/ f.cvss = NoCvss /\ g.cvss = NoCvss /\ SeverityScore(f.severity) >= SeverityScore(g.severity)
       \/ f.cvss # NoCvss /\ g.cvss # NoCvss /\ f.cvss >= g.cvss

\* A finding that is at least as serious in every respect is never prioritised
\* below the other (vulnerability_classification.py), although the cap of the
\* score hides part of the difference.
PriorityMonotone ==
    \A i, j \in DOMAIN batch :
        AtLeast(batch[i], batch[j]) =>
            /\ RiskScore(batch[i]) >= RiskScore(batch[j])
            /\ Priority(RiskScore(batch[j])) = "P0" => Priority(RiskScore(batch[i])) = "P0"
            /\ Priority(RiskScore(batch[i])) = "P3" => Priority(RiskScore(batch[j])) = "P3"

\* A local scan stores its risk score as the finding's CVSS score, and an
\* engine workflow scores the finding again: the increments are counted twice,
\* but for the rules of the scanner the priority stays what the scan gave it
\* (mvp.py _scanner_findings, then classify).
RescoreKeepsPriority ==
    \A i \in DOMAIN batch :
        (\E rule \in ScannerRules : batch[i] = RuleMatch(rule, batch[i].id)) =>
            Classify(Scanned(batch[i])).priority = Classify(batch[i]).priority

\* The two callers of the pipeline agree on every batch, the empty one included:
\* build_graph stops at "validation" exactly when create_workflow is blocked.
GraphAgreesWithEngine ==
    /\ BuildGraph(batch).status = EngineStatus(batch)
    /\ BuildGraph(batch).agent = "approval" <=> AllValid(batch)

DistinctIds == \A i, j \in DOMAIN batch : batch[i].id = batch[j].id => i = j

\* When no id is repeated, a finding's verdict does not depend on the findings
\* it is submitted with, although plans and classifications are looked up in
\* dictionaries of the whole batch (create_batch, validate_batch).
VerdictIsOwn ==
    DistinctIds =>
        \A i \in DOMAIN batch :
            ValidateBatch(batch)[i].passed = AllValid(<<batch[i]>>)
=============================================================================
